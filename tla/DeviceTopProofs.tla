--------------------------- MODULE DeviceTopProofs ---------------------------
(***************************************************************************)
(* What the host means and what the device makes of it agree, for a host   *)
(* that keeps to direct addressing (DirectHost): whatever the chain, the   *)
(* number of slots, the latency of the memory and the order of its other   *)
(* accesses, every command is tagged as the host means it, the slots hold  *)
(* the descriptors under way, and the pointer of the sequencer is at the   *)
(* operand that is being streamed.                                         *)
(*                                                                         *)
(* The inductive invariant numbers what is in the queue: descriptors,      *)
(* status words, and the beats of the current operand each stand there in  *)
(* a run of consecutive numbers.  The host's counters are the upper ends   *)
(* of the runs, the device's ring pointers and request counters the lower  *)
(* ends; the ghost record names the lower ends.  The rest of the invariant *)
(* is about time: the longer the host has been idle, the nearer to its end *)
(* is whatever it waits for.                                               *)
(*                                                                         *)
(* The last part is about the FIFO (AxiFifo) that implements the two       *)
(* queues of the device.                                                   *)
(***************************************************************************)
EXTENDS DeviceTop, AxiFifo, FiniteSetTheorems, FunctionTheorems,
        SequenceTheorems, TLAPS

\* The request path is proved about in a module of its own.
P == INSTANCE RequestPathProofs WITH ZERO <- Desc!ZeroWord, NoData <- "none"

-----------------------------------------------------------------------------
(***************************************************************************)
(* The inductive invariant.                                                *)
(***************************************************************************)
\* The commands under way: position 0 is the head register, position i the
\* i-th word of the queue.
Pos == {i \in 0..Len(rw_queue) : i = 0 => CAS_queue_head_r # <<>>}
Ent(i) == IF i = 0 THEN CAS_queue_head_r[1] ELSE rw_queue[i]
TagAt(i) == Ent(i).tag

\* The data that the read at position i gets.
DataAt(i) == IF i = 0 THEN DRAM_data
             ELSE P!Replies[P!ReadsUpTo(rw_queue, i)]

\* Which of the reads under way it waits for: none if this is not positive.
Turn(i) == P!ReadsUpTo(rw_queue, i) - Len(read_data_queue)
Unanswered(i) == i > 0 /\ Ent(i).rd /\ Turn(i) > 0

\* The operands that are read from memory.
Operand == {"A", "B"}

\* Three kinds of commands are numbered: descriptors, status words, and the
\* beats of an operand (from 1).
Class(t) == IF t.want \in Operand THEN "beat" ELSE t.want
Num(t) == IF t.want \in Operand THEN (t.addr - Chain[t.k].base) \div 32 + 1
          ELSE t.k

\* The positions of a class.
Members(c) == {i \in Pos : Class(TagAt(i)) = c}

\* The commands of a class are those with the numbers lo + 1 to hi, in order.
Run(c, lo, hi) ==
  /\ \A i \in Members(c) : Num(TagAt(i)) \in (lo + 1)..hi
  /\ \A i, j \in Members(c) : i < j => Num(TagAt(i)) < Num(TagAt(j))
  /\ \A k \in (lo + 1)..hi : \E i \in Members(c) : Num(TagAt(i)) = k

\* The writes to an address that are under way.
Writing(a) == {i \in Pos : ~Ent(i).rd /\ TagAt(i).addr = a}

\* What the host's memory holds where a command reads.
DataOf(t) == IF t.want = "descriptor" THEN Chain[t.k].word ELSE NOISE

\* What the invariant speaks of and no register holds: the descriptors loaded
\* and released, the beats of the current descriptor presented, and the cycles
\* until the pointer moves past it.
Ghost == [ld: 0..N, rl: 0..N, pres: Nat, rho: 0..5]

\* The operands presented to their last beat.
Presented(g) == IF cur = 0 THEN 0
                ELSE IF g.pres = Chain[cur].beats THEN cur ELSE cur - 1

\* A clear is under way; outside it, and after the switch, the registers count.
Clearing == HPC_clear_sig \/ Writing(Desc!HPC_CLR_SIG) # {}
Ready == setup = 0 \/ (setup >= 2 /\ ~Clearing)

\* The types of the registers.
Types ==
  /\ Desc!TypeOK /\ Seqr!TypeOK
  /\ setup \in 0..Len(Setup) /\ idle \in 0..SETTLE
  /\ fetched \in Nat /\ cur \in Nat /\ beats \in Nat /\ cleared \in Nat
  /\ awaiting \in Seq([want: Want, k: 0..N])

\* How far host and device may be apart.
Bounds(g) ==
  /\ g.rl <= cleared /\ cleared <= cur /\ cur <= g.ld /\ g.ld <= fetched
  /\ fetched <= N /\ fetched - cleared <= SLOTS
  /\ g.ld - g.rl <= SLOTS
  /\ cur = 0 => beats = 0 /\ g.pres = 0
  /\ cur > 0 => beats \in 1..Chain[cur].beats
  /\ g.pres <= beats
  /\ cur > 0 /\ Chain[cur].type = "C" => g.pres = beats
  /\ cur > 0 /\ cleared = cur => beats = Chain[cur].beats /\ ~Awaits(BeatOf(cur))
  /\ cur > 0 /\ g.rl = cur => g.pres = Chain[cur].beats

\* Switching on, clearing and switching off.
Control ==
  /\ \A i, j \in Writing(Desc!AIM_WORK_SIG) : i = j
  /\ \A i, j \in Writing(Desc!HPC_CLR_SIG) : i = j
  /\ AIM_working <=> ((setup >= 1) # (Writing(Desc!AIM_WORK_SIG) # {}))
  /\ Writing(Desc!AIM_WORK_SIG) # {} => setup \in {0, 1}
  /\ Clearing => setup = 2 /\ fetched = 0
  /\ HPC_clear_sig => idle <= LATENCY + 2 /\ Writing(Desc!HPC_CLR_SIG) = {}
  /\ setup >= 1 /\ ~Open => fetched = 0
  /\ setup = 0 => cleared = fetched

\* A command of the queue carries the tags that the host means.
Exact(e) ==
  LET t == e.tag IN
  /\ t.want \in Want
  /\ t.A <=> t.want = "A"
  /\ t.B <=> t.want = "B"
  /\ t.incr <=> t.want = "descriptor"
  /\ t.clr <=> t.want = "status"
  /\ ~t.C
  /\ t.want # "C"
  /\ t.want \in {"A", "B", "descriptor"} => e.rd
  /\ t.want = "status" => ~e.rd /\ Desc!InDescRange(t.addr)

\* All commands under way are tagged so.
Tags == \A i \in Pos : Exact(Ent(i))

\* Only beats of the current operand are under way.
BeatsCurrent ==
  \A i \in Members("beat") :
    cur > 0 /\ TagAt(i).k = cur /\ TagAt(i).want = Chain[cur].type

\* The three runs: the device at the lower end, the host at the upper.
Streams(g) ==
  /\ Run("descriptor", g.ld, fetched)
  /\ Run("status", g.rl, cleared)
  /\ Run("beat", g.pres, beats)
  /\ BeatsCurrent

\* A descriptor follows the status word that makes room for it, and a status
\* word follows the beats.
Order ==
  /\ \A i \in Members("descriptor"), j \in Members("status") :
       TagAt(j).k <= TagAt(i).k - SLOTS => j < i
  /\ \A i \in Members("beat"), j \in Members("status") : TagAt(j).k = cur => i < j

\* The slots hold the descriptors loaded and not released.
SlotsMatch(g) ==
  /\ \A k \in (g.rl + 1)..g.ld : slot[SlotOf(k)] = Content(k)
  /\ \A s \in 0..(SLOTS - 1) :
       (\A k \in (g.rl + 1)..g.ld : SlotOf(k) # s) => slot[s] = Desc!EmptySlot

\* The pointer is one behind while a completion is delayed.
Behind(g) == IF g.rho > 0 THEN 1 ELSE 0

\* The ring pointers, and the address the next descriptor is expected at.
Rings(g) ==
  /\ Ready => /\ wr_ptr = g.ld % SLOTS
              /\ clr_ptr = g.rl % SLOTS
              /\ PIM_opcode_match_ptr = (Presented(g) - Behind(g)) % SLOTS
  /\ Ready /\ setup # 0 =>
       next_desc_addr = DescAddr(IF fetched = 0 THEN 2 ELSE fetched + 1)

\* Writes the host waits for before its next control write, and reads it
\* waits for before its next operand: how long it has waited bounds how far
\* they are from being presented.
Pending == {i \in Pos : ~Ent(i).rd /\
              \/ TagAt(i).addr \in {Desc!AIM_WORK_SIG, Desc!HPC_CLR_SIG}
              \/ setup = 0 /\ TagAt(i).want = "status"}

\* Control writes, and the status words before the switch-off.
PendingTimed ==
  \A i \in Pending :
    /\ idle + i <= LATENCY + 1
    /\ \A j \in 1..(i - 1) : Unanswered(j) => idle + i - j <= in_flight[Turn(j)].age

\* Beats that have their data.
BeatsTimed == \A i \in Members("beat") : ~Unanswered(i) => idle + i <= LATENCY

\* The next operand's descriptor, once it has its data.
DescriptorsTimed ==
  \A i \in Members("descriptor") :
    TagAt(i).k = cur + 1 /\ ~Unanswered(i) =>
      idle + i <= LATENCY + 1 \/ (cur > 0 /\ Awaits(BeatOf(cur)))

\* The longer the host has been idle, the nearer they are to the head.
Timing == PendingTimed /\ BeatsTimed /\ DescriptorsTimed

\* The host's list of awaited replies is the device's list of unanswered reads.
Awaited ==
  /\ Len(awaiting) = Len(in_flight)
  /\ \A i \in Pos : Unanswered(i) =>
       awaiting[Turn(i)] = [want |-> TagAt(i).want, k |-> TagAt(i).k]

\* Every read meets the data of its own address.
Paired == \A i \in Pos : Ent(i).rd => DataAt(i) = DataOf(TagAt(i))

\* The operand whose beats are being counted.
Counting(g) == cur > 0 /\ (g.rho = 5 \/ Presented(g) = cur - 1)

\* The request counters, and a completion on its way to the pointer.
Sequencer(g) ==
  /\ g.rho > 0 => cur > 0 /\ Presented(g) = cur /\ idle + g.rho <= LATENCY + 6
  /\ g.rho = 5 => g.rl < cur
  /\ \A q \in 1..4 : desc_done_r[q] <=> g.rho = 5 - q
  /\ \A t \in {"A", "B", "C"} :
       PIM_req_cnt[t] = IF Counting(g) /\ t = Chain[cur].type THEN g.pres ELSE 0
  /\ setup = 0 => g.rho = 0 /\ Presented(g) = cur

\* No indirect address is being resolved.
Plain == ~indirect_r.valid /\ ~indirect_rr.valid

\* Only a result write is tagged as one.
LastRequest == req_r # <<>> => (req_r[1].tag.C <=> req_r[1].tag.want = "C")

\* The invariant.
DInv(g) ==
  /\ P!Inv /\ Types
  /\ Bounds(g) /\ Control /\ Tags /\ Streams(g) /\ Order /\ SlotsMatch(g)
  /\ Rings(g) /\ Timing /\ Awaited /\ Paired /\ Sequencer(g) /\ Plain /\ LastRequest

-----------------------------------------------------------------------------
(***************************************************************************)
(* One cycle of the device is one cycle of its request path.               *)
(***************************************************************************)
Args == [A: Desc!Addr, B: Desc!Addr, C: Desc!Addr]
Bus == [rd: BOOLEAN, wr: BOOLEAN, addr: Desc!Addr, args: Args, data: Data,
        want: Want, k: 0..N]
Issued(bus) == IF bus.rd THEN <<[data |-> bus.data, age |-> 0]>> ELSE <<>>
Held(bus) == Desc!dstC_pass(bus)

\* What RequestPath assumes of its constants.
LEMMA PathConstants ==
  ASSUME DirectHost
  PROVE  LATENCY \in Nat \ {0} /\ Desc!ZeroWord \in Data
  BY DEF DirectHost, Data

\* A tag is one of the path's tags.
LEMMA TagTyped ==
  ASSUME NEW bus \in Bus
  PROVE  TagOf(bus) \in Tag /\ ResultTag(bus) \in Tag
<1>1. /\ bus.addr \in Desc!Addr /\ bus.want \in Want /\ bus.k \in 0..N
  BY DEF Bus
<1>2. /\ Desc!Tags(bus).incr \in BOOLEAN /\ Desc!Tags(bus).clr \in BOOLEAN
      /\ Desc!Tags(bus).A \in BOOLEAN /\ Desc!Tags(bus).B \in BOOLEAN
  BY DEF Desc!Tags, Desc!is_desc_range_incr, Desc!is_desc_clr, Desc!srcA_pass,
         Desc!srcB_pass
<1> QED BY <1>1, <1>2 DEF TagOf, ResultTag, Tag

\* The commands and requests of a cycle are ones the path can meet.
LEMMA PathInputs ==
  ASSUME DirectHost, NEW bus \in Bus, ~(bus.rd /\ bus.wr)
  PROVE  P!Inputs(Command(bus), Bypass(bus), Issued(bus))
<1>1. TagOf(bus) \in Tag /\ ResultTag(bus) \in Tag
  BY TagTyped
<1>2. bus.rd \in BOOLEAN /\ bus.wr \in BOOLEAN /\ bus.data \in Data
  BY DEF Bus
<1>3. Held(bus) => bus.wr /\ ~bus.rd
  BY DEF Held, Desc!dstC_pass
<1>4. [rd |-> bus.rd, tag |-> TagOf(bus)] \in P!Command
  BY <1>1, <1>2 DEF P!Command
<1>5. [rd |-> FALSE, tag |-> ResultTag(bus), data |-> "none"]
        \in P!Service!Request
  BY <1>1 DEF P!Service!Request
<1>6. [data |-> bus.data, age |-> 0] \in P!Flight
  BY <1>2, PathConstants DEF P!Flight
<1>7. Command(bus) \in Seq(P!Command) /\ Len(Command(bus)) < 2
  BY <1>4 DEF Command
<1>8. Bypass(bus) \in {<<>>} \cup {<<q>> : q \in P!Service!Request}
  BY <1>5 DEF Bypass
<1>9. Bypass(bus) # <<>> => Command(bus) = <<>>
  BY <1>3 DEF Bypass, Command, Held
<1>10. Issued(bus) \in Seq(P!Flight)
  BY <1>6 DEF Issued
<1>11. Len(Issued(bus)) = IF Len(Command(bus)) = 1 /\ Command(bus)[1].rd THEN 1 ELSE 0
  BY <1>2, <1>3 DEF Issued, Command, Held
<1>12. \A i \in 1..Len(Issued(bus)) : Issued(bus)[i].age = 0
  BY DEF Issued
<1> QED BY <1>7, <1>8, <1>9, <1>10, <1>11, <1>12 DEF P!Inputs

\* A cycle of the device drives its request path.
LEMMA PathClock ==
  ASSUME NEW bus, NEW reply, Clock(bus, reply)
  PROVE  P!Clock(Command(bus), Bypass(bus), Issued(bus), reply)
<1>1. Path!Clock(Command(bus), Bypass(bus), Issued(bus), reply)
  BY DEF Clock, Issued
<1> QED BY <1>1 DEF Path!Clock, P!Clock, Path!MayReply, P!MayReply,
     Path!CAS_rw_queue_rd_en, P!CAS_rw_queue_rd_en, Path!Answered, P!Answered,
     P!Aged, Path!Aged, Path!ui_write_valid, P!ui_write_valid, P!ui_read_valid,
     Path!ui_read_valid, Path!CAS_read_data_QUEUE_rd_en,
     P!CAS_read_data_QUEUE_rd_en, P!Presented, Path!Presented, P!Seen, Path!Seen

\* So the path's invariant is the device's.
LEMMA PathInv ==
  ASSUME DirectHost, P!Inv, NEW bus \in Bus, ~(bus.rd /\ bus.wr),
         NEW reply \in BOOLEAN, Clock(bus, reply)
  PROVE  P!Inv'
<1>1. P!Inputs(Command(bus), Bypass(bus), Issued(bus))
  BY PathInputs
<1>2. P!Clock(Command(bus), Bypass(bus), Issued(bus), reply)
  BY PathClock
<1>3. P!TypeOK' /\ P!AgesDecrease' /\ P!QueuesInStep' /\ P!BacklogYoungerThanRead'
      /\ P!OccupancyBounded'
  BY <1>1, <1>2, PathConstants, P!StepType, P!StepAges, P!StepInStep, P!StepBacklog,
     P!StepOccupancy
<1> QED BY <1>3 DEF P!Inv

-----------------------------------------------------------------------------
(***************************************************************************)
(* How the positions move in a cycle: s is 1 if a command is dequeued, held *)
(* says that a result write is on the bus, new is the command that joins   *)
(* the queue.                                                              *)
(***************************************************************************)
Moves(s, held, new, n) ==
  /\ s \in {0, 1} /\ held \in BOOLEAN /\ Len(new) \in {0, 1}
  /\ new # <<>> <=> Len(new) = 1
  /\ held => s = 0 /\ new = <<>>
  /\ n \in Nat /\ Len(rw_queue) = n + s /\ Len(rw_queue)' = n + Len(new)
  /\ \A i \in Pos' :
       \/ new # <<>> /\ i = n + 1 /\ Ent(i)' = new[1]
       \/ i <= n /\ i + s \in Pos /\ (held \/ i + s > 0) /\ Ent(i)' = Ent(i + s)
  /\ \A j \in Pos : held \/ j > 0 =>
       j - s \in Pos' /\ j - s <= n /\ Ent(j - s)' = Ent(j)
  /\ new # <<>> => n + 1 \in Pos' /\ Ent(n + 1)' = new[1]

\* How far the positions move.
Shift(bus) == P!Dequeued(Held(bus))

\* A result write takes the place of the head register, and only that.
LEMMA HeldBypass ==
  ASSUME NEW bus
  PROVE  /\ (Bypass(bus) # <<>>) = Held(bus)
         /\ Held(bus) \in BOOLEAN
<1>1. CASE Held(bus)
  <2>1. Bypass(bus) # <<>>
    BY <1>1 DEF Bypass, Held
  <2> QED BY <1>1, <2>1 DEF Held, Desc!dstC_pass
<1>2. CASE ~Held(bus)
  <2>1. Bypass(bus) = <<>>
    BY <1>2 DEF Bypass, Held
  <2> QED BY <1>2, <2>1 DEF Held, Desc!dstC_pass
<1> QED BY <1>1, <1>2

\* A clock edge of the request path moves the positions that way.
LEMMA MovesStep ==
  ASSUME DirectHost, P!Inv, NEW bus \in Bus, ~(bus.rd /\ bus.wr),
         NEW reply \in BOOLEAN, Clock(bus, reply)
  PROVE  \E s, held, new, n :
           /\ s = Shift(bus) /\ held = Held(bus) /\ new = Command(bus)
           /\ Moves(s, held, new, n)
<1>0. PICK s, held, new, n : /\ s = Shift(bus) /\ held = Held(bus)
                             /\ new = Command(bus) /\ n = Len(rw_queue) - s
  OBVIOUS
<1>1. P!Inputs(new, Bypass(bus), Issued(bus))
  BY <1>0, PathInputs
<1>2. P!Clock(new, Bypass(bus), Issued(bus), reply)
  BY <1>0, PathClock
<1>3. P!TypeOK
  BY DEF P!Inv
<1>4. (Bypass(bus) # <<>>) = held /\ held \in BOOLEAN
  BY <1>0, HeldBypass
<1>5. /\ n \in Nat /\ Len(rw_queue') = n + Len(new)
      /\ \A i \in 1..n : rw_queue'[i] = rw_queue[i + s]
      /\ Len(new) = 1 => rw_queue'[n + 1] = new[1]
  BY <1>0, <1>1, <1>2, <1>3, <1>4, PathConstants, P!CommandsStep DEF Shift
<1>6. /\ s \in {0, 1}
      /\ s = 1 => Len(rw_queue) > 0 /\ ~held
  BY <1>0, <1>3, <1>4, PathConstants, P!DequeueCases DEF Shift
<1>7. /\ Len(new) \in {0, 1} /\ (new # <<>> <=> Len(new) = 1)
      /\ held => new = <<>>
  <2>1. new = <<>> \/ new = <<[rd |-> bus.rd, tag |-> TagOf(bus)]>>
    BY <1>0 DEF Command
  <2>2. held => new = <<>>
    BY <1>0 DEF Command, Held, Desc!dstC_pass
  <2> QED BY <2>1, <2>2
<1>8. CAS_queue_head_r' = IF held THEN CAS_queue_head_r
                          ELSE IF s = 1 THEN <<Head(rw_queue)>> ELSE <<>>
  BY <1>0, <1>2, <1>4 DEF P!Clock, Shift, P!Dequeued
<1>9. s = 1 => Head(rw_queue) = rw_queue[1]
  <2>1. rw_queue \in Seq(P!Command)
    BY <1>3 DEF P!TypeOK
  <2> QED BY <1>6, <2>1
<1>10. Len(rw_queue) \in Nat
  BY <1>3 DEF P!TypeOK
<1>11. CAS_queue_head_r' # <<>> <=> (held /\ CAS_queue_head_r # <<>>) \/ s = 1
  BY <1>4, <1>6, <1>8
<1>12. ASSUME NEW i \in Pos'
       PROVE  \/ new # <<>> /\ i = n + 1 /\ Ent(i)' = new[1]
              \/ /\ i <= n /\ i + s \in Pos /\ (held \/ i + s > 0)
                 /\ Ent(i)' = Ent(i + s)
  <2>1. i \in 0..(n + Len(new)) /\ (i = 0 => CAS_queue_head_r' # <<>>)
    BY <1>5 DEF Pos
  <2>2. CASE i = 0
    <3>1. CASE held
      <4>1. s = 0 /\ CAS_queue_head_r # <<>> /\ CAS_queue_head_r' = CAS_queue_head_r
        BY <1>6, <1>8, <1>11, <2>1, <2>2, <3>1
      <4> QED BY <1>5, <1>10, <2>2, <3>1, <4>1 DEF Pos, Ent
    <3>2. CASE ~held
      <4>1. s = 1 /\ CAS_queue_head_r' = <<rw_queue[1]>>
        BY <1>8, <1>9, <1>11, <2>1, <2>2, <3>2
      <4> QED BY <1>0, <1>5, <1>6, <1>10, <2>2, <4>1 DEF Pos, Ent
    <3> QED BY <3>1, <3>2
  <2>3. CASE i \in 1..n
    BY <1>0, <1>5, <1>6, <1>10, <2>3 DEF Pos, Ent
  <2>4. CASE i = n + 1 /\ new # <<>>
    BY <1>0, <1>5, <1>7, <1>10, <2>4 DEF Ent
  <2>5. i = 0 \/ i \in 1..n \/ (i = n + 1 /\ new # <<>>)
    <3>1. PICK q : q = Len(new)
      OBVIOUS
    <3>2. q \in {0, 1} /\ i \in 0..(n + q) /\ n \in Nat
      BY <1>5, <1>7, <2>1, <3>1
    <3>3. i = 0 \/ i \in 1..n \/ (i = n + 1 /\ q = 1)
      BY <3>2
    <3> QED BY <1>7, <3>1, <3>3
  <2> QED BY <2>2, <2>3, <2>4, <2>5
<1>13. ASSUME NEW j \in Pos, held \/ j > 0
       PROVE  j - s \in Pos' /\ j - s <= n /\ Ent(j - s)' = Ent(j)
  <2>1. j \in 0..Len(rw_queue) /\ (j = 0 => CAS_queue_head_r # <<>>)
    BY DEF Pos
  <2>2. CASE held
    <3>1. s = 0 /\ CAS_queue_head_r' = CAS_queue_head_r /\ n = Len(rw_queue)
      BY <1>0, <1>6, <1>8, <1>10, <2>2
    <3>2. j \in Pos'
      BY <1>5, <1>7, <1>10, <2>1, <3>1 DEF Pos
    <3>3. Ent(j)' = Ent(j)
      BY <1>5, <2>1, <3>1, <1>10 DEF Ent
    <3> QED BY <1>10, <2>1, <3>1, <3>2, <3>3
  <2>3. CASE ~held
    <3>1. j \in 1..Len(rw_queue)
      BY <1>13, <2>1, <2>3
    <3>2. CASE j = s
      <4>1. s = 1 /\ j - s = 0 /\ CAS_queue_head_r' = <<rw_queue[1]>>
        BY <1>6, <1>8, <1>9, <2>3, <3>1, <3>2
      <4> QED BY <1>0, <1>5, <1>6, <1>7, <1>10, <3>1, <3>2, <4>1 DEF Pos, Ent
    <3>3. CASE j # s
      <4>1. j - s \in 1..n /\ (j - s) + s = j
        BY <1>0, <1>6, <1>10, <3>1, <3>3
      <4>2. rw_queue'[j - s] = rw_queue[j]
        BY <1>5, <4>1, Zenon
      <4>3. PICK q : q = j - s
        OBVIOUS
      <4>4. q \in 1..n /\ q # 0 /\ j # 0 /\ n \in Nat /\ Len(new) \in Nat
        BY <1>6, <1>7, <1>10, <1>5, <3>1, <4>1, <4>3
      <4>5. q \in 0..Len(rw_queue')
        BY <1>5, <4>4
      <4>6. Ent(q)' = rw_queue'[q] /\ Ent(j) = rw_queue[j]
        BY <4>4 DEF Ent
      <4>7. q \in Pos'
        BY <4>4, <4>5 DEF Pos
      <4>8. rw_queue'[q] = rw_queue[j] /\ q <= n
        BY <4>2, <4>3, <4>4
      <4>9. Ent(j - s)' = Ent(j)
        BY <4>3, <4>6, <4>8
      <4> QED BY <4>3, <4>7, <4>8, <4>9
    <3> QED BY <3>2, <3>3
  <2> QED BY <2>2, <2>3
<1>14. new # <<>> => n + 1 \in Pos' /\ Ent(n + 1)' = new[1]
  BY <1>0, <1>5, <1>6, <1>7, <1>10 DEF Pos, Ent
<1>15. held => s = 0
  BY <1>4, <1>6
<1>16. Moves(s, held, new, n)
  BY <1>0, <1>10, <1>4, <1>5, <1>6, <1>7, <1>12, <1>13, <1>14, <1>15 DEF Moves
<1> QED BY <1>0, <1>16

\* What becomes of the reads: r is 1 if the memory answers its oldest read.
Answers(s, held, new, n, r) ==
  /\ r \in {0, 1} /\ Len(in_flight) \in Nat /\ r <= Len(in_flight)
  /\ Len(in_flight)' = Len(in_flight) - r + (IF new # <<>> /\ new[1].rd THEN 1 ELSE 0)
  /\ \A i \in 1..Len(rw_queue) :
       Turn(i) \in Int /\ (Unanswered(i) => Turn(i) \in 1..Len(in_flight))
  /\ \A i \in 1..n : /\ Turn(i)' = Turn(i + s) - r
                     /\ Unanswered(i)' <=> Unanswered(i + s) /\ Turn(i + s) > r
                     /\ Unanswered(i)' => (in_flight[Turn(i)].age)' =
                                            in_flight[Turn(i + s)].age + 1
  /\ \A i, j \in 1..Len(rw_queue) :
       i < j /\ Unanswered(i) /\ Ent(j).rd => Unanswered(j) /\ Turn(i) < Turn(j)
  /\ s = 1 => ~Unanswered(1)
  /\ s = 0 /\ ~held /\ Len(rw_queue) > 0 => Unanswered(1)
  /\ new # <<>> /\ new[1].rd => Unanswered(n + 1)' /\ Turn(n + 1)' = Len(in_flight)'

\* In a state of the path, reads are answered in order.
LEMMA TurnFacts ==
  ASSUME DirectHost, P!Inv
  PROVE  /\ Len(rw_queue) \in Nat /\ Len(in_flight) \in Nat
         /\ \A i \in 1..Len(rw_queue) :
              Turn(i) \in Int /\ (Unanswered(i) => Turn(i) \in 1..Len(in_flight))
         /\ \A i, j \in 1..Len(rw_queue) :
              i < j /\ Unanswered(i) /\ Ent(j).rd => Unanswered(j) /\ Turn(i) < Turn(j)
<1>1. /\ P!TypeOK
      /\ P!ReadsUpTo(rw_queue, Len(rw_queue)) = Len(read_data_queue) + Len(in_flight)
  BY DEF P!Inv, P!QueuesInStep
<1>2. /\ rw_queue \in Seq(P!Command) /\ Len(rw_queue) \in Nat
      /\ Len(in_flight) \in Nat /\ Len(read_data_queue) \in Nat
  BY <1>1 DEF P!TypeOK
<1>3. \A i \in 1..Len(rw_queue) : P!ReadsUpTo(rw_queue, i) \in Nat
  BY <1>2, PathConstants, P!CountType
<1>4. ASSUME NEW i \in 1..Len(rw_queue), Unanswered(i)
      PROVE  Turn(i) \in 1..Len(in_flight)
  <2>1. P!ReadsUpTo(rw_queue, i) <= P!ReadsUpTo(rw_queue, Len(rw_queue))
    BY <1>2, PathConstants, P!CountMonotone
  <2> QED BY <1>1, <1>2, <1>3, <1>4, <2>1 DEF Unanswered, Turn
<1>5. ASSUME NEW i \in 1..Len(rw_queue), NEW j \in 1..Len(rw_queue),
             i < j, Unanswered(i), Ent(j).rd
      PROVE  Unanswered(j) /\ Turn(i) < Turn(j)
  <2>1. P!ReadsUpTo(rw_queue, i) <= P!ReadsUpTo(rw_queue, j - 1)
    BY <1>2, <1>5, PathConstants, P!CountMonotone
  <2>2. rw_queue[j].rd \in BOOLEAN
    <3>1. rw_queue[j] \in P!Command
      BY <1>2, ElementOfSeq
    <3> QED BY <3>1 DEF P!Command
  <2>3. j - 1 \in Nat /\ (j - 1) + 1 = j
    BY <1>2
  <2>4. P!ReadsUpTo(rw_queue, (j - 1) + 1)
          = P!ReadsUpTo(rw_queue, j - 1) + (IF rw_queue[(j - 1) + 1].rd THEN 1 ELSE 0)
    <3>1. rw_queue[(j - 1) + 1].rd \in BOOLEAN
      BY <2>2, <2>3
    <3> QED BY <2>3, <3>1, PathConstants, P!CountNext
  <2>5. rw_queue[j].rd
    BY <1>5 DEF Ent
  <2>6. P!ReadsUpTo(rw_queue, j) = P!ReadsUpTo(rw_queue, j - 1) + 1
    BY <2>3, <2>4, <2>5
  <2>7. P!ReadsUpTo(rw_queue, j - 1) \in Nat
    BY <2>3, PathConstants, P!CountType
  <2>8. Turn(i) < Turn(j)
    BY <1>2, <1>3, <2>1, <2>6, <2>7 DEF Turn
  <2>9. Turn(i) > 0
    BY <1>5 DEF Unanswered
  <2> QED BY <1>2, <1>3, <1>5, <2>8, <2>9 DEF Unanswered, Turn
<1>6. \A i \in 1..Len(rw_queue) : Turn(i) \in Int
  BY <1>2, <1>3 DEF Turn
<1> QED BY <1>2, <1>4, <1>5, <1>6

\* The same in the next state.
LEMMA TurnFactsNext ==
  ASSUME DirectHost, P!Inv'
  PROVE  \A i \in 1..Len(rw_queue)' :
           Turn(i)' \in Int /\ (Unanswered(i)' => Turn(i)' \in 1..Len(in_flight)')
<1>1. /\ P!TypeOK'
      /\ P!ReadsUpTo(rw_queue', Len(rw_queue)')
           = Len(read_data_queue)' + Len(in_flight)'
  BY DEF P!Inv, P!QueuesInStep
<1>2. /\ rw_queue' \in Seq(P!Command) /\ Len(rw_queue)' \in Nat
      /\ Len(in_flight)' \in Nat /\ Len(read_data_queue)' \in Nat
  BY <1>1 DEF P!TypeOK
<1>3. \A i \in 1..Len(rw_queue)' : P!ReadsUpTo(rw_queue', i) \in Nat
  BY <1>2, PathConstants, P!CountType
<1>4. ASSUME NEW i \in 1..Len(rw_queue)', Unanswered(i)'
      PROVE  Turn(i)' \in 1..Len(in_flight)'
  <2>1. P!ReadsUpTo(rw_queue', i) <= P!ReadsUpTo(rw_queue', Len(rw_queue)')
    BY <1>2, PathConstants, P!CountMonotone
  <2> QED BY <1>1, <1>2, <1>3, <1>4, <2>1 DEF Unanswered, Turn
<1>6. \A i \in 1..Len(rw_queue)' : Turn(i)' \in Int
  BY <1>2, <1>3 DEF Turn
<1> QED BY <1>2, <1>4, <1>6

\* The reads under way that still wait for the memory keep their turn.
LEMMA AnswersStep ==
  ASSUME DirectHost, P!Inv, NEW bus \in Bus, ~(bus.rd /\ bus.wr),
         NEW reply \in BOOLEAN, Clock(bus, reply),
         NEW s, NEW held, NEW new, NEW n, NEW r,
         s = Shift(bus), held = Held(bus), new = Command(bus), Moves(s, held, new, n),
         r = IF reply THEN 1 ELSE 0
  PROVE  Answers(s, held, new, n, r)
<1>1. P!Inputs(new, Bypass(bus), Issued(bus))
  BY PathInputs
<1>2. P!Clock(new, Bypass(bus), Issued(bus), reply)
  BY PathClock
<1>3. P!TypeOK /\ P!AgesDecrease /\ P!Inv'
  BY PathInv DEF P!Inv
<1>4. (Bypass(bus) # <<>>) = held
  BY HeldBypass
<1>5. PICK p : p = P!DequeuedData(held)
  OBVIOUS
<1>6. /\ s \in {0, 1} /\ p \in {0, 1}
      /\ s = 1 => Len(rw_queue) > 0 /\ p = (IF rw_queue[1].rd THEN 1 ELSE 0)
      /\ p = 1 => Len(read_data_queue) > 0
      /\ s = 0 => p = 0
      /\ s = 0 /\ ~held /\ Len(rw_queue) > 0 =>
           rw_queue[1].rd /\ Len(read_data_queue) = 0
  <2>1. held \in BOOLEAN
    BY HeldBypass
  <2> QED BY <1>3, <1>5, <2>1, PathConstants, P!DequeueCases DEF Shift
<1>7. n \in Nat /\ Len(rw_queue) = n + s /\ n = Len(rw_queue) - s
  BY <1>6 DEF Moves
<1>8. \A i \in 0..n : P!ReadsUpTo(rw_queue', i) = P!ReadsUpTo(rw_queue, i + s) - p
  BY <1>1, <1>2, <1>3, <1>4, <1>5, <1>7, PathConstants, P!CommandsStep DEF Shift
<1>9. Len(read_data_queue)' = (Len(read_data_queue) - p) + r
  <2>1. r = P!Replied(reply)
    BY DEF P!Replied
  <2> QED BY <1>2, <1>3, <1>4, <1>5, <2>1, PathConstants, P!DataStep
<1>10. /\ Len(in_flight) - r \in Nat
       /\ Len(in_flight)' = Len(in_flight) - r + Len(Issued(bus))
       /\ \A i \in 1..(Len(in_flight) - r) :
            in_flight'[i].age = in_flight[i + r].age + 1
  <2>1. r = P!Replied(reply)
    BY DEF P!Replied
  <2> QED BY <1>1, <1>2, <1>3, <2>1, PathConstants, P!MemoryStep
<1>11. Len(Issued(bus)) = IF new # <<>> /\ new[1].rd THEN 1 ELSE 0
  <2>1. Len(Issued(bus)) = IF Len(new) = 1 /\ new[1].rd THEN 1 ELSE 0
    BY <1>1 DEF P!Inputs
  <2>2. new # <<>> <=> Len(new) = 1
    BY DEF Moves
  <2> QED BY <2>1, <2>2
<1>12. /\ Len(rw_queue) \in Nat /\ Len(in_flight) \in Nat
       /\ \A i \in 1..Len(rw_queue) :
            Turn(i) \in Int /\ (Unanswered(i) => Turn(i) \in 1..Len(in_flight))
       /\ \A i, j \in 1..Len(rw_queue) :
            i < j /\ Unanswered(i) /\ Ent(j).rd => Unanswered(j) /\ Turn(i) < Turn(j)
  BY TurnFacts
<1>13. Len(read_data_queue) \in Nat /\ rw_queue \in Seq(P!Command)
  BY <1>3 DEF P!TypeOK
<1>14. \A i \in Nat : P!ReadsUpTo(rw_queue, i) \in Nat /\ P!ReadsUpTo(rw_queue', i) \in Nat
  BY PathConstants, P!CountType
<1>15. ASSUME NEW i \in 1..n
       PROVE  /\ Turn(i)' = Turn(i + s) - r
              /\ Unanswered(i)' <=> Unanswered(i + s) /\ Turn(i + s) > r
              /\ Unanswered(i)' => (in_flight[Turn(i)].age)' =
                                     in_flight[Turn(i + s)].age + 1
  <2>1. i \in 0..n /\ i + s \in Nat /\ i \in Nat /\ i + s \in 1..Len(rw_queue) /\ i # 0 /\ i + s # 0
    BY <1>6, <1>7
  <2>2. P!ReadsUpTo(rw_queue', i) = P!ReadsUpTo(rw_queue, i + s) - p
    BY <1>8, <2>1
  <2>3. Turn(i)' = Turn(i + s) - r
    <3>1. P!ReadsUpTo(rw_queue, i + s) \in Int /\ p \in Int /\ r \in Int
          /\ Len(read_data_queue) \in Int
      BY <1>6, <1>13, <1>14, <2>1
    <3>2. Turn(i)' = (P!ReadsUpTo(rw_queue, i + s) - p) - ((Len(read_data_queue) - p) + r)
      BY <1>9, <2>2 DEF Turn
    <3>3. Turn(i + s) = P!ReadsUpTo(rw_queue, i + s) - Len(read_data_queue)
      BY DEF Turn
    <3> QED BY <3>1, <3>2, <3>3
  <2>4. Ent(i)' = Ent(i + s)
    <3>1. i + s \in Pos /\ i + s > 0 /\ (i + s) - s = i
      BY <1>6, <1>12, <2>1 DEF Pos
    <3> QED BY <3>1 DEF Moves
  <2>5. Unanswered(i)' <=> Unanswered(i + s) /\ Turn(i + s) > r
    <3>1. Turn(i + s) \in Int
      BY <1>12, <2>1
    <3>2. r \in {0, 1}
      OBVIOUS
    <3> QED BY <2>1, <2>3, <2>4, <3>1, <3>2 DEF Unanswered
  <2>6. ASSUME Unanswered(i)'
        PROVE  (in_flight[Turn(i)].age)' = in_flight[Turn(i + s)].age + 1
    <3>1. Turn(i + s) - r \in 1..(Len(in_flight) - r) /\ (Turn(i + s) - r) + r = Turn(i + s)
      BY <1>12, <2>1, <2>5, <2>6
    <3>2. in_flight'[Turn(i + s) - r].age = in_flight[(Turn(i + s) - r) + r].age + 1
      BY <1>10, <3>1
    <3> QED BY <2>3, <3>1, <3>2
  <2> QED BY <2>3, <2>5, <2>6
<1>16. s = 1 => ~Unanswered(1)
  <2> SUFFICES ASSUME s = 1, Unanswered(1) PROVE FALSE
    OBVIOUS
  <2>1. p = 1 /\ Len(read_data_queue) > 0
    BY <1>6 DEF Unanswered, Ent
  <2>2. P!ReadsUpTo(rw_queue, 1) <= 1
    BY PathConstants, P!CountType
  <2>3. P!ReadsUpTo(rw_queue, 1) \in Nat
    BY <1>14
  <2> QED BY <1>13, <2>1, <2>2, <2>3 DEF Unanswered, Turn
<1>17. s = 0 /\ ~held /\ Len(rw_queue) > 0 => Unanswered(1)
  <2> SUFFICES ASSUME s = 0, ~held, Len(rw_queue) > 0 PROVE Unanswered(1)
    OBVIOUS
  <2>1. rw_queue[1].rd /\ Len(read_data_queue) = 0
    BY <1>6
  <2>2. rw_queue[0 + 1].rd \in BOOLEAN
    <3>1. 1 \in 1..Len(rw_queue)
      BY <1>12
    <3>2. rw_queue[1] \in P!Command
      BY <1>13, <3>1, ElementOfSeq
    <3> QED BY <3>2 DEF P!Command
  <2>3. P!ReadsUpTo(rw_queue, 0 + 1) = P!ReadsUpTo(rw_queue, 0) + 1
    BY <2>1, <2>2, PathConstants, P!CountNext
  <2>4. P!ReadsUpTo(rw_queue, 1) = 1
    BY <2>3, PathConstants, P!CountZero
  <2> QED BY <2>1, <2>4 DEF Unanswered, Turn, Ent
<1>18. ASSUME new # <<>>, new[1].rd
       PROVE  Unanswered(n + 1)' /\ Turn(n + 1)' = Len(in_flight)'
  <2>1. Len(rw_queue)' = n + 1 /\ Ent(n + 1)' = new[1]
    BY <1>18 DEF Moves
  <2>2. P!ReadsUpTo(rw_queue', n + 1) = Len(read_data_queue)' + Len(in_flight)'
    BY <1>3, <2>1 DEF P!Inv, P!QueuesInStep
  <2>3. Len(read_data_queue)' \in Nat
    BY <1>6, <1>9, <1>13
  <2>4. Len(in_flight)' \in Nat /\ Len(in_flight)' > 0
    BY <1>10, <1>11, <1>18
  <2>5. Turn(n + 1)' = Len(in_flight)'
    BY <2>2, <2>3, <2>4 DEF Turn
  <2> QED BY <1>7, <1>18, <2>1, <2>4, <2>5 DEF Unanswered
<1>19. r \in {0, 1} /\ r <= Len(in_flight)
  BY <1>10, <1>12
<1> QED BY <1>10, <1>11, <1>12, <1>15, <1>16, <1>17, <1>18, <1>19 DEF Answers

\* A read keeps the data that it is to get, into the head register.
Keeps(s, held, new, n, d) ==
  /\ \A i \in Pos' : i <= n /\ i + s \in Pos /\ (held \/ i + s > 0) /\ Ent(i + s).rd =>
       DataAt(i)' = DataAt(i + s)
  /\ new # <<>> /\ new[1].rd => DataAt(n + 1)' = d

\* Every read keeps the data it has or is going to get.
LEMMA KeepsStep ==
  ASSUME DirectHost, P!Inv, NEW bus \in Bus, ~(bus.rd /\ bus.wr),
         NEW reply \in BOOLEAN, Clock(bus, reply),
         NEW s, NEW held, NEW new, NEW n,
         s = Shift(bus), held = Held(bus), new = Command(bus), Moves(s, held, new, n)
  PROVE  Keeps(s, held, new, n, bus.data)
<1>1. P!Inputs(new, Bypass(bus), Issued(bus))
  BY PathInputs
<1>2. P!Clock(new, Bypass(bus), Issued(bus), reply)
  BY PathClock
<1>3. P!TypeOK /\ P!AgesDecrease /\ P!Inv' /\ P!QueuesInStep
  BY PathInv DEF P!Inv
<1>4. (Bypass(bus) # <<>>) = held /\ held \in BOOLEAN
  BY HeldBypass
<1>5. PICK p : p = P!DequeuedData(held)
  OBVIOUS
<1>6. /\ s \in {0, 1} /\ p \in {0, 1}
      /\ s = 1 => Len(rw_queue) > 0 /\ p = (IF rw_queue[1].rd THEN 1 ELSE 0)
      /\ p = 1 => Len(read_data_queue) > 0
  BY <1>3, <1>4, <1>5, PathConstants, P!DequeueCases DEF Shift
<1>7. n \in Nat /\ Len(rw_queue) = n + s /\ n = Len(rw_queue) - s
  BY <1>6 DEF Moves
<1>8. \A i \in 0..n : P!ReadsUpTo(rw_queue', i) = P!ReadsUpTo(rw_queue, i + s) - p
  BY <1>1, <1>2, <1>3, <1>4, <1>5, <1>7, PathConstants, P!CommandsStep DEF Shift
<1>9. \A k \in 1..(Len(read_data_queue) + Len(in_flight) - p) :
        P!Replies'[k] = P!Replies[k + p]
  BY <1>1, <1>2, <1>4, <1>5, PathConstants, P!RepliesStep
<1>10. /\ rw_queue \in Seq(P!Command) /\ Len(rw_queue) \in Nat
       /\ read_data_queue \in Seq(Data) /\ Len(read_data_queue) \in Nat
       /\ in_flight \in Seq(P!Flight) /\ Len(in_flight) \in Nat
  BY <1>3 DEF P!TypeOK
<1>11. P!ReadsUpTo(rw_queue, Len(rw_queue)) = Len(read_data_queue) + Len(in_flight)
  BY <1>3 DEF P!QueuesInStep
<1>12. ASSUME NEW i \in 1..n, rw_queue[i + s].rd
       PROVE  P!Replies'[P!ReadsUpTo(rw_queue', i)]
                = P!Replies[P!ReadsUpTo(rw_queue, i + s)]
  <2>1. i + s \in 1..Len(rw_queue) /\ i \in 0..n
    BY <1>6, <1>7
  <2>2. P!ReadsUpTo(rw_queue, i + s) \in 1..P!ReadsUpTo(rw_queue, Len(rw_queue))
    BY <1>10, <1>12, <2>1, PathConstants, P!ReadHasReply
  <2>3. s = 1 /\ rw_queue[1].rd => P!ReadsUpTo(rw_queue, i + s) >= 2
    <3> SUFFICES ASSUME s = 1, rw_queue[1].rd PROVE P!ReadsUpTo(rw_queue, i + 1) >= 2
      OBVIOUS
    <3>1. P!ReadsUpTo(rw_queue, 1) \in 1..P!ReadsUpTo(rw_queue, Len(rw_queue))
      <4>1. 1 \in 1..Len(rw_queue)
        BY <2>1
      <4> QED BY <1>10, <4>1, PathConstants, P!ReadHasReply
    <3>2. P!ReadsUpTo(rw_queue, 1) <= P!ReadsUpTo(rw_queue, i)
      BY <2>1, PathConstants, P!CountMonotone
    <3>3. P!ReadsUpTo(rw_queue, i + 1) = P!ReadsUpTo(rw_queue, i) + 1
      <4>1. rw_queue[i + 1].rd = TRUE
        <5>1. rw_queue[i + 1] \in P!Command
          BY <1>10, <2>1, ElementOfSeq
        <5> QED BY <1>12, <5>1 DEF P!Command
      <4>2. i \in Nat
        BY <1>7
      <4>3. rw_queue[i + 1].rd \in BOOLEAN
        BY <4>1
      <4> QED BY <4>1, <4>2, <4>3, PathConstants, P!CountNext
    <3>4. P!ReadsUpTo(rw_queue, i) \in Nat
      BY PathConstants, P!CountType
    <3> QED BY <1>10, <1>11, <3>1, <3>2, <3>3, <3>4
  <2>4. P!ReadsUpTo(rw_queue, i + s) - p \in 1..(Len(read_data_queue) + Len(in_flight) - p)
    <3>1. p = 1 => s = 1 /\ rw_queue[1].rd
      <4>1. s = 0 => p = 0
        BY <1>3, <1>4, <1>5, PathConstants, P!DequeueCases DEF Shift
      <4> QED BY <1>6, <4>1
    <3> QED BY <1>6, <1>10, <1>11, <2>2, <2>3, <3>1
  <2>5. (P!ReadsUpTo(rw_queue, i + s) - p) + p = P!ReadsUpTo(rw_queue, i + s)
    BY <1>6, <2>2
  <2>6. P!Replies'[P!ReadsUpTo(rw_queue, i + s) - p]
          = P!Replies[(P!ReadsUpTo(rw_queue, i + s) - p) + p]
    BY <1>9, <2>4
  <2> QED BY <1>8, <2>1, <2>5, <2>6
<1>13. ASSUME NEW i \in Pos', i <= n, i + s \in Pos, held \/ i + s > 0, Ent(i + s).rd
       PROVE  DataAt(i)' = DataAt(i + s)
  <2>1. i \in Nat /\ i + s \in Nat /\ i + s \in 0..Len(rw_queue)
    <3>1. Len(rw_queue)' \in Nat /\ Len(rw_queue) \in Nat
      BY <1>3, <1>10 DEF P!Inv, P!TypeOK
    <3>2. i \in 0..Len(rw_queue)'
      BY DEF Pos
    <3>3. i \in Nat
      BY <3>1, <3>2
    <3>4. i + s <= Len(rw_queue)
      BY <1>6, <1>7, <1>13, <3>3
    <3> QED BY <1>6, <3>1, <3>3, <3>4
  <2>2. CASE i > 0
    <3>1. i \in 1..n /\ i + s # 0 /\ i # 0
      BY <1>6, <1>7, <1>13, <2>1, <2>2
    <3>2. rw_queue[i + s].rd
      BY <1>13, <3>1 DEF Ent
    <3>3. P!Replies'[P!ReadsUpTo(rw_queue', i)] = P!Replies[P!ReadsUpTo(rw_queue, i + s)]
      BY <1>12, <3>1, <3>2
    <3> QED BY <3>1, <3>3 DEF DataAt
  <2>3. CASE i = 0 /\ held
    <3>1. s = 0
      BY <2>3 DEF Moves
    <3>2. DRAM_data' = DRAM_data
      BY <1>2, <1>4, <2>3 DEF P!Clock, P!CAS_read_data_QUEUE_rd_en
    <3> QED BY <2>3, <3>1, <3>2 DEF DataAt
  <2>4. CASE i = 0 /\ ~held
    <3>1. s = 1 /\ rw_queue[1].rd
      BY <1>6, <1>13, <2>4 DEF Ent
    <3>2. p = 1 /\ Len(read_data_queue) > 0
      BY <1>6, <3>1
    <3>3. DRAM_data' = Head(read_data_queue)
      BY <1>2, <1>4, <1>5, <3>2 DEF P!Clock, P!DequeuedData
    <3>4. Head(read_data_queue) = read_data_queue[1]
      BY <1>10, <3>2
    <3>5. P!Replies[1] = read_data_queue[1]
      <4>1. 1 \in 1..Len(read_data_queue)
        BY <1>10, <3>2
      <4> QED BY <1>10, <4>1, PathConstants, P!RepliesShape DEF P!Replies
    <3>6. P!ReadsUpTo(rw_queue, 1) = 1
      <4>1. P!ReadsUpTo(rw_queue, 1) \in 1..P!ReadsUpTo(rw_queue, Len(rw_queue))
        <5>1. 1 \in 1..Len(rw_queue)
          BY <1>6, <1>10, <3>1
        <5> QED BY <1>10, <3>1, <5>1, PathConstants, P!ReadHasReply
      <4>2. P!ReadsUpTo(rw_queue, 1) <= 1
        BY PathConstants, P!CountType
      <4> QED BY <4>1, <4>2
    <3> QED BY <2>4, <3>1, <3>3, <3>4, <3>5, <3>6 DEF DataAt
  <2> QED BY <1>4, <2>1, <2>2, <2>3, <2>4
<1>14. ASSUME new # <<>>, new[1].rd
       PROVE  DataAt(n + 1)' = bus.data
  <2>1. Len(rw_queue)' = n + 1
    BY <1>14 DEF Moves
  <2>2. P!ReadsUpTo(rw_queue', n + 1) = Len(read_data_queue)' + Len(in_flight)'
    BY <1>3, <2>1 DEF P!Inv, P!QueuesInStep
  <2>3. Issued(bus) = <<[data |-> bus.data, age |-> 0]>>
    <3>1. bus.rd
      BY <1>14 DEF Command
    <3> QED BY <3>1 DEF Issued
  <2>4. PICK r : r = IF reply THEN 1 ELSE 0
    OBVIOUS
  <2>5. /\ in_flight' \in Seq(P!Flight)
        /\ Len(in_flight) - r \in Nat
        /\ Len(in_flight') = Len(in_flight) - r + 1
        /\ in_flight'[Len(in_flight) - r + 1] = [data |-> bus.data, age |-> 0]
    <3>1. r = P!Replied(reply) /\ Len(Issued(bus)) = 1
      BY <2>3, <2>4 DEF P!Replied
    <3>2. /\ in_flight' \in Seq(P!Flight)
          /\ Len(in_flight) - r \in Nat
          /\ Len(in_flight') = Len(in_flight) - r + Len(Issued(bus))
          /\ Len(Issued(bus)) = 1 =>
               in_flight'[Len(in_flight) - r + 1] = Issued(bus)[1]
      BY <1>1, <1>2, <1>3, <3>1, PathConstants, P!MemoryStep
    <3>3. Issued(bus)[1] = [data |-> bus.data, age |-> 0]
      BY <2>3
    <3> QED BY <3>1, <3>2, <3>3
  <2>6. in_flight'[Len(in_flight')].data = bus.data
    BY <2>5
  <2>7. read_data_queue' \in Seq(Data) /\ Len(read_data_queue') \in Nat
    BY <1>3 DEF P!Inv, P!TypeOK
  <2>8. P!Replies'[Len(read_data_queue') + Len(in_flight')]
          = in_flight'[Len(in_flight')].data
    <3>1. Len(in_flight') \in 1..Len(in_flight')
      BY <2>5
    <3>2. LET R == read_data_queue' \o [i \in 1..Len(in_flight') |-> in_flight'[i].data]
          IN  R[Len(read_data_queue') + Len(in_flight')] = in_flight'[Len(in_flight')].data
      BY <2>5, <2>7, <3>1, PathConstants, P!RepliesShape
    <3> QED BY <3>2 DEF P!Replies
  <2> QED BY <1>7, <2>2, <2>6, <2>8 DEF DataAt
<1> QED BY <1>13, <1>14 DEF Keeps
-----------------------------------------------------------------------------
(***************************************************************************)
(* What a cycle does to the numbered commands, whatever the host does in   *)
(* it.                                                                     *)
(***************************************************************************)
\* A command of the class is presented, or joins the queue.
Leaves(held, c) == ~held /\ 0 \in Members(c)
Joins(new, c) == new # <<>> /\ Class(new[1].tag) = c

\* Positions are numbers.
LEMMA PosNat ==
  ASSUME NEW s, NEW held, NEW new, NEW n, Moves(s, held, new, n)
  PROVE  /\ \A i \in Pos : i \in Nat /\ i <= n + s
         /\ \A i \in Pos' : i \in Nat
<1>1. s \in {0, 1} /\ n \in Nat /\ Len(rw_queue) = n + s
  BY DEF Moves
<1>2. PICK q : q = Len(new) /\ q \in {0, 1} /\ Len(rw_queue)' = n + q
  BY DEF Moves
<1>3. \A i \in Pos : i \in 0..(n + s)
  BY <1>1 DEF Pos
<1>4. \A i \in Pos' : i \in 0..(n + q)
  BY <1>2 DEF Pos
<1> QED BY <1>1, <1>2, <1>3, <1>4

\* A class gains the command that joins and loses the one presented.
LEMMA MembersMove ==
  ASSUME NEW s, NEW held, NEW new, NEW n, Moves(s, held, new, n), NEW c
  PROVE  /\ \A i \in Members(c)' :
              \/ i = n + 1 /\ Joins(new, c) /\ TagAt(i)' = new[1].tag
              \/ /\ i <= n /\ i + s \in Members(c) /\ (held \/ i + s > 0)
                 /\ TagAt(i)' = TagAt(i + s)
         /\ \A j \in Members(c) : held \/ j > 0 =>
              j - s \in Members(c)' /\ j - s <= n /\ TagAt(j - s)' = TagAt(j)
         /\ Joins(new, c) => n + 1 \in Members(c)' /\ TagAt(n + 1)' = new[1].tag
<1>1. ASSUME NEW i \in Members(c)'
      PROVE  \/ i = n + 1 /\ Joins(new, c) /\ TagAt(i)' = new[1].tag
             \/ /\ i <= n /\ i + s \in Members(c) /\ (held \/ i + s > 0)
                /\ TagAt(i)' = TagAt(i + s)
  <2>1. i \in Pos' /\ Class(TagAt(i)') = c
    BY DEF Members
  <2>2. \/ new # <<>> /\ i = n + 1 /\ Ent(i)' = new[1]
        \/ i <= n /\ i + s \in Pos /\ (held \/ i + s > 0) /\ Ent(i)' = Ent(i + s)
    BY <2>1 DEF Moves
  <2> QED BY <2>1, <2>2 DEF Members, TagAt, Joins
<1>2. ASSUME NEW j \in Members(c), held \/ j > 0
      PROVE  j - s \in Members(c)' /\ j - s <= n /\ TagAt(j - s)' = TagAt(j)
  <2>1. j \in Pos /\ Class(TagAt(j)) = c
    BY DEF Members
  <2>2. j - s \in Pos' /\ j - s <= n /\ Ent(j - s)' = Ent(j)
    BY <1>2, <2>1 DEF Moves
  <2> QED BY <2>1, <2>2 DEF Members, TagAt
<1>3. ASSUME Joins(new, c)
      PROVE  n + 1 \in Members(c)' /\ TagAt(n + 1)' = new[1].tag
  <2>1. n + 1 \in Pos' /\ Ent(n + 1)' = new[1]
    BY <1>3 DEF Moves, Joins
  <2> QED BY <1>3, <2>1 DEF Members, TagAt, Joins
<1> QED BY <1>1, <1>2, <1>3

\* The oldest command of a class has the lowest number.
LEMMA FirstOfRun ==
  ASSUME NEW c, NEW lo \in Nat, NEW hi \in Nat, Run(c, lo, hi), 0 \in Members(c),
         \A i \in Pos : i \in Nat
  PROVE  Num(TagAt(0)) = lo + 1 /\ lo < hi
<1>1. Num(TagAt(0)) \in (lo + 1)..hi
  BY DEF Run
<1>2. lo + 1 \in (lo + 1)..hi
  BY <1>1
<1>3. PICK i \in Members(c) : Num(TagAt(i)) = lo + 1
  BY <1>2 DEF Run
<1>4. i \in Nat
  BY DEF Members
<1>5. CASE i = 0
  BY <1>1, <1>3, <1>5
<1>6. CASE 0 < i
  <2>1. Num(TagAt(0)) < lo + 1
    BY <1>3, <1>6 DEF Run
  <2> QED BY <1>1, <2>1
<1> QED BY <1>4, <1>5, <1>6

\* So a run of numbers gains its next number and loses its first.
LEMMA RunStep ==
  ASSUME NEW s, NEW held, NEW new, NEW n, Moves(s, held, new, n), NEW c,
         NEW lo \in Nat, NEW hi \in Nat, Run(c, lo, hi),
         Joins(new, c) => Num(new[1].tag) = hi + 1 /\ lo <= hi,
         NEW lo2, lo2 = lo + IF Leaves(held, c) THEN 1 ELSE 0,
         NEW hi2, hi2 = hi + IF Joins(new, c) THEN 1 ELSE 0
  PROVE  Run(c, lo2, hi2)' /\ (lo <= hi => lo2 <= hi2)
<1>1. /\ \A i \in Pos : i \in Nat /\ i <= n + s
      /\ \A i \in Pos' : i \in Nat
  BY PosNat
<1>2. /\ \A i \in Members(c)' :
           \/ i = n + 1 /\ Joins(new, c) /\ TagAt(i)' = new[1].tag
           \/ /\ i <= n /\ i + s \in Members(c) /\ (held \/ i + s > 0)
              /\ TagAt(i)' = TagAt(i + s)
      /\ \A j \in Members(c) : held \/ j > 0 =>
           j - s \in Members(c)' /\ j - s <= n /\ TagAt(j - s)' = TagAt(j)
      /\ Joins(new, c) => n + 1 \in Members(c)' /\ TagAt(n + 1)' = new[1].tag
  BY MembersMove
<1>3. s \in {0, 1} /\ n \in Nat /\ held \in BOOLEAN
  BY DEF Moves
<1>4. Leaves(held, c) => Num(TagAt(0)) = lo + 1 /\ lo < hi
  BY <1>1, FirstOfRun DEF Leaves
<1>5. /\ lo2 \in {lo, lo + 1} /\ (lo2 = lo + 1 <=> Leaves(held, c))
      /\ hi2 \in {hi, hi + 1} /\ (hi2 = hi + 1 <=> Joins(new, c))
  OBVIOUS
<1>6. ASSUME NEW i \in Members(c)'
      PROVE  Num(TagAt(i)') \in (lo2 + 1)..hi2
  <2>1. CASE i = n + 1 /\ Joins(new, c) /\ TagAt(i)' = new[1].tag
    BY <1>4, <1>5, <2>1
  <2>2. CASE /\ i <= n /\ i + s \in Members(c) /\ (held \/ i + s > 0)
             /\ TagAt(i)' = TagAt(i + s)
    <3>1. Num(TagAt(i + s)) \in (lo + 1)..hi
      BY <2>2 DEF Run
    <3>2. Leaves(held, c) => lo + 1 < Num(TagAt(i + s))
      <4>1. Leaves(held, c) => 0 \in Members(c) /\ 0 < i + s
        BY <2>2 DEF Leaves
      <4>2. Leaves(held, c) => Num(TagAt(0)) < Num(TagAt(i + s))
        BY <2>2, <4>1 DEF Run
      <4> QED BY <1>4, <4>2
    <3> QED BY <1>5, <2>2, <3>1, <3>2
  <2> QED BY <1>2, <2>1, <2>2
<1>7. ASSUME NEW i \in Members(c)', NEW j \in Members(c)', i < j
      PROVE  Num(TagAt(i)') < Num(TagAt(j)')
  <2>0. i \in Nat /\ j \in Nat
    BY <1>1 DEF Members
  <2>1. CASE i = n + 1
    <3>1. j <= n \/ j = n + 1
      BY <1>2
    <3> QED BY <1>3, <1>7, <2>0, <2>1, <3>1
  <2>2. CASE i <= n
    <3>1. /\ i + s \in Members(c) /\ TagAt(i)' = TagAt(i + s)
      <4>1. ~(i = n + 1)
        BY <1>3, <2>0, <2>2
      <4> QED BY <1>2, <4>1
    <3>2. CASE j = n + 1 /\ Joins(new, c) /\ TagAt(j)' = new[1].tag
      <4>1. Num(TagAt(i + s)) \in (lo + 1)..hi
        BY <3>1 DEF Run
      <4> QED BY <3>1, <3>2, <4>1
    <3>3. CASE j + s \in Members(c) /\ TagAt(j)' = TagAt(j + s)
      <4>1. i + s < j + s
        BY <1>3, <1>7, <2>0
      <4>2. Num(TagAt(i + s)) < Num(TagAt(j + s))
        BY <3>1, <3>3, <4>1 DEF Run
      <4> QED BY <3>1, <3>3, <4>2
    <3> QED BY <1>2, <3>2, <3>3
  <2> QED BY <1>2, <2>1, <2>2
<1>8. ASSUME NEW k \in (lo2 + 1)..hi2
      PROVE  \E i \in Members(c)' : Num(TagAt(i)') = k
  <2>1. CASE k = hi + 1
    <3>1. Joins(new, c)
      BY <1>5, <2>1
    <3> QED BY <1>2, <2>1, <3>1
  <2>2. CASE k \in (lo + 1)..hi
    <3>1. PICK j \in Members(c) : Num(TagAt(j)) = k
      BY <2>2 DEF Run
    <3>2. j \in Nat
      BY <1>1 DEF Members
    <3>3. held \/ j > 0
      <4>1. SUFFICES ASSUME ~held, j = 0 PROVE FALSE
        BY <1>3, <3>2
      <4>2. Leaves(held, c)
        BY <4>1 DEF Leaves
      <4> QED BY <1>4, <1>5, <3>1, <4>1, <4>2
    <3>4. j - s \in Members(c)' /\ TagAt(j - s)' = TagAt(j)
      BY <1>2, <3>3
    <3>5. Num(TagAt(j - s)') = k
      BY <3>1, <3>4
    <3> QED BY <3>4, <3>5
  <2>3. k = hi + 1 \/ k \in (lo + 1)..hi
    BY <1>5
  <2> QED BY <2>1, <2>2, <2>3
<1>9. Run(c, lo2, hi2)'
  BY <1>6, <1>7, <1>8 DEF Run
<1> QED BY <1>4, <1>5, <1>9

\* A class with nothing under way is an empty run, from any number on.
LEMMA EmptyRun ==
  ASSUME NEW c, Members(c) = {}, NEW lo \in Nat, NEW hi \in Nat, hi <= lo
  PROVE  Run(c, lo, hi)
  BY DEF Run

-----------------------------------------------------------------------------
(***************************************************************************)
(* Tags, awaited replies and data, and the time that commands take.        *)
(***************************************************************************)
\* Tags travel with their commands.
LEMMA TagsStep ==
  ASSUME NEW s, NEW held, NEW new, NEW n, Moves(s, held, new, n), Tags,
         new # <<>> => Exact(new[1])
  PROVE  Tags'
<1> SUFFICES ASSUME NEW i \in Pos' PROVE Exact(Ent(i)')
  BY DEF Tags, Exact
<1>1. \/ new # <<>> /\ i = n + 1 /\ Ent(i)' = new[1]
      \/ i <= n /\ i + s \in Pos /\ (held \/ i + s > 0) /\ Ent(i)' = Ent(i + s)
  BY DEF Moves
<1> QED BY <1>1 DEF Tags

\* So does the data of the reads.
LEMMA PairedStep ==
  ASSUME NEW s, NEW held, NEW new, NEW n, Moves(s, held, new, n), NEW d,
         Keeps(s, held, new, n, d), Paired,
         new # <<>> /\ new[1].rd => d = DataOf(new[1].tag)
  PROVE  Paired'
<1> SUFFICES ASSUME NEW i \in Pos', Ent(i)'.rd
             PROVE  DataAt(i)' = DataOf(TagAt(i)')
  BY DEF Paired, DataOf
<1>1. CASE new # <<>> /\ i = n + 1 /\ Ent(i)' = new[1]
  <2>1. DataAt(n + 1)' = d
    BY <1>1 DEF Keeps
  <2>2. TagAt(i)' = new[1].tag
    BY <1>1 DEF TagAt
  <2>3. d = DataOf(new[1].tag)
    BY <1>1
  <2>4. i = n + 1
    BY <1>1
  <2>5. DataAt(i)' = d
    BY <2>1, <2>4
  <2> QED BY <2>2, <2>3, <2>5
<1>2. CASE i <= n /\ i + s \in Pos /\ (held \/ i + s > 0) /\ Ent(i)' = Ent(i + s)
  <2>1. DataAt(i)' = DataAt(i + s) /\ TagAt(i)' = TagAt(i + s) /\ Ent(i + s).rd
    BY <1>2 DEF Keeps, TagAt
  <2>2. DataAt(i + s) = DataOf(TagAt(i + s))
    BY <1>2, <2>1 DEF Paired
  <2> QED BY <2>1, <2>2
<1> QED BY <1>1, <1>2 DEF Moves

\* Appending to a sequence.
LEMMA Joined ==
  ASSUME NEW W, NEW rest \in Seq(W), NEW last \in Seq(W)
  PROVE  /\ rest \o last \in Seq(W)
         /\ Len(rest \o last) = Len(rest) + Len(last)
         /\ \A i \in 1..Len(rest) : (rest \o last)[i] = rest[i]
         /\ Len(last) = 1 => (rest \o last)[Len(rest) + 1] = last[1]
<1>1. /\ rest \o last \in Seq(W)
      /\ Len(rest \o last) = Len(rest) + Len(last)
      /\ \A i \in 1..(Len(rest) + Len(last)) :
           (rest \o last)[i] = IF i <= Len(rest) THEN rest[i] ELSE last[i - Len(rest)]
  BY ConcatProperties, Zenon
<1>2. PICK l, m, p : l = Len(rest) /\ m = Len(last) /\ p = rest \o last
  OBVIOUS
<1>3. l \in Nat /\ m \in Nat
  BY <1>2
<1>4. \A i \in 1..(l + m) : p[i] = IF i <= l THEN rest[i] ELSE last[i - l]
  BY <1>1, <1>2, Zenon
<1>5. /\ \A i \in 1..l : p[i] = rest[i]
      /\ m = 1 => p[l + 1] = last[1]
  <2>1. \A i \in 1..l : i \in 1..(l + m) /\ i <= l
    BY <1>3
  <2>2. m = 1 => l + 1 \in 1..(l + m) /\ ~(l + 1 <= l) /\ (l + 1) - l = 1
    BY <1>3
  <2> QED BY <1>4, <2>1, <2>2, Zenon
<1> QED BY <1>1, <1>2, <1>5, Zenon

\* Which reads the host waits for after the cycle.
AwaitingMoves(bus, r) ==
  /\ awaiting' \in Seq([want: Want, k: 0..N])
  /\ Len(awaiting) - r \in Nat
  /\ Len(awaiting') = Len(awaiting) - r + (IF bus.rd THEN 1 ELSE 0)
  /\ \A i \in 1..(Len(awaiting) - r) : awaiting'[i] = awaiting[i + r]
  /\ bus.rd => awaiting'[Len(awaiting) - r + 1] = [want |-> bus.want, k |-> bus.k]

\* The host's list of awaited replies: one less, or one more, or both.
LEMMA AwaitingStep ==
  ASSUME NEW s, NEW held, NEW new, NEW n, Moves(s, held, new, n), NEW r,
         Answers(s, held, new, n, r), Awaited, NEW bus \in Bus, new = Command(bus),
         NEW reply \in BOOLEAN, r = IF reply THEN 1 ELSE 0, awaiting \in Seq([want: Want, k: 0..N]),
         awaiting' = (IF reply THEN Tail(awaiting) ELSE awaiting)
                       \o IF bus.rd THEN <<[want |-> bus.want, k |-> bus.k]>>
                          ELSE <<>>
  PROVE  AwaitingMoves(bus, r)
<1>1. /\ Len(awaiting) = Len(in_flight) /\ Len(awaiting) \in Nat
      /\ \A i \in Pos : Unanswered(i) =>
           awaiting[Turn(i)] = [want |-> TagAt(i).want, k |-> TagAt(i).k]
  BY DEF Awaited
<1>2. /\ r \in {0, 1} /\ r <= Len(awaiting)
      /\ Len(in_flight)' = Len(in_flight) - r + (IF new # <<>> /\ new[1].rd THEN 1 ELSE 0)
  BY <1>1 DEF Answers
<1>3. bus.rd \in BOOLEAN /\ (bus.rd <=> new # <<>> /\ new[1].rd)
  <2>1. bus.rd \in BOOLEAN
    BY DEF Bus
  <2> QED BY <2>1 DEF Command
<1>4. [want |-> bus.want, k |-> bus.k] \in [want: Want, k: 0..N]
  BY DEF Bus
<1>5. reply => awaiting # <<>>
  BY <1>1, <1>2
<1>6. PICK m : m = Len(awaiting) - r
  OBVIOUS
<1>7. /\ awaiting' \in Seq([want: Want, k: 0..N]) /\ m \in Nat
      /\ Len(awaiting') = m + (IF bus.rd THEN 1 ELSE 0)
      /\ \A i \in 1..m : awaiting'[i] = awaiting[i + r]
      /\ bus.rd => awaiting'[m + 1] = [want |-> bus.want, k |-> bus.k]
  <2>1. /\ awaiting' \in Seq([want: Want, k: 0..N]) /\ Len(awaiting) - r \in Nat
        /\ Len(awaiting') = Len(awaiting) - r + (IF bus.rd THEN 1 ELSE 0)
        /\ \A i \in 1..(Len(awaiting) - r) : awaiting'[i] = awaiting[i + r]
        /\ bus.rd => awaiting'[Len(awaiting) - r + 1] = [want |-> bus.want, k |-> bus.k]
    <3>1. PICK x : x = [want |-> bus.want, k |-> bus.k]
      OBVIOUS
    <3>2. PICK W : W = [want: Want, k: 0..N]
      OBVIOUS
    <3>3. PICK c : c = bus.rd
      OBVIOUS
    <3>4. PICK rest, last : /\ rest = (IF reply THEN Tail(awaiting) ELSE awaiting)
                            /\ last = (IF c THEN <<x>> ELSE <<>>)
      OBVIOUS
    <3>5. awaiting \in Seq(W) /\ x \in W /\ c \in BOOLEAN
      BY <1>3, <1>4, <3>1, <3>2, <3>3, Zenon
    <3>7. /\ rest \in Seq(W) /\ Len(rest) = Len(awaiting) - r /\ Len(rest) \in Nat
          /\ \A i \in 1..Len(rest) : rest[i] = awaiting[i + r]
      BY <1>5, <3>4, <3>5
    <3>8. last \in Seq(W) /\ Len(last) = (IF c THEN 1 ELSE 0) /\ (c => last[1] = x)
      BY <3>4, <3>5
    <3>9. awaiting' = rest \o last
      BY <3>1, <3>3, <3>4, Zenon
    <3>10. /\ rest \o last \in Seq(W)
           /\ Len(rest \o last) = Len(rest) + Len(last)
           /\ \A i \in 1..Len(rest) : (rest \o last)[i] = rest[i]
           /\ Len(last) = 1 => (rest \o last)[Len(rest) + 1] = last[1]
      <4>1. rest \in Seq(W) /\ last \in Seq(W)
        BY <3>7, <3>8
      <4> QED BY <4>1, Joined, Zenon
    <3>11. PICK l : l = Len(rest)
      OBVIOUS
    <3>12. c => Len(last) = 1
      BY <3>8
    <3>13. /\ awaiting' \in Seq(W)
           /\ Len(awaiting') = l + (IF c THEN 1 ELSE 0)
           /\ \A i \in 1..l : awaiting'[i] = rest[i]
           /\ c => awaiting'[l + 1] = x
      BY <3>8, <3>9, <3>10, <3>11, <3>12, Zenon
    <3>14. l = Len(awaiting) - r /\ l \in Nat
      BY <3>7, <3>11
    <3>15. \A i \in 1..l : awaiting'[i] = awaiting[i + r]
      BY <3>7, <3>11, <3>13, Zenon
    <3>6. /\ awaiting' \in Seq(W) /\ Len(awaiting) - r \in Nat
          /\ Len(awaiting') = Len(awaiting) - r + (IF c THEN 1 ELSE 0)
          /\ \A i \in 1..(Len(awaiting) - r) : awaiting'[i] = awaiting[i + r]
          /\ c => awaiting'[Len(awaiting) - r + 1] = x
      BY <3>13, <3>14, <3>15, Zenon
    <3> QED BY <3>1, <3>2, <3>3, <3>6, Zenon
  <2> QED BY <1>6, <2>1, Zenon
<1> QED BY <1>6, <1>7 DEF AwaitingMoves

\* It stays the list of what the unanswered reads are waiting for.
LEMMA AwaitedStep ==
  ASSUME NEW s, NEW held, NEW new, NEW n, Moves(s, held, new, n), NEW r,
         Answers(s, held, new, n, r), Awaited, NEW bus \in Bus, new = Command(bus),
         AwaitingMoves(bus, r), awaiting \in Seq([want: Want, k: 0..N])
  PROVE  Awaited'
<1>1. /\ Len(awaiting) = Len(in_flight) /\ Len(awaiting) \in Nat
      /\ \A i \in Pos : Unanswered(i) =>
           awaiting[Turn(i)] = [want |-> TagAt(i).want, k |-> TagAt(i).k]
  BY DEF Awaited
<1>2. /\ r \in {0, 1} /\ r <= Len(awaiting)
      /\ Len(in_flight)' = Len(in_flight) - r + (IF new # <<>> /\ new[1].rd THEN 1 ELSE 0)
  BY <1>1 DEF Answers
<1>3. bus.rd \in BOOLEAN /\ (bus.rd <=> new # <<>> /\ new[1].rd)
  <2>1. bus.rd \in BOOLEAN
    BY DEF Bus
  <2> QED BY <2>1 DEF Command
<1>4. PICK m : m = Len(awaiting) - r
  OBVIOUS
<1>7. /\ m \in Nat
      /\ Len(awaiting') = m + (IF bus.rd THEN 1 ELSE 0)
      /\ \A i \in 1..m : awaiting'[i] = awaiting[i + r]
      /\ bus.rd => awaiting'[m + 1] = [want |-> bus.want, k |-> bus.k]
  BY <1>4 DEF AwaitingMoves
<1>9. Len(awaiting)' = Len(in_flight)'
  BY <1>1, <1>2, <1>3, <1>4, <1>7
<1>10. ASSUME NEW i \in Pos', Unanswered(i)'
       PROVE  awaiting'[Turn(i)'] = [want |-> TagAt(i)'.want, k |-> TagAt(i)'.k]
  <2>1. CASE new # <<>> /\ i = n + 1 /\ Ent(i)' = new[1]
    <3>1. new[1].rd
      BY <1>10, <2>1 DEF Unanswered
    <3>2. Turn(n + 1)' = Len(in_flight)'
      BY <2>1, <3>1 DEF Answers
    <3>3. Len(in_flight)' = m + 1
      BY <1>1, <1>2, <1>4, <2>1, <3>1
    <3>4. bus.rd
      BY <1>3, <2>1, <3>1
    <3>5. TagAt(i)' = TagOf(bus)
      BY <2>1, <3>4 DEF TagAt, Command
    <3>6. Turn(i)' = m + 1
      BY <2>1, <3>2, <3>3
    <3>7. awaiting'[Turn(i)'] = [want |-> bus.want, k |-> bus.k]
      BY <1>7, <3>4, <3>6
    <3>8. TagOf(bus).want = bus.want /\ TagOf(bus).k = bus.k
      BY DEF TagOf
    <3> QED BY <3>5, <3>7, <3>8
  <2>2. CASE i <= n /\ i + s \in Pos /\ (held \/ i + s > 0) /\ Ent(i)' = Ent(i + s)
    <3>1. i \in 1..n /\ i + s \in 1..Len(rw_queue) /\ i + s > 0
      <4>1. i > 0
        BY <1>10 DEF Unanswered
      <4>2. i \in Nat /\ s \in {0, 1} /\ n \in Nat /\ Len(rw_queue) = n + s
        BY PosNat DEF Moves
      <4> QED BY <2>2, <4>1, <4>2
    <3>2. /\ Turn(i)' = Turn(i + s) - r /\ Turn(i + s) > r
          /\ Unanswered(i + s)
      BY <1>10, <3>1 DEF Answers
    <3>3. Turn(i + s) \in 1..Len(in_flight)
      BY <3>1, <3>2 DEF Answers
    <3>4. awaiting[Turn(i + s)] = [want |-> TagAt(i + s).want, k |-> TagAt(i + s).k]
      BY <1>1, <2>2, <3>2
    <3>5. TagAt(i)' = TagAt(i + s)
      BY <2>2 DEF TagAt
    <3>6. Turn(i + s) - r \in 1..m /\ (Turn(i + s) - r) + r = Turn(i + s)
      BY <1>1, <1>2, <1>4, <3>2, <3>3
    <3>7. awaiting'[Turn(i + s) - r] = awaiting[(Turn(i + s) - r) + r]
      BY <1>7, <3>6
    <3> QED BY <3>2, <3>4, <3>5, <3>6, <3>7
  <2> QED BY <2>1, <2>2 DEF Moves
<1> QED BY <1>9, <1>10 DEF Awaited

-----------------------------------------------------------------------------
\* Where an old command was.
LEMMA OldPosition ==
  ASSUME NEW s, NEW held, NEW new, NEW n, Moves(s, held, new, n),
         NEW i \in Pos', i <= n
  PROVE  /\ i \in Nat /\ s \in {0, 1} /\ n \in Nat /\ Len(rw_queue) = n + s
         /\ i + s \in Pos /\ (held \/ i + s > 0) /\ Ent(i)' = Ent(i + s)
         /\ TagAt(i)' = TagAt(i + s)
         /\ i > 0 => i \in 1..n /\ i + s \in 1..Len(rw_queue)
<1>1. i \in Nat /\ s \in {0, 1} /\ n \in Nat /\ Len(rw_queue) = n + s
  BY PosNat DEF Moves
<1>2. i + s \in Pos /\ (held \/ i + s > 0) /\ Ent(i)' = Ent(i + s)
  <2>1. ~(i = n + 1)
    BY <1>1
  <2> QED BY <2>1 DEF Moves
<1>3. i > 0 => i \in 1..n /\ i + s \in 1..Len(rw_queue)
  BY <1>1
<1> QED BY <1>1, <1>2, <1>3 DEF TagAt

\* The queue stands still only behind a read that is not answered.
LEMMA Flows ==
  ASSUME NEW s, NEW held, NEW new, NEW n, Moves(s, held, new, n), NEW r,
         Answers(s, held, new, n, r), ~held, NEW i \in Pos', i <= n
  PROVE  s = 1 \/ (s = 0 /\ Unanswered(1) /\ i > 0)
<1>1. /\ i \in Nat /\ s \in {0, 1} /\ n \in Nat /\ Len(rw_queue) = n + s
      /\ i + s > 0
  BY OldPosition
<1>2. s = 0 => Len(rw_queue) > 0
  BY <1>1
<1> QED BY <1>1, <1>2 DEF Answers

\* Time passes, and starts anew after a result write.
Waits(held) ==
  /\ idle \in Nat /\ (idle' = 0 \/ idle' = idle \/ idle' = idle + 1)
  /\ held => idle' = 0

\* A write that the host waits for is new only when it starts to wait.
NoneJoins(s, n) == idle' # 0 => \A i \in Pending' : i <= n /\ i + s \in Pending

\* A control write comes one position nearer with each idle cycle.
LEMMA PendingStep ==
  ASSUME DirectHost, P!Inv, P!Inv', NEW s, NEW held, NEW new, NEW n,
         Moves(s, held, new, n), NEW r, Answers(s, held, new, n, r), PendingTimed, Waits(held),
         NoneJoins(s, n)
  PROVE  PendingTimed'
<1>0. LATENCY \in Nat
  BY DEF DirectHost
<1>1. ASSUME idle' = 0, NEW i \in Pending'
      PROVE  /\ idle' + i <= LATENCY + 1
             /\ \A j \in 1..(i - 1) :
                  Unanswered(j)' => idle' + i - j <= in_flight'[Turn(j)'].age
  <2>1. /\ Len(rw_queue)' \in Nat /\ Len(rw_queue)' <= LATENCY + 1
        /\ in_flight' \in Seq(P!Flight)
    BY DEF P!Inv, P!TypeOK, P!OccupancyBounded
  <2>2. i \in 0..Len(rw_queue)'
    BY DEF Pending, Pos
  <2>3. ASSUME NEW j \in 1..(i - 1), Unanswered(j)'
        PROVE  idle' + i - j <= in_flight'[Turn(j)'].age
    <3>1. j \in 1..Len(rw_queue)' /\ j # 0
      BY <2>1, <2>2
    <3>2. rw_queue'[j].rd /\ Turn(j)' > 0
      BY <2>3, <3>1 DEF Unanswered, Ent
    <3>3. P!ReadsUpTo(rw_queue', j) > Len(read_data_queue)'
      <4>1. P!ReadsUpTo(rw_queue', j) \in Nat
        <5>1. j \in Nat
          BY <3>1
        <5> QED BY <5>1, PathConstants, P!CountType
      <4>2. Len(read_data_queue)' \in Nat
        BY DEF P!Inv, P!TypeOK
      <4> QED BY <3>2, <4>1, <4>2 DEF Turn
    <3>4. Len(rw_queue)' - j <= in_flight'[P!ReadsUpTo(rw_queue', j) - Len(read_data_queue)'].age
      <4>1. P!BacklogYoungerThanRead'
        BY DEF P!Inv
      <4> QED BY <3>1, <3>2, <3>3, <4>1 DEF P!BacklogYoungerThanRead
    <3>5. Len(rw_queue)' - j <= in_flight'[Turn(j)'].age
      BY <3>4 DEF Turn
    <3>6. in_flight'[Turn(j)'].age \in Nat
      <4>1. P!TypeOK' /\ (Turn(j)' \in 1..Len(in_flight)')
        BY <2>3, <3>1, TurnFactsNext DEF P!Inv
      <4>2. in_flight'[Turn(j)'] \in P!Flight
        BY <2>1, <4>1, ElementOfSeq
      <4> QED BY <1>0, <4>2 DEF P!Flight
    <3> QED BY <1>1, <2>1, <2>2, <2>3, <3>5, <3>6
  <2> QED BY <1>0, <1>1, <2>1, <2>2, <2>3
<1>2. ASSUME idle' # 0, NEW i \in Pending'
      PROVE  /\ idle' + i <= LATENCY + 1
             /\ \A j \in 1..(i - 1) :
                  Unanswered(j)' => idle' + i - j <= in_flight'[Turn(j)'].age
  <2>1. i \in Pos' /\ i <= n /\ i + s \in Pending /\ ~held
    BY <1>2 DEF Pending, Waits, NoneJoins
  <2>2. /\ i \in Nat /\ s \in {0, 1} /\ n \in Nat /\ Len(rw_queue) = n + s
        /\ i > 0 => i \in 1..n /\ i + s \in 1..Len(rw_queue)
    BY <2>1, OldPosition
  <2>20. i \in Nat
    BY <2>2
  <2>3. /\ idle + (i + s) <= LATENCY + 1
        /\ \A j \in 1..((i + s) - 1) :
             Unanswered(j) => idle + (i + s) - j <= in_flight[Turn(j)].age
    BY <2>1 DEF PendingTimed
  <2>4. s = 1 \/ (s = 0 /\ Unanswered(1) /\ i > 0)
    BY <2>1, Flows
  <2>5. \A j \in 1..Len(rw_queue) : Unanswered(j) =>
          in_flight[Turn(j)].age \in 0..(LATENCY - 1)
    <3>1. \A j \in 1..Len(rw_queue) : Unanswered(j) => Turn(j) \in 1..Len(in_flight)
      BY TurnFacts
    <3>2. in_flight \in Seq(P!Flight)
      BY DEF P!Inv, P!TypeOK
    <3>3. \A m \in 1..Len(in_flight) : in_flight[m] \in P!Flight
      BY <3>2, ElementOfSeq
    <3> QED BY <3>1, <3>3 DEF P!Flight
  <2>6. idle' + i <= LATENCY + 1
    <3>1. CASE s = 1
      <4>1. idle + (i + 1) <= LATENCY + 1
        BY <2>3, <3>1
      <4>2. idle \in Nat /\ (idle' = 0 \/ idle' = idle \/ idle' = idle + 1)
        BY DEF Waits
      <4> QED BY <1>0, <2>20, <4>1, <4>2
    <3>2. CASE s = 0 /\ Unanswered(1) /\ i > 0
      <4>1. i # 1
        <5>1. ~Ent(i).rd
          BY <2>1, <2>2, <3>2 DEF Pending
        <5> QED BY <3>2, <5>1 DEF Unanswered
      <4>2. 1 \in 1..((i + s) - 1) /\ 1 \in 1..Len(rw_queue)
        BY <2>2, <3>2, <4>1
      <4>3. idle + (i + s) - 1 <= in_flight[Turn(1)].age
        BY <2>3, <3>2, <4>2
      <4>4. in_flight[Turn(1)].age \in 0..(LATENCY - 1)
        BY <2>5, <3>2, <4>2
      <4>5. PICK a : a = in_flight[Turn(1)].age
        OBVIOUS
      <4>6. idle + (i + 0) - 1 <= a /\ a \in 0..(LATENCY - 1)
        BY <3>2, <4>3, <4>4, <4>5
      <4>7. idle \in Nat /\ (idle' = 0 \/ idle' = idle \/ idle' = idle + 1)
        BY DEF Waits
      <4> QED BY <1>0, <2>20, <4>6, <4>7
    <3> QED BY <2>4, <3>1, <3>2
  <2>7. ASSUME NEW j \in 1..(i - 1), Unanswered(j)'
        PROVE  idle' + i - j <= in_flight'[Turn(j)'].age
    <3>1. j \in 1..n /\ j + s \in 1..((i + s) - 1) /\ j + s \in 1..Len(rw_queue)
      BY <2>1, <2>2
    <3>2. /\ Unanswered(j + s)
          /\ (in_flight[Turn(j)].age)' = in_flight[Turn(j + s)].age + 1
      BY <2>7, <3>1 DEF Answers
    <3>3. idle + (i + s) - (j + s) <= in_flight[Turn(j + s)].age
      BY <2>3, <3>1, <3>2
    <3>4. in_flight[Turn(j + s)].age \in 0..(LATENCY - 1)
      BY <2>5, <3>1, <3>2
    <3>5. PICK a : a = in_flight[Turn(j + s)].age
      OBVIOUS
    <3>6. /\ i \in Nat /\ j \in Int /\ s \in Int
          /\ idle + (i + s) - (j + s) <= a /\ a \in Int
      BY <2>2, <3>1, <3>3, <3>4, <3>5
    <3>7. idle \in Nat /\ (idle' = 0 \/ idle' = idle \/ idle' = idle + 1)
      BY DEF Waits
    <3>8. idle' + i - j <= a + 1
      BY <3>6, <3>7
    <3> QED BY <3>2, <3>5, <3>8
  <2> QED BY <2>6, <2>7
<1> QED BY <1>1, <1>2 DEF PendingTimed

\* An answer that the host waits for is noticed.
Heard(r) == r = 1 /\ Matters(awaiting[1]) => idle' = 0

\* What the members of a class are.
LEMMA MemberTags ==
  ASSUME Tags
  PROVE  /\ \A i \in Members("beat") : i \in Pos /\ Ent(i).rd /\ TagAt(i).want \in Operand
         /\ \A i \in Members("descriptor") :
              i \in Pos /\ Ent(i).rd /\ TagAt(i).want = "descriptor"
         /\ \A i \in Members("status") :
              i \in Pos /\ ~Ent(i).rd /\ TagAt(i).want = "status"
<1>1. \A i \in Pos : Exact(Ent(i))
  BY DEF Tags
<1>2. ASSUME NEW c, NEW i \in Members(c)
      PROVE  i \in Pos /\ Class(TagAt(i)) = c /\ TagAt(i).want \in Want /\ Exact(Ent(i))
  BY <1>1, <1>2 DEF Members, Exact, TagAt
<1>3. \A i \in Members("beat") : TagAt(i).want \in Operand
  BY <1>2 DEF Class, Operand, Want
<1>4. \A i \in Members("descriptor") : TagAt(i).want = "descriptor"
  BY <1>2 DEF Class, Operand, Want
<1>5. \A i \in Members("status") : TagAt(i).want = "status"
  BY <1>2 DEF Class, Operand, Want
<1> QED BY <1>2, <1>3, <1>4, <1>5 DEF Exact, TagAt, Operand

\* The read that was answered in this cycle.
LEMMA JustAnswered ==
  ASSUME DirectHost, P!Inv, NEW s, NEW held, NEW new, NEW n,
         Moves(s, held, new, n), NEW r, Answers(s, held, new, n, r), Awaited,
         NEW i \in Pos', i <= n, i > 0, ~Unanswered(i)', ~held, Ent(i + s).rd
  PROVE  \/ s = 1 /\ ~Unanswered(i + s)
         \/ /\ r = 1 /\ (s = 1 \/ i = 1)
            /\ awaiting[1] = [want |-> TagAt(i + s).want, k |-> TagAt(i + s).k]
<1>1. /\ i \in Nat /\ s \in {0, 1} /\ n \in Nat /\ Len(rw_queue) = n + s
      /\ i + s \in Pos /\ i \in 1..n /\ i + s \in 1..Len(rw_queue)
  BY OldPosition
<1>2. s = 1 \/ (s = 0 /\ Unanswered(1))
  BY Flows
<1>3. s = 0 /\ i > 1 => Unanswered(i + s) /\ Turn(1) < Turn(i + s)
  <2> SUFFICES ASSUME s = 0, i > 1 PROVE Unanswered(i) /\ Turn(1) < Turn(i)
    BY <1>1
  <2>1. 1 \in 1..Len(rw_queue) /\ i \in 1..Len(rw_queue) /\ 1 < i /\ Unanswered(1) /\ Ent(i).rd
    BY <1>1, <1>2
  <2> QED BY <2>1 DEF Answers
<1>4. Unanswered(i)' <=> Unanswered(i + s) /\ Turn(i + s) > r
  BY <1>1 DEF Answers
<1>5. CASE ~Unanswered(i + s)
  <2>1. s # 0
    <3>1. s = 0 => i = 1
      BY <1>1, <1>3, <1>5
    <3> QED BY <1>2, <1>5, <3>1
  <2> QED BY <1>1, <1>5, <2>1
<1>6. CASE Unanswered(i + s)
  <2>1. Turn(i + s) \in 1..Len(in_flight) /\ r \in {0, 1}
    BY <1>1, <1>6 DEF Answers
  <2>2. ~(Turn(i + s) > r)
    BY <1>4, <1>6
  <2>3. r = 1 /\ Turn(i + s) = 1
    BY <2>1, <2>2
  <2>4. awaiting[1] = [want |-> TagAt(i + s).want, k |-> TagAt(i + s).k]
    BY <1>1, <1>6, <2>3 DEF Awaited
  <2>5. s = 1 \/ i = 1
    <3> SUFFICES ASSUME s = 0, i > 1 PROVE FALSE
      BY <1>1
    <3>1. Turn(1) < 1
      BY <1>3, <2>3
    <3>2. 1 \in 1..Len(rw_queue) /\ Unanswered(1)
      BY <1>1, <1>2
    <3>3. Turn(1) \in 1..Len(in_flight)
      BY <3>2 DEF Answers
    <3> QED BY <3>1, <3>3
  <2> QED BY <2>3, <2>4, <2>5
<1> QED BY <1>5, <1>6

\* So does an answered beat of an operand.
LEMMA BeatsStep ==
  ASSUME DirectHost, P!Inv, NEW s, NEW held, NEW new, NEW n,
         Moves(s, held, new, n), NEW r, Answers(s, held, new, n, r), BeatsTimed,
         Awaited, Waits(held), Heard(r), Tags, BeatsCurrent,
         held => Members("beat") = {}, Joins(new, "beat") => new[1].rd
  PROVE  BeatsTimed'
<1> SUFFICES ASSUME NEW i \in Members("beat")', ~Unanswered(i)'
             PROVE  idle' + i <= LATENCY
  BY DEF BeatsTimed
<1>0. LATENCY \in Nat /\ LATENCY > 0
  BY DEF DirectHost
<1>1. i \in Pos'
  BY DEF Members
<1>2. CASE i = n + 1 /\ Joins(new, "beat")
  BY <1>2 DEF Answers, Joins
<1>3. CASE i <= n /\ i + s \in Members("beat")
  <2>1. /\ i \in Nat /\ s \in {0, 1} /\ n \in Nat /\ Len(rw_queue) = n + s
        /\ i + s \in Pos /\ (i > 0 => i + s \in 1..Len(rw_queue))
    BY <1>1, <1>3, OldPosition
  <2>2. ~held /\ idle \in Nat /\ (idle' = 0 \/ idle' = idle \/ idle' = idle + 1)
    BY <1>3 DEF Waits
  <2>3. s = 1 \/ (s = 0 /\ Unanswered(1) /\ i > 0)
    BY <1>1, <1>3, <2>2, Flows
  <2>4. ~Unanswered(i + s) => idle + (i + s) <= LATENCY
    BY <1>3 DEF BeatsTimed
  <2>5. CASE i = 0
    <3>1. s = 1 /\ ~Unanswered(1)
      BY <2>1, <2>3, <2>5 DEF Answers
    <3>2. idle + 1 <= LATENCY
      BY <2>4, <2>5, <3>1
    <3> QED BY <1>0, <2>2, <2>5, <3>2
  <2>6. CASE i > 0
    <3>1. Ent(i + s).rd /\ TagAt(i + s).want \in Operand /\ cur > 0 /\ TagAt(i + s).k = cur
      BY <1>3, MemberTags DEF BeatsCurrent
    <3>2. CASE s = 1 /\ ~Unanswered(i + s)
      <4>1. idle + (i + 1) <= LATENCY
        BY <2>4, <3>2
      <4> QED BY <1>0, <2>1, <2>2, <4>1
    <3>3. CASE /\ r = 1 /\ (s = 1 \/ i = 1)
               /\ awaiting[1] = [want |-> TagAt(i + s).want, k |-> TagAt(i + s).k]
      <4>1. awaiting[1] \in BeatOf(cur)
        BY <3>1, <3>3 DEF BeatOf, Operand
      <4>2. idle' = 0
        BY <3>3, <4>1 DEF Heard, Matters
      <4>3. Len(rw_queue) <= LATENCY + 1
        BY DEF P!Inv, P!OccupancyBounded
      <4>4. i <= LATENCY
        BY <1>0, <2>1, <2>6, <3>3, <4>3
      <4> QED BY <1>0, <2>1, <4>2, <4>4
    <3> QED BY <1>1, <1>3, <2>2, <2>6, <3>1, <3>2, <3>3, JustAnswered
  <2> QED BY <2>1, <2>5, <2>6
<1> QED BY <1>2, <1>3, MembersMove

\* A read that matters stays awaited until its answer is noticed.
LEMMA StaysAwaited ==
  ASSUME NEW bus \in Bus, NEW r \in {0, 1}, AwaitingMoves(bus, r), Heard(r), idle' # 0,
         Len(awaiting) \in Nat, cur' = cur, Awaits(BeatOf(cur))
  PROVE  Awaits(BeatOf(cur))'
<1>1. PICK m \in 1..Len(awaiting) : awaiting[m] \in BeatOf(cur)
  BY DEF Awaits
<1>2. m > r
  <2>1. r = 1 /\ m = 1 => FALSE
    BY <1>1 DEF Heard, Matters
  <2> QED BY <1>1, <2>1
<1>3. PICK l : l = Len(awaiting) - r
  OBVIOUS
<1>4. l \in Nat /\ Len(awaiting') = l + (IF bus.rd THEN 1 ELSE 0)
      /\ \A j \in 1..l : awaiting'[j] = awaiting[j + r]
  BY <1>3 DEF AwaitingMoves
<1>5. m - r \in 1..l /\ (m - r) + r = m
  BY <1>2, <1>3
<1>6. awaiting'[m - r] \in BeatOf(cur)
  BY <1>1, <1>4, <1>5
<1>7. m - r \in 1..Len(awaiting')
  BY <1>4, <1>5
<1>8. BeatOf(cur)' = BeatOf(cur)
  BY DEF BeatOf
<1> QED BY <1>6, <1>7, <1>8 DEF Awaits

\* And so does an answered descriptor that the next operand needs.
LEMMA DescriptorsStep ==
  ASSUME DirectHost, P!Inv, P!Inv', NEW s, NEW held, NEW new, NEW n,
         Moves(s, held, new, n), NEW r, Answers(s, held, new, n, r), DescriptorsTimed,
         Awaited, Waits(held), Heard(r), Tags, NEW bus \in Bus, AwaitingMoves(bus, r),
         Len(awaiting) \in Nat, Joins(new, "descriptor") => new[1].rd,
         cur' # cur => idle' = 0 \/ (cur' > 0 /\ Awaits(BeatOf(cur))')
  PROVE  DescriptorsTimed'
<1> SUFFICES ASSUME NEW i \in Members("descriptor")', ~Unanswered(i)',
                    TagAt(i)'.k = cur' + 1,
                    ~(cur' > 0 /\ Awaits(BeatOf(cur))')
             PROVE  idle' + i <= LATENCY + 1
  BY DEF DescriptorsTimed
<1>0. LATENCY \in Nat
  BY DEF DirectHost
<1>1. i \in Pos'
  BY DEF Members
<1>2. CASE idle' = 0
  <2>1. Len(rw_queue)' \in Nat /\ Len(rw_queue)' <= LATENCY + 1
    BY DEF P!Inv, P!TypeOK, P!OccupancyBounded
  <2>2. i \in 0..Len(rw_queue)'
    BY <1>1 DEF Pos
  <2> QED BY <1>0, <1>2, <2>1, <2>2
<1>3. CASE i = n + 1 /\ Joins(new, "descriptor")
  BY <1>3 DEF Answers, Joins
<1>4. CASE idle' # 0 /\ i <= n /\ i + s \in Members("descriptor") /\ TagAt(i)' = TagAt(i + s)
  <2>1. /\ i \in Nat /\ s \in {0, 1} /\ n \in Nat /\ Len(rw_queue) = n + s
        /\ i + s \in Pos /\ (i > 0 => i + s \in 1..Len(rw_queue))
    BY <1>1, <1>4, OldPosition
  <2>2. ~held /\ idle \in Nat /\ (idle' = idle \/ idle' = idle + 1)
    BY <1>4 DEF Waits
  <2>3. s = 1 \/ (s = 0 /\ Unanswered(1) /\ i > 0)
    BY <1>1, <1>4, <2>2, Flows
  <2>4. cur' = cur
    BY <1>4
  <2>5. ~(cur > 0 /\ Awaits(BeatOf(cur)))
    <3>1. r \in {0, 1}
      BY DEF Answers
    <3> QED BY <1>4, <2>4, <3>1, StaysAwaited
  <2>6. ~Unanswered(i + s) => idle + (i + s) <= LATENCY + 1
    <3>1. TagAt(i + s).k = cur + 1
      BY <1>4, <2>4
    <3> QED BY <1>4, <2>5, <3>1 DEF DescriptorsTimed
  <2>7. CASE s = 1 /\ ~Unanswered(i + s)
    <3>1. idle + (i + 1) <= LATENCY + 1
      BY <2>6, <2>7
    <3> QED BY <1>0, <2>1, <2>2, <3>1
  <2>8. CASE i = 0
    <3>1. s = 1 /\ i + s = 1 /\ ~Unanswered(1)
      BY <2>1, <2>3, <2>8 DEF Answers
    <3> QED BY <2>7, <3>1
  <2>9. CASE i > 0
    <3>1. Ent(i + s).rd /\ TagAt(i + s).want = "descriptor"
      BY <1>4, MemberTags
    <3>2. ~(/\ r = 1
            /\ awaiting[1] = [want |-> TagAt(i + s).want, k |-> TagAt(i + s).k])
      <4> SUFFICES ASSUME r = 1,
                          awaiting[1] = [want |-> TagAt(i + s).want, k |-> TagAt(i + s).k]
                   PROVE  FALSE
        OBVIOUS
      <4>1. awaiting[1] \in DescOf(cur + 1)
        BY <1>4, <2>4, <3>1 DEF DescOf
      <4> QED BY <1>4, <4>1 DEF Heard, Matters
    <3>3. s = 1 /\ ~Unanswered(i + s)
      BY <1>1, <1>4, <2>2, <2>9, <3>1, <3>2, JustAnswered
    <3> QED BY <2>7, <3>3
  <2> QED BY <2>1, <2>8, <2>9
<1> QED BY <1>2, <1>3, <1>4, MembersMove

-----------------------------------------------------------------------------
\* What joins the queue does not upset its order.
JoinsInOrder(new) ==
  /\ Joins(new, "status") => \A i \in Members("descriptor") :
       ~(new[1].tag.k <= TagAt(i).k - SLOTS)
  /\ Joins(new, "beat") => \A j \in Members("status") : TagAt(j).k # cur'
  /\ cur' # cur => Members("beat") = {}

\* A queue is first in, first out.
LEMMA OrderStep ==
  ASSUME NEW s, NEW held, NEW new, NEW n, Moves(s, held, new, n), Order,
         JoinsInOrder(new)
  PROVE  Order'
<1>1. ASSUME NEW c, NEW i \in Members(c)'
      PROVE  /\ i \in Nat /\ n \in Nat /\ s \in {0, 1}
             /\ \/ i = n + 1 /\ Joins(new, c) /\ TagAt(i)' = new[1].tag
                \/ i <= n /\ i + s \in Members(c) /\ TagAt(i)' = TagAt(i + s)
  <2>1. i \in Pos'
    BY DEF Members
  <2>2. i \in Nat
    BY <2>1, PosNat
  <2>3. n \in Nat /\ s \in {0, 1}
    BY DEF Moves
  <2>4. \/ i = n + 1 /\ Joins(new, c) /\ TagAt(i)' = new[1].tag
        \/ i <= n /\ i + s \in Members(c) /\ TagAt(i)' = TagAt(i + s)
    BY MembersMove
  <2> QED BY <2>2, <2>3, <2>4
<1>2. ASSUME NEW i \in Members("descriptor")', NEW j \in Members("status")',
             TagAt(j)'.k <= TagAt(i)'.k - SLOTS
      PROVE  j < i
  <2>1. CASE i = n + 1 /\ Joins(new, "descriptor")
    <3>1. j <= n
      <4>1. ~Joins(new, "status")
        BY <2>1 DEF Joins
      <4> QED BY <1>1, <4>1
    <3> QED BY <1>1, <2>1, <3>1
  <2>2. CASE i <= n /\ i + s \in Members("descriptor") /\ TagAt(i)' = TagAt(i + s)
    <3>1. CASE j = n + 1 /\ Joins(new, "status") /\ TagAt(j)' = new[1].tag
      BY <1>2, <2>2, <3>1 DEF JoinsInOrder
    <3>2. CASE j <= n /\ j + s \in Members("status") /\ TagAt(j)' = TagAt(j + s)
      <4>1. j + s < i + s
        BY <1>2, <2>2, <3>2 DEF Order
      <4>2. i \in Nat /\ j \in Nat /\ s \in {0, 1}
        BY <1>1
      <4> QED BY <4>1, <4>2
    <3> QED BY <1>1, <3>1, <3>2
  <2> QED BY <1>1, <2>1, <2>2
<1>3. ASSUME NEW i \in Members("beat")', NEW j \in Members("status")', TagAt(j)'.k = cur'
      PROVE  i < j
  <2>1. CASE i = n + 1 /\ Joins(new, "beat")
    <3>1. /\ ~Joins(new, "status")
          /\ \A m \in Members("status") : TagAt(m).k # cur'
      BY <2>1 DEF Joins, JoinsInOrder
    <3> QED BY <1>1, <1>3, <3>1
  <2>2. CASE i <= n /\ i + s \in Members("beat") /\ TagAt(i)' = TagAt(i + s)
    <3>1. CASE j = n + 1
      BY <1>1, <2>2, <3>1
    <3>2. CASE j <= n /\ j + s \in Members("status") /\ TagAt(j)' = TagAt(j + s)
      <4>0. cur' = cur
        BY <2>2 DEF JoinsInOrder
      <4>1. i + s < j + s
        BY <1>3, <2>2, <3>2, <4>0 DEF Order
      <4>2. i \in Nat /\ j \in Nat /\ s \in {0, 1}
        BY <1>1
      <4> QED BY <4>1, <4>2
    <3> QED BY <1>1, <3>1, <3>2
  <2> QED BY <1>1, <2>1, <2>2
<1> QED BY <1>2, <1>3 DEF Order

-----------------------------------------------------------------------------
(***************************************************************************)
(* What the registers of the device see: a result write if there is one,   *)
(* or else the command in the head register.                               *)
(***************************************************************************)
Request(bus) == Path!Presented(Bypass(bus))
\* A write to the address is presented; the types that pass.
Written(held, a) == ~held /\ 0 \in Writing(a)
Passes(held) == IF held THEN {"C"}
                ELSE IF Leaves(held, "beat") THEN {TagAt(0).want} ELSE {}

\* What is presented in a cycle: the result write on the bus or the head.
LEMMA RequestSeen ==
  ASSUME P!Inv, NEW bus, NEW held, held = Held(bus)
  PROVE  /\ held => Request(bus) =
              <<[rd |-> FALSE, tag |-> ResultTag(bus), data |-> "none"]>>
         /\ ~held /\ 0 \in Pos => Request(bus) =
              <<[rd |-> Ent(0).rd, tag |-> TagAt(0),
                 data |-> IF Ent(0).rd THEN DataAt(0) ELSE "none"]>>
         /\ ~held /\ 0 \notin Pos => Request(bus) = <<>>
<1>1. held => Bypass(bus) = <<[rd |-> FALSE, tag |-> ResultTag(bus), data |-> "none"]>>
  BY DEF Held, Bypass
<1>2. ~held => Bypass(bus) = <<>>
  BY DEF Held, Bypass
<1>3. Request(bus) = IF Bypass(bus) # <<>> THEN Bypass(bus)
                     ELSE IF CAS_queue_head_r = <<>> THEN <<>>
                     ELSE <<Path!Seen(CAS_queue_head_r[1], DRAM_data)>>
  BY DEF Request, Path!Presented
<1>4. 0 \in Pos => CAS_queue_head_r # <<>>
  BY DEF Pos
<1>5. P!Inv => (0 \notin Pos => CAS_queue_head_r = <<>>)
  <2>1. P!Inv => 0 \in 0..Len(rw_queue)
    BY DEF P!Inv, P!TypeOK
  <2> QED BY <2>1 DEF Pos
<1>6. Path!Seen(CAS_queue_head_r[1], DRAM_data) =
        [rd |-> Ent(0).rd, tag |-> TagAt(0),
         data |-> IF Ent(0).rd THEN DataAt(0) ELSE "none"]
  BY DEF Path!Seen, Ent, TagAt, DataAt
<1>7. CASE held
  <2>1. Bypass(bus) # <<>>
    BY <1>1, <1>7
  <2> QED BY <1>1, <1>3, <1>7, <2>1, Zenon
<1>8. CASE ~held
  <2>1. Request(bus) = IF CAS_queue_head_r = <<>> THEN <<>>
                       ELSE <<Path!Seen(CAS_queue_head_r[1], DRAM_data)>>
    BY <1>2, <1>3, <1>8, Zenon
  <2> QED BY <1>4, <1>5, <1>6, <1>8, <2>1, Zenon
<1> QED BY <1>7, <1>8

\* The tags of what is presented say which command leaves.
LEMMA SignalsSeen ==
  ASSUME P!Inv, Tags, NEW bus, NEW held, held = Held(bus)
  PROVE  /\ (Request(bus) # <<>> /\ Request(bus)[1].tag.incr) <=> Leaves(held, "descriptor")
         /\ (Request(bus) # <<>> /\ Request(bus)[1].tag.clr) <=> Leaves(held, "status")
         /\ \A a : (held => bus.addr # a) =>
              ((Request(bus) # <<>> /\ ~Request(bus)[1].rd /\ Request(bus)[1].tag.addr = a)
                 <=> Written(held, a))
         /\ Passed(Request(bus)) = Passes(held)
<1>1. /\ held => Request(bus) =
              <<[rd |-> FALSE, tag |-> ResultTag(bus), data |-> "none"]>>
      /\ ~held /\ 0 \in Pos => Request(bus) =
              <<[rd |-> Ent(0).rd, tag |-> TagAt(0),
                 data |-> IF Ent(0).rd THEN DataAt(0) ELSE "none"]>>
      /\ ~held /\ 0 \notin Pos => Request(bus) = <<>>
  BY RequestSeen
<1>2. CASE held
  <2>1. /\ Request(bus) # <<>> /\ Request(bus)[1].rd = FALSE
        /\ Request(bus)[1].tag = ResultTag(bus)
    BY <1>1, <1>2
  <2>2. /\ ResultTag(bus).incr = FALSE /\ ResultTag(bus).clr = FALSE
        /\ ResultTag(bus).addr = bus.addr /\ ResultTag(bus)["A"] = FALSE
        /\ ResultTag(bus)["B"] = FALSE /\ ResultTag(bus)["C"] = TRUE
    BY DEF ResultTag
  <2>3. Passed(Request(bus)) = {"C"}
    BY <2>1, <2>2 DEF Passed, Seqr!Type
  <2> QED BY <1>2, <2>1, <2>2, <2>3 DEF Leaves, Written, Passes
<1>3. CASE ~held /\ 0 \notin Pos
  <2>1. Request(bus) = <<>>
    BY <1>1, <1>3
  <2>2. Passed(Request(bus)) = {}
    BY <2>1 DEF Passed
  <2> QED BY <1>3, <2>1, <2>2 DEF Leaves, Written, Passes, Writing, Members
<1>4. CASE ~held /\ 0 \in Pos
  <2>1. /\ Request(bus) # <<>> /\ Request(bus)[1].rd = Ent(0).rd
        /\ Request(bus)[1].tag = TagAt(0)
    <3>1. PICK x : x = [rd |-> Ent(0).rd, tag |-> TagAt(0),
                        data |-> IF Ent(0).rd THEN DataAt(0) ELSE "none"]
      OBVIOUS
    <3>2. Request(bus) = <<x>>
      BY <1>1, <1>4, <3>1, Zenon
    <3>3. x.rd = Ent(0).rd /\ x.tag = TagAt(0)
      BY <3>1
    <3> QED BY <3>2, <3>3
  <2>2. Exact(Ent(0)) /\ TagAt(0).want \in Want
    BY <1>4 DEF Tags, Exact, TagAt
  <2>3. /\ TagAt(0).incr <=> TagAt(0).want = "descriptor"
        /\ TagAt(0).clr <=> TagAt(0).want = "status"
        /\ TagAt(0)["A"] <=> TagAt(0).want = "A"
        /\ TagAt(0)["B"] <=> TagAt(0).want = "B"
        /\ ~TagAt(0)["C"]
    BY <2>2 DEF Exact, TagAt
  <2>4. /\ Leaves(held, "descriptor") <=> TagAt(0).want = "descriptor"
        /\ Leaves(held, "status") <=> TagAt(0).want = "status"
        /\ Leaves(held, "beat") <=> TagAt(0).want \in {"A", "B"}
    BY <1>4, <2>2 DEF Leaves, Members, Class, Operand, Want
  <2>5. Passed(Request(bus)) = Passes(held)
    <3>1. Passed(Request(bus)) = {t \in {"A", "B", "C"} : TagAt(0)[t]}
      BY <2>1 DEF Passed, Seqr!Type
    <3>2. Passes(held) = IF TagAt(0).want \in {"A", "B"} THEN {TagAt(0).want} ELSE {}
      BY <1>4, <2>4 DEF Passes
    <3>3. \A t : t \in Passed(Request(bus)) <=> t \in Passes(held)
      BY <2>3, <3>1, <3>2
    <3> QED BY <3>3
  <2>6. \A a : 0 \in Writing(a) <=> ~Ent(0).rd /\ TagAt(0).addr = a
    BY <1>4 DEF Writing
  <2> QED BY <1>4, <2>1, <2>3, <2>4, <2>5, <2>6 DEF Written
<1> QED BY <1>2, <1>3, <1>4

\* A descriptor is presented together with its own word.
LEMMA DataSeen ==
  ASSUME P!Inv, Tags, Paired, NEW bus, NEW held, held = Held(bus),
         Leaves(held, "descriptor")
  PROVE  Request(bus)[1].data = Chain[TagAt(0).k].word
<1>1. ~held /\ 0 \in Members("descriptor") /\ 0 \in Pos
  BY DEF Leaves, Members
<1>2. Ent(0).rd /\ TagAt(0).want = "descriptor"
  BY <1>1, MemberTags
<1>3. PICK x : x = [rd |-> Ent(0).rd, tag |-> TagAt(0),
                    data |-> IF Ent(0).rd THEN DataAt(0) ELSE "none"]
  OBVIOUS
<1>4. Request(bus) = <<x>>
  <2>1. ~held /\ 0 \in Pos => Request(bus) =
          <<[rd |-> Ent(0).rd, tag |-> TagAt(0),
             data |-> IF Ent(0).rd THEN DataAt(0) ELSE "none"]>>
    BY RequestSeen
  <2> QED BY <1>1, <1>3, <2>1, Zenon
<1>5. x.data = DataAt(0)
  BY <1>2, <1>3
<1>6. DataAt(0) = DataOf(TagAt(0))
  BY <1>1, <1>2 DEF Paired
<1> QED BY <1>2, <1>4, <1>5, <1>6 DEF DataOf

\* The device's next state, in terms of what leaves the queue.
DeviceEdge(k, bus, held) ==
  /\ HPC_clear_sig' = Written(held, Desc!HPC_CLR_SIG)
  /\ AIM_working' = IF Written(held, Desc!AIM_WORK_SIG) THEN ~AIM_working
                    ELSE AIM_working
  /\ next_desc_addr' =
       IF Written(held, Desc!AIM_WORK_SIG) THEN 0
       ELSE IF HPC_clear_sig THEN DescAddr(2)
       ELSE IF bus.addr = next_desc_addr THEN (bus.addr + 64) % ADDR_SPACE
       ELSE next_desc_addr
  /\ slot' = [i \in 0..(SLOTS - 1) |->
                IF HPC_clear_sig \/ (Leaves(held, "status") /\ clr_ptr = i)
                THEN Desc!EmptySlot
                ELSE IF Leaves(held, "descriptor") /\ wr_ptr = i THEN Content(k)
                ELSE slot[i]]
  /\ wr_ptr' = Desc!NextPtr(wr_ptr, Leaves(held, "descriptor"))
  /\ clr_ptr' = Desc!NextPtr(clr_ptr, Leaves(held, "status"))
  /\ PIM_req_cnt' =
       [t \in {"A", "B", "C"} |->
          Seqr!NextCount(t, t \in Passes(held), HPC_clear_sig,
                         slot[PIM_opcode_match_ptr])]
  /\ desc_done_r' = <<Seqr!check_current_desc_done(slot[PIM_opcode_match_ptr])>>
                      \o SubSeq(desc_done_r, 1, 3)
  /\ PIM_opcode_match_ptr' =
       IF HPC_clear_sig THEN 0
       ELSE IF desc_done_r[4] THEN (PIM_opcode_match_ptr + 1) % SLOTS
       ELSE PIM_opcode_match_ptr

\* The device's registers follow what leaves: the whole clock edge.
LEMMA EdgeStep ==
  ASSUME DirectHost, P!Inv, Tags, Paired, Plain, NEW bus, NEW reply, Clock(bus, reply),
         NEW held, held = Held(bus), held \in BOOLEAN,
         held => bus.addr \notin {Desc!AIM_WORK_SIG, Desc!HPC_CLR_SIG},
         NEW k, Leaves(held, "descriptor") => TagAt(0).k = k /\ k \in 1..N
  PROVE  DeviceEdge(k, bus, held)
<1>1. Desc!Clock(bus, Request(bus), rw_queue # <<>> /\ Head(rw_queue).tag.incr,
                 DataBus(reply))
  BY DEF Clock, Request
<1>2. Seqr!Clock(Passes(held), HPC_clear_sig, slot[PIM_opcode_match_ptr])
  <2>1. Seqr!Clock(Passed(Request(bus)), HPC_clear_sig, slot[PIM_opcode_match_ptr])
    BY DEF Clock, Request
  <2> QED BY <2>1, SignalsSeen
<1>3. /\ (Request(bus) # <<>> /\ Request(bus)[1].tag.incr) <=> Leaves(held, "descriptor")
      /\ (Request(bus) # <<>> /\ Request(bus)[1].tag.clr) <=> Leaves(held, "status")
      /\ \A a \in {Desc!AIM_WORK_SIG, Desc!HPC_CLR_SIG} :
           (Request(bus) # <<>> /\ ~Request(bus)[1].rd /\ Request(bus)[1].tag.addr = a)
              <=> Written(held, a)
  BY SignalsSeen
<1>4. PICK load, clear, on, off :
        /\ load = (Request(bus) # <<>> /\ Request(bus)[1].tag.incr)
        /\ clear = (Request(bus) # <<>> /\ Request(bus)[1].tag.clr)
        /\ on = (Request(bus) # <<>> /\ ~Request(bus)[1].rd
                   /\ Request(bus)[1].tag.addr = Desc!AIM_WORK_SIG)
        /\ off = (Request(bus) # <<>> /\ ~Request(bus)[1].rd
                    /\ Request(bus)[1].tag.addr = Desc!HPC_CLR_SIG)
  OBVIOUS
<1>5. /\ load = Leaves(held, "descriptor") /\ clear = Leaves(held, "status")
      /\ on = Written(held, Desc!AIM_WORK_SIG) /\ off = Written(held, Desc!HPC_CLR_SIG)
  BY <1>3, <1>4 DEF Leaves, Written
<1>6. /\ HPC_clear_sig' = off
      /\ AIM_working' = IF on THEN ~AIM_working ELSE AIM_working
      /\ next_desc_addr' =
           IF on THEN 0
           ELSE IF HPC_clear_sig THEN Desc!RSV_DESC_MEM_BASE + Desc!DESC_STRIDE
           ELSE IF bus.addr = next_desc_addr THEN (bus.addr + Desc!DESC_STRIDE) % ADDR_SPACE
           ELSE next_desc_addr
      /\ slot' = [i \in 0..(SLOTS - 1) |->
           Desc!NextSlot(i, load, clear,
                         IF load THEN Request(bus)[1].data ELSE Desc!ZeroWord)]
      /\ wr_ptr' = Desc!NextPtr(wr_ptr, load)
      /\ clr_ptr' = Desc!NextPtr(clr_ptr, clear)
  BY <1>1, <1>4, Zenon DEF Desc!Clock
<1>7. DescAddr(2) = Desc!RSV_DESC_MEM_BASE + Desc!DESC_STRIDE /\ Desc!DESC_STRIDE = 64
  BY DEF DescAddr, Desc!RSV_DESC_MEM_BASE, Desc!DESC_STRIDE
<1>8. load => Desc!Loaded(Request(bus)[1].data) = Content(k)
  <2> SUFFICES ASSUME load PROVE Desc!Loaded(Request(bus)[1].data) = Content(k)
    OBVIOUS
  <2>1. Leaves(held, "descriptor") /\ TagAt(0).k = k /\ k \in 1..N
    BY <1>5
  <2>2. Request(bus)[1].data = Chain[k].word
    BY <2>1, DataSeen
  <2>3. Chain[k].base = IF Chain[k].word.info.dst THEN Chain[k].word.dst
                        ELSE Chain[k].word.src
    BY <2>1 DEF DirectHost
  <2>4. ~indirect_rr.valid
    BY DEF Plain
  <2> QED BY <2>2, <2>3, <2>4 DEF Desc!Loaded, Content
<1>9. \A i \in 0..(SLOTS - 1) :
        Desc!NextSlot(i, load, clear, IF load THEN Request(bus)[1].data ELSE Desc!ZeroWord)
          = IF HPC_clear_sig \/ (Leaves(held, "status") /\ clr_ptr = i)
            THEN Desc!EmptySlot
            ELSE IF Leaves(held, "descriptor") /\ wr_ptr = i THEN Content(k)
            ELSE slot[i]
  BY <1>5, <1>8 DEF Desc!NextSlot
<1>10. slot' = [i \in 0..(SLOTS - 1) |->
                IF HPC_clear_sig \/ (Leaves(held, "status") /\ clr_ptr = i)
                THEN Desc!EmptySlot
                ELSE IF Leaves(held, "descriptor") /\ wr_ptr = i THEN Content(k)
                ELSE slot[i]]
  BY <1>6, <1>9, Zenon
<1>11. wr_ptr' = Desc!NextPtr(wr_ptr, Leaves(held, "descriptor"))
       /\ clr_ptr' = Desc!NextPtr(clr_ptr, Leaves(held, "status"))
  BY <1>5, <1>6
<1>12. /\ HPC_clear_sig' = Written(held, Desc!HPC_CLR_SIG)
       /\ AIM_working' = IF Written(held, Desc!AIM_WORK_SIG) THEN ~AIM_working
                         ELSE AIM_working
       /\ next_desc_addr' =
            IF Written(held, Desc!AIM_WORK_SIG) THEN 0
            ELSE IF HPC_clear_sig THEN DescAddr(2)
            ELSE IF bus.addr = next_desc_addr THEN (bus.addr + 64) % ADDR_SPACE
            ELSE next_desc_addr
  BY <1>5, <1>6, <1>7
<1>13. /\ PIM_req_cnt' =
            [t \in {"A", "B", "C"} |->
               Seqr!NextCount(t, t \in Passes(held), HPC_clear_sig,
                              slot[PIM_opcode_match_ptr])]
       /\ desc_done_r' = <<Seqr!check_current_desc_done(slot[PIM_opcode_match_ptr])>>
                           \o SubSeq(desc_done_r, 1, 3)
       /\ PIM_opcode_match_ptr' =
            IF HPC_clear_sig THEN 0
            ELSE IF desc_done_r[4] THEN (PIM_opcode_match_ptr + 1) % SLOTS
            ELSE PIM_opcode_match_ptr
  BY <1>2, Zenon DEF Seqr!Clock, Seqr!Type
<1> QED BY <1>10, <1>11, <1>12, <1>13 DEF DeviceEdge


-----------------------------------------------------------------------------
(***************************************************************************)
(* What the host does in a cycle.                                          *)
(***************************************************************************)
\* The cycle as the device and the host's clock see it.
Drives(bus, reply) ==
  /\ Clock(bus, reply)
  /\ ~(bus.rd /\ bus.wr)
  /\ awaiting' = (IF reply THEN Tail(awaiting) ELSE awaiting)
                   \o IF bus.rd THEN <<[want |-> bus.want, k |-> bus.k]>>
                      ELSE <<>>
  /\ idle' = 0 \/ idle' = idle \/ (idle' = idle + 1 /\ ~Settled)
  /\ reply /\ Matters(awaiting[1]) => idle' = 0

\* A write to the device's control registers, which the host lets settle.
Controls(bus, a) ==
  /\ bus.wr /\ ~bus.rd /\ bus.want = "other" /\ bus.addr = a
  /\ Settled /\ idle' = 0

\* The host accesses memory outside the protocol, or nothing; or writes an
\* argument register.
Quiet(bus) ==
  /\ bus.want = "other" /\ Foreign(bus.addr) /\ (bus.rd => bus.data = NOISE)
  /\ \/ setup' = setup
     \/ setup >= 2 /\ setup < Len(Setup) /\ Settled /\ setup' = setup + 1 /\ idle' = 0
  /\ UNCHANGED <<fetched, cur, beats, cleared>>

\* Control writes: on, clear, off.
SwitchOn(bus) ==
  /\ Controls(bus, Desc!AIM_WORK_SIG) /\ setup = 0 /\ setup' = 1
  /\ fetched' = 0 /\ cur' = 0 /\ beats' = 0 /\ cleared' = 0

Clears(bus) ==
  /\ Controls(bus, Desc!HPC_CLR_SIG) /\ setup = 1 /\ setup' = 2
  /\ UNCHANGED <<fetched, cur, beats, cleared>>

SwitchOff(bus) ==
  /\ Controls(bus, Desc!AIM_WORK_SIG) /\ Open /\ cleared = N /\ setup' = 0
  /\ UNCHANGED <<fetched, cur, beats, cleared>>

\* The host reads the next descriptor.
Fetches(bus) ==
  /\ Open /\ (fetched = 0 => Settled) /\ fetched < N /\ fetched - cleared < SLOTS
  /\ bus.rd /\ ~bus.wr /\ bus.want = "descriptor" /\ bus.k = fetched + 1
  /\ bus.addr = DescAddr(fetched + 1) /\ bus.data = Chain[fetched + 1].word
  /\ fetched' = fetched + 1
  /\ UNCHANGED <<setup, cur, beats, cleared>>

\* The bus carries beat b of operand k.
Streaming(bus, k, b) ==
  /\ k \in 1..N /\ b \in 0..(Chain[k].beats - 1)
  /\ bus.want = Chain[k].type /\ bus.k = k /\ bus.addr = Chain[k].base + 32 * b
  /\ bus.data = NOISE /\ bus.wr = ~bus.rd /\ bus.rd = (Chain[k].type # "C")
  /\ Chain[k].type = "C" => idle' = 0

\* The first beat of the next operand; the next beat of the current one.
Starts(bus) ==
  /\ Open /\ Settled /\ cur < fetched /\ ~Awaits(DescOf(cur + 1))
  /\ cur > 0 => Streamed
  /\ Streaming(bus, cur + 1, 0) /\ cur' = cur + 1 /\ beats' = 1
  /\ UNCHANGED <<setup, fetched, cleared>>

Continues(bus) ==
  /\ Open /\ cur > 0 /\ beats < Chain[cur].beats
  /\ Streaming(bus, cur, beats) /\ beats' = beats + 1
  /\ UNCHANGED <<setup, fetched, cur, cleared>>

\* The host writes the status word of a finished operand.
Reports(bus) ==
  /\ Open /\ cleared < Finished
  /\ bus.wr /\ ~bus.rd /\ bus.want = "status" /\ bus.k = cleared + 1
  /\ bus.addr = DescAddr(cleared + 1) + Desc!STATUS_WORD
  /\ cleared' = cleared + 1
  /\ UNCHANGED <<setup, fetched, cur, beats>>

\* Every step of the host is one of these.
Kinds(bus) ==
  \/ Quiet(bus) \/ SwitchOn(bus) \/ Clears(bus) \/ SwitchOff(bus)
  \/ Fetches(bus) \/ Starts(bus) \/ Continues(bus) \/ Reports(bus)

\* A cycle of the model, without the descriptors' and counters' part.
LEMMA DrivesStep ==
  ASSUME NEW bus, NEW step \in BOOLEAN, Cycle(bus, step), ~(bus.rd /\ bus.wr)
  PROVE  \E reply \in BOOLEAN : Drives(bus, reply) /\ (step => idle' = 0)
<1>1. PICK reply \in BOOLEAN :
        /\ Clock(bus, reply)
        /\ awaiting' = (IF reply THEN Tail(awaiting) ELSE awaiting)
                         \o IF bus.rd THEN <<[want |-> bus.want, k |-> bus.k]>>
                            ELSE <<>>
        /\ idle' = IF step \/ (reply /\ Matters(awaiting[1])) THEN 0
                   ELSE IF Settled THEN idle ELSE idle + 1
  BY DEF Cycle
<1>2. /\ idle' = 0 \/ idle' = idle \/ (idle' = idle + 1 /\ ~Settled)
      /\ reply /\ Matters(awaiting[1]) => idle' = 0
      /\ step => idle' = 0
  BY <1>1, Zenon
<1> QED BY <1>1, <1>2, Zenon DEF Drives

\* The addresses of the control registers, the descriptors and the operands
\* are addresses, each of its own kind.
LEMMA Addresses ==
  ASSUME DirectHost
  PROVE  /\ Foreign(0)
         /\ 0 \in Desc!Addr /\ Desc!AIM_WORK_SIG \in Desc!Addr /\ Desc!HPC_CLR_SIG \in Desc!Addr
         /\ \A k \in 1..N, b \in Nat : b < Chain[k].beats =>
              Chain[k].base + 32 * b \in Desc!Addr
         /\ \A k \in 1..(N + 1) : DescAddr(k) \in Desc!Addr
         /\ \A k \in 1..N : DescAddr(k) + Desc!STATUS_WORD \in Desc!Addr
<1>1. ADDR_SPACE \in Nat /\ ADDR_SPACE > 16777216
  BY AddrAssumption
<1>2. N \in Nat /\ 64 * (N + 1) <= 8388608
  BY DEF DirectHost, Desc!RSV_DESC_MEM_SIZE
<1>3. \A k \in 1..N : /\ Chain[k].beats \in Nat /\ Chain[k].base \in Nat
                      /\ Chain[k].base >= 16777216 /\ Chain[k].base + 32 * Chain[k].beats < ADDR_SPACE
  <2>1. CNT_RANGE \in Nat
    BY DEF DirectHost
  <2> QED BY <2>1, ChainAssumption, <1>1 DEF DirectHost, Desc!Addr,
        Desc!RSV_DESC_MEM_BASE, Desc!RSV_DESC_MEM_SIZE
<1>4. Foreign(0)
  BY <1>1, <1>3 DEF Foreign, Desc!Addr, Desc!AIM_WORK_SIG, Desc!HPC_CLR_SIG,
     Desc!InDescRange, Desc!RSV_DESC_MEM_BASE
<1>5. \A k \in 1..N, b \in Nat : b < Chain[k].beats =>
              Chain[k].base + 32 * b \in Desc!Addr
  BY <1>1, <1>3 DEF Desc!Addr
<1>6. /\ \A k \in 1..(N + 1) : DescAddr(k) \in Desc!Addr
      /\ \A k \in 1..N : DescAddr(k) + Desc!STATUS_WORD \in Desc!Addr
  BY <1>1, <1>2 DEF Desc!Addr, DescAddr, Desc!RSV_DESC_MEM_BASE, Desc!DESC_STRIDE,
     Desc!STATUS_WORD
<1> QED BY <1>1, <1>4, <1>5, <1>6 DEF Desc!Addr, Desc!AIM_WORK_SIG, Desc!HPC_CLR_SIG

\* What stands on the bus.
LEMMA BusTyped ==
  ASSUME DirectHost, NEW a \in Desc!Addr, NEW d \in Data, NEW want \in Want, NEW k \in 0..N
  PROVE  /\ NoBus \in Bus /\ ReadOf(a, d, want, k) \in Bus /\ WriteOf(a, want, k) \in Bus
         /\ \A x \in Args : [WriteOf(a, want, k) EXCEPT !.args = x] \in Bus
<1>1. N \in Nat /\ 0 \in Desc!Addr /\ NOISE \in Data /\ Desc!NoArgs \in Args
  BY Addresses DEF DirectHost, Data, Desc!NoArgs, Args
<1>2. NoBus \in Bus
  BY <1>1 DEF NoBus, Bus, Want
<1> QED BY <1>2 DEF ReadOf, WriteOf, Bus

\* Every step of the host is one of the kinds listed.
LEMMA HostKinds ==
  ASSUME DirectHost, Types, Next, ~Reset,
         cur \in 0..N, beats \in Nat, cleared \in Nat, fetched \in 0..N
  PROVE  \E bus \in Bus, reply \in BOOLEAN : Drives(bus, reply) /\ Kinds(bus)
<1>0. /\ N \in Nat /\ Len(Setup) \in Nat /\ Len(Setup) >= 2 /\ setup \in 0..Len(Setup)
      /\ NOISE \in Data /\ "other" \in Want /\ 0 \in 0..N
      /\ \A k \in 1..N : /\ Chain[k].word \in Data /\ Chain[k].type \in Want
                         /\ Chain[k].beats \in Nat /\ Chain[k].beats >= 1
  <2>1. CNT_RANGE \in Nat
    BY DEF DirectHost
  <2> QED BY <2>1, ChainAssumption, SMTT(30) DEF DirectHost, Types, Want, Data
<1>1. CASE HostIdle
  <2>1. Cycle(NoBus, FALSE) /\ UNCHANGED <<setup, fetched, cur, beats, cleared>>
    BY <1>1 DEF HostIdle
  <2>2. NoBus \in Bus
    BY <1>0, Addresses, BusTyped
  <2>3. ~(NoBus.rd /\ NoBus.wr)
    BY DEF NoBus
  <2>4. PICK reply \in BOOLEAN : Drives(NoBus, reply)
    BY <2>1, <2>3, DrivesStep
  <2>5. Quiet(NoBus)
    BY <2>1, Addresses DEF Quiet, NoBus
  <2> QED BY <2>2, <2>4, <2>5 DEF Kinds
<1>2. ASSUME NEW a \in OtherAddr, OtherRead(a)
      PROVE  \E bus \in Bus, reply \in BOOLEAN : Drives(bus, reply) /\ Kinds(bus)
  <2>0. Foreign(a) /\ a \in Desc!Addr
    BY DEF DirectHost, Foreign
  <2>1. PICK bus : bus = ReadOf(a, NOISE, "other", 0)
    OBVIOUS
  <2>2. Cycle(bus, FALSE) /\ UNCHANGED <<setup, fetched, cur, beats, cleared>>
    BY <1>2, <2>1 DEF OtherRead
  <2>3. bus \in Bus
    BY <1>0, <2>0, <2>1, BusTyped
  <2>4. ~bus.wr /\ bus.want = "other" /\ bus.addr = a /\ bus.data = NOISE
    BY <2>1 DEF ReadOf, NoBus
  <2>5. PICK reply \in BOOLEAN : Drives(bus, reply)
    BY <2>2, <2>4, DrivesStep
  <2>6. Quiet(bus)
    BY <2>0, <2>2, <2>4 DEF Quiet
  <2> QED BY <2>3, <2>5, <2>6 DEF Kinds
<1>3. ASSUME NEW a \in OtherAddr, OtherWrite(a)
      PROVE  \E bus \in Bus, reply \in BOOLEAN : Drives(bus, reply) /\ Kinds(bus)
  <2>0. Foreign(a) /\ a \in Desc!Addr
    BY DEF DirectHost, Foreign
  <2>1. PICK bus : bus = WriteOf(a, "other", 0)
    OBVIOUS
  <2>2. Cycle(bus, FALSE) /\ UNCHANGED <<setup, fetched, cur, beats, cleared>>
    BY <1>3, <2>1 DEF OtherWrite
  <2>3. bus \in Bus
    BY <1>0, <2>0, <2>1, BusTyped
  <2>4. ~bus.rd /\ bus.want = "other" /\ bus.addr = a
    BY <2>1 DEF WriteOf, NoBus
  <2>5. PICK reply \in BOOLEAN : Drives(bus, reply)
    BY <2>2, <2>4, DrivesStep
  <2>6. Quiet(bus)
    BY <2>0, <2>2, <2>4 DEF Quiet
  <2> QED BY <2>3, <2>5, <2>6 DEF Kinds
<1>4. CASE ControlWrite
  <2>0. setup + 1 \in 1..Len(Setup) /\ setup < Len(Setup) /\ Settled
    BY <1>0, <1>4 DEF ControlWrite, Open
  <2>1. PICK w : w = Setup[setup + 1]
    OBVIOUS
  <2>2. PICK bus : bus = [WriteOf(w.addr, "other", 0) EXCEPT !.args = w.args]
    OBVIOUS
  <2>3. Cycle(bus, TRUE) /\ setup' = setup + 1
    BY <1>4, <2>1, <2>2 DEF ControlWrite
  <2>4. IF setup = 0 THEN fetched' = 0 /\ cur' = 0 /\ beats' = 0 /\ cleared' = 0
        ELSE UNCHANGED <<fetched, cur, beats, cleared>>
    BY <1>4 DEF ControlWrite
  <2>5. /\ w.args \in Args
        /\ setup = 0 => w.addr = Desc!AIM_WORK_SIG
        /\ setup = 1 => w.addr = Desc!HPC_CLR_SIG
        /\ setup >= 2 => Foreign(w.addr)
    <3>1. w.args \in Args
      BY <2>0, <2>1 DEF DirectHost, Args
    <3>2. setup = 0 => setup + 1 = 1
      OBVIOUS
    <3>3. setup = 1 => setup + 1 = 2
      OBVIOUS
    <3>4. setup >= 2 => setup + 1 \in 3..Len(Setup)
      BY <1>0, <2>0
    <3> QED BY <2>1, <3>1, <3>2, <3>3, <3>4 DEF DirectHost
  <2>6. setup = 0 \/ setup = 1 \/ setup >= 2
    BY <1>0
  <2>7. w.addr \in Desc!Addr
    BY <2>5, <2>6, Addresses DEF Foreign
  <2>8. bus \in Bus
    BY <1>0, <2>2, <2>5, <2>7, BusTyped
  <2>9. bus.wr /\ ~bus.rd /\ bus.want = "other" /\ bus.addr = w.addr
    BY <2>2 DEF WriteOf, NoBus
  <2>10. PICK reply \in BOOLEAN : Drives(bus, reply) /\ idle' = 0
    BY <2>3, <2>9, DrivesStep
  <2>11. Kinds(bus)
    <3>1. CASE setup = 0
      BY <2>0, <2>3, <2>4, <2>5, <2>9, <2>10, <3>1 DEF Kinds, SwitchOn, Controls
    <3>2. CASE setup = 1
      BY <2>0, <2>3, <2>4, <2>5, <2>9, <2>10, <3>2 DEF Kinds, Clears, Controls
    <3>3. CASE setup >= 2
      BY <2>0, <2>3, <2>4, <2>5, <2>9, <2>10, <3>3, <1>0 DEF Kinds, Quiet
    <3> QED BY <2>6, <3>1, <3>2, <3>3
  <2> QED BY <2>8, <2>10, <2>11
<1>5. CASE FetchDescriptor
  <2>0. fetched + 1 \in 1..N /\ DescAddr(fetched + 1) \in Desc!Addr
    <3>1. fetched < N
      BY <1>5 DEF FetchDescriptor
    <3>2. fetched + 1 \in 1..N /\ fetched + 1 \in 1..(N + 1)
      BY <1>0, <3>1
    <3> QED BY <3>2, Addresses
  <2>1. PICK bus : bus = ReadOf(DescAddr(fetched + 1), Chain[fetched + 1].word,
                                "descriptor", fetched + 1)
    OBVIOUS
  <2>2. Cycle(bus, FALSE)
    BY <1>5, <2>1 DEF FetchDescriptor
  <2>3. bus \in Bus
    <3>1. "descriptor" \in Want /\ fetched + 1 \in 0..N /\ Chain[fetched + 1].word \in Data
      BY <1>0, <2>0 DEF Want
    <3> QED BY <2>0, <2>1, <3>1, BusTyped
  <2>4. /\ bus.rd /\ ~bus.wr /\ bus.want = "descriptor" /\ bus.k = fetched + 1
        /\ bus.addr = DescAddr(fetched + 1) /\ bus.data = Chain[fetched + 1].word
    BY <2>1 DEF ReadOf, NoBus
  <2>5. PICK reply \in BOOLEAN : Drives(bus, reply)
    BY <2>2, <2>4, DrivesStep
  <2>6. Fetches(bus)
    BY <1>5, <2>4 DEF Fetches, FetchDescriptor
  <2> QED BY <2>3, <2>5, <2>6 DEF Kinds
<1>6. ASSUME NEW k \in 1..N, NEW b \in Nat, b < Chain[k].beats, Beat(k, b)
      PROVE  \E bus \in Bus, reply \in BOOLEAN : Drives(bus, reply) /\ Streaming(bus, k, b)
  <2>0. Chain[k].base + 32 * b \in Desc!Addr /\ k \in 0..N /\ b \in 0..(Chain[k].beats - 1)
    <3>1. Chain[k].base + 32 * b \in Desc!Addr
      BY <1>6, Addresses
    <3>2. Chain[k].beats \in Nat /\ k \in 0..N
      BY <1>0
    <3> QED BY <1>6, <3>1, <3>2
  <2>1. CASE Chain[k].type = "C"
    <3>1. PICK bus : bus = WriteOf(Chain[k].base + 32 * b, "C", k)
      OBVIOUS
    <3>2. Cycle(bus, TRUE)
      BY <1>6, <2>1, <3>1 DEF Beat
    <3>3. bus \in Bus
      BY <1>0, <2>0, <2>1, <3>1, BusTyped
    <3>4. /\ bus.wr = TRUE /\ bus.rd = FALSE /\ bus.want = "C" /\ bus.k = k
          /\ bus.addr = Chain[k].base + 32 * b /\ bus.data = NOISE
      BY <3>1 DEF WriteOf, NoBus
    <3>5. PICK reply \in BOOLEAN : Drives(bus, reply) /\ idle' = 0
      BY <3>2, <3>4, DrivesStep
    <3> QED BY <2>0, <2>1, <3>3, <3>4, <3>5 DEF Streaming
  <2>2. CASE Chain[k].type # "C"
    <3>1. PICK bus : bus = ReadOf(Chain[k].base + 32 * b, NOISE, Chain[k].type, k)
      OBVIOUS
    <3>2. Cycle(bus, FALSE)
      BY <1>6, <2>2, <3>1 DEF Beat
    <3>3. bus \in Bus
      BY <1>0, <2>0, <3>1, BusTyped
    <3>4. /\ bus.wr = FALSE /\ bus.rd = TRUE /\ bus.want = Chain[k].type /\ bus.k = k
          /\ bus.addr = Chain[k].base + 32 * b /\ bus.data = NOISE
      BY <3>1 DEF ReadOf, NoBus
    <3>5. PICK reply \in BOOLEAN : Drives(bus, reply)
      BY <3>2, <3>4, DrivesStep
    <3> QED BY <2>0, <2>2, <3>3, <3>4, <3>5 DEF Streaming
  <2> QED BY <2>1, <2>2
<1>7. CASE FirstBeat
  <2>1. cur + 1 \in 1..N /\ 0 \in Nat /\ 0 < Chain[cur + 1].beats
    <3>1. cur < fetched
      BY <1>7 DEF FirstBeat
    <3>2. cur + 1 \in 1..N
      BY <1>0, <3>1
    <3> QED BY <1>0, <3>2
  <2>2. PICK bus \in Bus, reply \in BOOLEAN : Drives(bus, reply) /\ Streaming(bus, cur + 1, 0)
    BY <1>6, <1>7, <2>1 DEF FirstBeat
  <2>3. Starts(bus)
    BY <1>7, <2>2 DEF Starts, FirstBeat
  <2> QED BY <2>2, <2>3 DEF Kinds
<1>8. CASE NextBeat
  <2>1. cur \in 1..N /\ beats < Chain[cur].beats
    BY <1>0, <1>8 DEF NextBeat
  <2>2. PICK bus \in Bus, reply \in BOOLEAN : Drives(bus, reply) /\ Streaming(bus, cur, beats)
    BY <1>6, <1>8, <2>1 DEF NextBeat
  <2>3. Continues(bus)
    BY <1>8, <2>2 DEF Continues, NextBeat
  <2> QED BY <2>2, <2>3 DEF Kinds
<1>9. CASE WriteStatus
  <2>0. cleared + 1 \in 1..N /\ DescAddr(cleared + 1) + Desc!STATUS_WORD \in Desc!Addr
    <3>1. cleared < Finished
      BY <1>9 DEF WriteStatus
    <3>2. Finished \in Int /\ Finished <= N
      BY <1>0 DEF Finished
    <3>3. cleared + 1 \in 1..N
      BY <1>0, <3>1, <3>2
    <3> QED BY <3>3, Addresses
  <2>1. PICK bus : bus = WriteOf(DescAddr(cleared + 1) + Desc!STATUS_WORD, "status", cleared + 1)
    OBVIOUS
  <2>2. Cycle(bus, FALSE)
    BY <1>9, <2>1 DEF WriteStatus
  <2>3. bus \in Bus
    <3>1. "status" \in Want /\ cleared + 1 \in 0..N
      BY <1>0, <2>0 DEF Want
    <3> QED BY <1>0, <2>0, <2>1, <3>1, BusTyped
  <2>4. /\ bus.wr /\ ~bus.rd /\ bus.want = "status" /\ bus.k = cleared + 1
        /\ bus.addr = DescAddr(cleared + 1) + Desc!STATUS_WORD
    BY <2>1 DEF WriteOf, NoBus
  <2>5. PICK reply \in BOOLEAN : Drives(bus, reply)
    BY <2>2, <2>4, DrivesStep
  <2>6. Reports(bus)
    BY <1>9, <2>4 DEF Reports, WriteStatus
  <2> QED BY <2>3, <2>5, <2>6 DEF Kinds
<1>10. CASE CloseSession
  <2>1. PICK bus : bus = WriteOf(Desc!AIM_WORK_SIG, "other", 0)
    OBVIOUS
  <2>2. Cycle(bus, TRUE)
    BY <1>10, <2>1 DEF CloseSession
  <2>3. bus \in Bus
    BY <1>0, <2>1, Addresses, BusTyped
  <2>4. bus.wr /\ ~bus.rd /\ bus.want = "other" /\ bus.addr = Desc!AIM_WORK_SIG
    BY <2>1 DEF WriteOf, NoBus
  <2>5. PICK reply \in BOOLEAN : Drives(bus, reply) /\ idle' = 0
    BY <2>2, <2>4, DrivesStep
  <2>6. SwitchOff(bus)
    BY <1>10, <2>4, <2>5 DEF SwitchOff, Controls, CloseSession
  <2> QED BY <2>3, <2>5, <2>6 DEF Kinds
<1> QED BY <1>1, <1>2, <1>3, <1>4, <1>5, <1>7, <1>8, <1>9, <1>10 DEF Next, HostStep

-----------------------------------------------------------------------------
(***************************************************************************)
(* The ring of slots, and what the device makes of an address.             *)
(***************************************************************************)
\* Counting modulo the number of slots.
LEMMA Ring ==
  ASSUME NEW x \in Nat
  PROVE  /\ x % SLOTS \in 0..(SLOTS - 1) /\ 0 % SLOTS = 0
         /\ ((x % SLOTS) + 1) % SLOTS = (x + 1) % SLOTS
         /\ \A y \in Nat : x % SLOTS = y % SLOTS /\ x < y + SLOTS /\ y < x + SLOTS => x = y
<1> DEFINE L == SLOTS
<1>0. L \in Nat \ {0}
  BY SlotsAssumption
<1> HIDE DEF L
<1>1. x % L \in 0..(L - 1) /\ 0 % L = 0
  BY <1>0
<1> DEFINE q == x \div L
           r == x % L
<1>2. q \in Nat /\ r \in 0..(L - 1) /\ x = L * q + r
  BY <1>0
<1>3. ((x % L) + 1) % L = (x + 1) % L
  <2> HIDE DEF q, r
  <2>2. ASSUME NEW k \in Nat, NEW j \in 0..(L - 1) PROVE (L * k + j) % L = j
    BY <1>0
  <2>3. CASE r + 1 < L
    <3>1. x + 1 = L * q + (r + 1) /\ r + 1 \in 0..(L - 1)
      BY <1>0, <1>2, <2>3
    <3>2. (r + 1) % L = r + 1
      BY <1>0, <3>1
    <3> QED BY <1>2, <2>2, <3>1, <3>2 DEF r
  <2>4. CASE r + 1 = L
    <3>1. L * (q + 1) + 0 = L * q + L
      BY <1>0, <1>2
    <3>2. x + 1 = L * (q + 1) + 0 /\ 0 \in 0..(L - 1) /\ q + 1 \in Nat
      BY <1>0, <1>2, <2>4, <3>1
    <3>3. (r + 1) % L = 0
      BY <1>0, <2>4
    <3> QED BY <2>2, <3>2, <3>3 DEF r
  <2> QED BY <1>0, <1>2, <2>3, <2>4
<1>4. ASSUME NEW y \in Nat, x % L = y % L, x < y + L, y < x + L PROVE x = y
  <2> DEFINE p == y \div L
  <2>1. p \in Nat /\ y = L * p + r
    BY <1>0, <1>4
  <2> HIDE DEF p, q, r
  <2>2. p = q \/ p >= q + 1 \/ q >= p + 1
    BY <1>2, <2>1
  <2>3. CASE p >= q + 1
    <3>1. L * p >= L * (q + 1)
      BY <1>0, <1>2, <2>1, <2>3
    <3>2. L * (q + 1) = L * q + L
      BY <1>0, <1>2
    <3> QED BY <1>0, <1>2, <1>4, <2>1, <3>1, <3>2
  <2>4. CASE q >= p + 1
    <3>1. L * q >= L * (p + 1)
      BY <1>0, <1>2, <2>1, <2>4
    <3>2. L * (p + 1) = L * p + L
      BY <1>0, <2>1
    <3> QED BY <1>0, <1>2, <1>4, <2>1, <3>1, <3>2
  <2> QED BY <1>2, <2>1, <2>2, <2>3, <2>4
<1> QED BY <1>1, <1>3, <1>4 DEF L

\* Two descriptors less than SLOTS apart have different slots.
LEMMA SlotFacts ==
  ASSUME NEW k \in Nat \ {0}
  PROVE  /\ SlotOf(k) \in 0..(SLOTS - 1)
         /\ SlotOf(k + 1) = k % SLOTS
         /\ \A j \in Nat \ {0} :
              SlotOf(j) = SlotOf(k) /\ j < k + SLOTS /\ k < j + SLOTS => j = k
<1>1. k - 1 \in Nat /\ (k + 1) - 1 = k /\ SLOTS \in Nat
  BY SlotsAssumption
<1>2. SlotOf(k) \in 0..(SLOTS - 1)
  BY <1>1, Ring DEF SlotOf
<1>3. ASSUME NEW j \in Nat \ {0}, SlotOf(j) = SlotOf(k), j < k + SLOTS, k < j + SLOTS
      PROVE  j = k
  <2>1. j - 1 \in Nat /\ (j - 1) % SLOTS = (k - 1) % SLOTS
    BY <1>3 DEF SlotOf
  <2>2. (j - 1) < (k - 1) + SLOTS /\ (k - 1) < (j - 1) + SLOTS
    BY <1>1, <1>3
  <2>3. j - 1 = k - 1
    BY <1>1, <2>1, <2>2, Ring
  <2> QED BY <2>3
<1> QED BY <1>1, <1>2, <1>3 DEF SlotOf

\* The first address above the descriptor memory.
High == Desc!RSV_DESC_MEM_BASE + Desc!RSV_DESC_MEM_SIZE
Inside(k, a) == Chain[k].base <= a /\ a < Chain[k].base + 32 * Chain[k].beats

\* What is known of a descriptor.
LEMMA ChainFacts ==
  ASSUME DirectHost, NEW k \in 1..N
  PROVE  /\ Chain[k].word.info.type = {Chain[k].type} /\ Chain[k].type \in {"A", "B", "C"}
         /\ Chain[k].beats \in Nat /\ 1 <= Chain[k].beats /\ Chain[k].beats < CNT_RANGE
         /\ Chain[k].word.size = 32 * Chain[k].beats
         /\ Chain[k].base \in Nat /\ High <= Chain[k].base
         /\ Chain[k].base + 32 * Chain[k].beats < ADDR_SPACE
         /\ CNT_RANGE \in Nat /\ ADDR_SPACE \in Nat /\ N \in Nat
         /\ \A j \in 1..N, a \in Desc!Addr :
              Inside(k, a) /\ Inside(j, a) => ~(Chain[k].type = "A" /\ Chain[j].type = "B")
<1>1. CNT_RANGE \in Nat /\ ADDR_SPACE \in Nat /\ N \in Nat
  BY AddrAssumption DEF DirectHost
<1>2. \A j \in 1..N :
         /\ Chain[j].beats \in Nat /\ 1 <= Chain[j].beats /\ Chain[j].beats < CNT_RANGE
         /\ Chain[j].base \in Nat /\ High <= Chain[j].base
         /\ Chain[j].base + 32 * Chain[j].beats < ADDR_SPACE
  <2> SUFFICES ASSUME NEW j \in 1..N
               PROVE  /\ Chain[j].beats \in Nat /\ 1 <= Chain[j].beats /\ Chain[j].beats < CNT_RANGE
                      /\ Chain[j].base \in Nat /\ High <= Chain[j].base
                      /\ Chain[j].base + 32 * Chain[j].beats < ADDR_SPACE
    OBVIOUS
  <2>1. Chain[j].beats \in 1..(CNT_RANGE - 1)
    BY ChainAssumption
  <2>2. Chain[j].base \in Desc!Addr /\ High <= Chain[j].base
        /\ Chain[j].base + 32 * Chain[j].beats < ADDR_SPACE
    BY Zenon, <2>1 DEF DirectHost, High
  <2> QED BY <1>1, <2>1, <2>2 DEF Desc!Addr
<1>3. ASSUME NEW j \in 1..N, NEW a \in Desc!Addr, Inside(k, a), Inside(j, a),
             Chain[k].type = "A", Chain[j].type = "B"
      PROVE  FALSE
  <2>1. \/ Chain[k].base + 32 * Chain[k].beats <= Chain[j].base
        \/ Chain[j].base + 32 * Chain[j].beats <= Chain[k].base
    BY <1>3 DEF DirectHost
  <2> QED BY <1>2, <1>3, <2>1 DEF Inside, Desc!Addr
<1> QED BY <1>1, <1>2, <1>3, ChainAssumption DEF DirectHost

\* A slot that holds a descriptor matches the addresses of its operand.
LEMMA ContentMatch ==
  ASSUME DirectHost, NEW k \in 1..N, NEW i, slot[i] = Content(k), NEW a \in Desc!Addr
  PROVE  /\ slot[i].info.type = {Chain[k].type}
         /\ Desc!InOperand(i, a) <=> Inside(k, a)
<1>1. /\ slot[i].info = Chain[k].word.info /\ slot[i].size = 32 * Chain[k].beats
      /\ (IF slot[i].info.dst THEN slot[i].dst ELSE slot[i].src) = Chain[k].base
  BY ChainFacts DEF Content
<1>2. PICK b, z : b = Chain[k].base /\ z = 32 * Chain[k].beats
  OBVIOUS
<1>3. b \in Nat /\ z \in Nat /\ b + z < ADDR_SPACE /\ ADDR_SPACE \in Nat
  BY <1>2, ChainFacts
<1>4. (b + z) % ADDR_SPACE = b + z
  BY <1>3
<1>5. Desc!InOperand(i, a) <=> b <= a /\ a <= ((b + z) % ADDR_SPACE) - 1
  BY <1>1, <1>2, Zenon DEF Desc!InOperand
<1>6. a \in Int
  BY <1>3 DEF Desc!Addr
<1>7. Desc!InOperand(i, a) <=> b <= a /\ a < b + z
  BY <1>3, <1>4, <1>5, <1>6
<1> QED BY <1>1, <1>2, <1>7, ChainFacts, Zenon DEF Inside

\* An address matches a slot when it is inside a loaded operand.
LEMMA Matching ==
  ASSUME DirectHost, NEW g, SlotsMatch(g), g.rl \in Nat, g.ld \in 0..N,
         NEW type, NEW a \in Desc!Addr
  PROVE  Desc!Matches(type, a) <=>
           \E k \in (g.rl + 1)..g.ld : Chain[k].type = type /\ Inside(k, a)
<1>0. N \in Nat
  BY DEF DirectHost
<1>1. \A k \in (g.rl + 1)..g.ld :
        /\ k \in 1..N /\ SlotOf(k) \in 0..(SLOTS - 1) /\ slot[SlotOf(k)] = Content(k)
        /\ slot[SlotOf(k)].info.type = {Chain[k].type}
        /\ Desc!InOperand(SlotOf(k), a) <=> Inside(k, a)
  <2> SUFFICES ASSUME NEW k \in (g.rl + 1)..g.ld
               PROVE  /\ k \in 1..N /\ SlotOf(k) \in 0..(SLOTS - 1)
                      /\ slot[SlotOf(k)] = Content(k)
                      /\ slot[SlotOf(k)].info.type = {Chain[k].type}
                      /\ Desc!InOperand(SlotOf(k), a) <=> Inside(k, a)
    OBVIOUS
  <2>1. k \in 1..N /\ k \in Nat \ {0}
    BY <1>0
  <2>2. SlotOf(k) \in 0..(SLOTS - 1)
    BY <2>1, SlotFacts
  <2>3. slot[SlotOf(k)] = Content(k)
    BY DEF SlotsMatch
  <2> QED BY <2>1, <2>2, <2>3, ContentMatch
<1>2. ASSUME NEW s \in 0..(SLOTS - 1), type \in slot[s].info.type
      PROVE  \E k \in (g.rl + 1)..g.ld : SlotOf(k) = s
  <2> SUFFICES ASSUME \A k \in (g.rl + 1)..g.ld : SlotOf(k) # s PROVE FALSE
    OBVIOUS
  <2>1. slot[s] = Desc!EmptySlot
    BY DEF SlotsMatch
  <2> QED BY <1>2, <2>1 DEF Desc!EmptySlot, Desc!NoInfo
<1>3. ASSUME Desc!Matches(type, a)
      PROVE  \E k \in (g.rl + 1)..g.ld : Chain[k].type = type /\ Inside(k, a)
  <2>1. PICK s \in 0..(SLOTS - 1) : type \in slot[s].info.type /\ Desc!InOperand(s, a)
    BY <1>3 DEF Desc!Matches
  <2>2. PICK k \in (g.rl + 1)..g.ld : SlotOf(k) = s
    BY <1>2, <2>1
  <2> QED BY <1>1, <2>1, <2>2
<1>4. ASSUME NEW k \in (g.rl + 1)..g.ld, Chain[k].type = type, Inside(k, a)
      PROVE  Desc!Matches(type, a)
  BY <1>1, <1>4 DEF Desc!Matches
<1> QED BY <1>3, <1>4

\* No operand has a byte in the descriptor memory or below it, nor at an
\* address that means nothing.
LEMMA NoOperandThere ==
  ASSUME DirectHost, NEW g, SlotsMatch(g), g.rl \in Nat, g.ld \in 0..N,
         NEW a \in Desc!Addr, a < High \/ Foreign(a)
  PROVE  \A type : ~Desc!Matches(type, a)
<1> SUFFICES ASSUME NEW type, NEW k \in (g.rl + 1)..g.ld, Inside(k, a) PROVE FALSE
  BY Matching
<1>1. k \in 1..N /\ N \in Nat
  BY DEF DirectHost
<1>2. High <= Chain[k].base /\ Chain[k].base \in Nat /\ Chain[k].beats \in Nat
  BY <1>1, ChainFacts
<1>3. a \in Int /\ High \in Int
  BY ChainFacts, <1>1 DEF Desc!Addr, High, Desc!RSV_DESC_MEM_BASE, Desc!RSV_DESC_MEM_SIZE
<1> QED BY <1>1, <1>2, <1>3 DEF Inside, Foreign

-----------------------------------------------------------------------------
(***************************************************************************)
(* What the invariant says of a state.                                     *)
(***************************************************************************)
\* The ranges of the numbers that the invariant speaks of.
LEMMA Numbers ==
  ASSUME DirectHost, NEW g \in Ghost, Types, Bounds(g)
  PROVE  /\ N \in Nat /\ SLOTS \in Nat /\ SLOTS > 0 /\ LATENCY \in Nat /\ SETTLE \in Nat
         /\ SETTLE >= LATENCY + 5 /\ Len(Setup) \in Nat /\ Len(Setup) >= 2
         /\ g.ld \in 0..N /\ g.rl \in 0..N /\ g.pres \in Nat /\ g.rho \in 0..5
         /\ cur \in 0..N /\ cleared \in 0..N /\ fetched \in 0..N /\ beats \in Nat
         /\ idle \in 0..SETTLE /\ setup \in 0..Len(Setup)
         /\ g.rl <= cleared /\ cleared <= cur /\ cur <= g.ld /\ g.ld <= fetched
<1>1. N \in Nat /\ SLOTS \in Nat /\ SLOTS > 0
  BY SlotsAssumption DEF DirectHost
<1> QED BY <1>1 DEF DirectHost, Types, Bounds, Ghost

\* Positions are natural numbers.
LEMMA PosRange ==
  ASSUME P!Inv
  PROVE  \A i \in Pos : i \in Nat /\ (i > 0 => i \in 1..Len(rw_queue))
  BY DEF P!Inv, P!TypeOK, Pos

\* A host that has let the device settle has nothing pending.
LEMMA Quiescent ==
  ASSUME DirectHost, NEW g \in Ghost, DInv(g), Settled
  PROVE  /\ Pending = {} /\ ~HPC_clear_sig
         /\ ~Clearing /\ Writing(Desc!AIM_WORK_SIG) = {} /\ Writing(Desc!HPC_CLR_SIG) = {}
         /\ setup = 0 => Members("status") = {}
         /\ cur = 0 \/ ~Awaits(BeatOf(cur)) => Members("beat") = {}
         /\ g.rho <= 1
         /\ ~Awaits(DescOf(cur + 1)) /\ (cur = 0 \/ ~Awaits(BeatOf(cur))) =>
              \A i \in Members("descriptor") : TagAt(i).k # cur + 1
<1>1. /\ P!Inv /\ Types /\ Bounds(g) /\ Control /\ Tags /\ Timing /\ Awaited
      /\ BeatsCurrent /\ Sequencer(g)
  BY DEF DInv, Streams
<1>2. /\ LATENCY \in Nat /\ SETTLE \in Nat /\ SETTLE >= LATENCY + 5 /\ idle \in Nat
      /\ g.rho \in 0..5 /\ idle >= SETTLE /\ cur \in Nat
  BY <1>1, Numbers DEF Settled
<1>3. \A i \in Pos : i \in Nat /\ (i > 0 => i \in 1..Len(rw_queue))
  BY <1>1, PosRange
<1>4. Pending = {}
  <2> SUFFICES ASSUME NEW i \in Pending PROVE FALSE
    OBVIOUS
  <2>1. idle + i <= LATENCY + 1
    BY <1>1 DEF Timing, PendingTimed
  <2>2. i \in Nat
    BY <1>3 DEF Pending
  <2> QED BY <1>2, <2>1, <2>2
<1>5. Writing(Desc!AIM_WORK_SIG) = {} /\ Writing(Desc!HPC_CLR_SIG) = {}
  BY <1>4 DEF Pending, Writing
<1>6. ~HPC_clear_sig
  BY <1>1, <1>2 DEF Control
<1>7. setup = 0 => Members("status") = {}
  BY <1>1, <1>4, MemberTags DEF Pending
<1>8. ASSUME NEW i \in Members("beat"), cur = 0 \/ ~Awaits(BeatOf(cur)) PROVE FALSE
  <2>1. /\ i \in Pos /\ Ent(i).rd /\ cur > 0 /\ TagAt(i).k = cur
        /\ TagAt(i).want \in {"A", "B"}
    BY <1>1, MemberTags DEF BeatsCurrent, Operand
  <2>2. CASE Unanswered(i)
    <3>1. i > 0 /\ i \in 1..Len(rw_queue)
      BY <1>3, <2>1, <2>2 DEF Unanswered
    <3>2. Turn(i) \in 1..Len(awaiting)
      BY <1>1, <2>2, <3>1, TurnFacts DEF Awaited
    <3>3. awaiting[Turn(i)] \in BeatOf(cur)
      <4>1. awaiting[Turn(i)] = [want |-> TagAt(i).want, k |-> TagAt(i).k]
        BY <1>1, <2>1, <2>2 DEF Awaited
      <4>2. [want |-> TagAt(i).want, k |-> TagAt(i).k] \in BeatOf(cur)
        BY <2>1 DEF BeatOf
      <4> QED BY <4>1, <4>2, Zenon
    <3> QED BY <1>2, <1>8, <2>1, <3>2, <3>3 DEF Awaits
  <2>3. CASE ~Unanswered(i)
    <3>1. idle + i <= LATENCY
      BY <1>1, <2>3 DEF Timing, BeatsTimed
    <3> QED BY <1>2, <1>3, <2>1, <3>1
  <2> QED BY <2>2, <2>3
<1>9. g.rho <= 1
  BY <1>1, <1>2 DEF Sequencer
<1>10. ASSUME NEW i \in Members("descriptor"), TagAt(i).k = cur + 1,
              ~Awaits(DescOf(cur + 1)), cur = 0 \/ ~Awaits(BeatOf(cur))
       PROVE  FALSE
  <2>1. i \in Pos /\ Ent(i).rd /\ TagAt(i).want = "descriptor"
    BY <1>1, MemberTags
  <2>2. CASE Unanswered(i)
    <3>1. i > 0 /\ i \in 1..Len(rw_queue)
      BY <1>3, <2>1, <2>2 DEF Unanswered
    <3>2. Turn(i) \in 1..Len(awaiting)
      BY <1>1, <2>2, <3>1, TurnFacts DEF Awaited
    <3>3. awaiting[Turn(i)] \in DescOf(cur + 1)
      <4>1. awaiting[Turn(i)] = [want |-> TagAt(i).want, k |-> TagAt(i).k]
        BY <1>1, <2>1, <2>2 DEF Awaited
      <4>2. [want |-> TagAt(i).want, k |-> TagAt(i).k] \in DescOf(cur + 1)
        BY <1>10, <2>1 DEF DescOf
      <4> QED BY <4>1, <4>2, Zenon
    <3> QED BY <1>10, <3>2, <3>3 DEF Awaits
  <2>3. CASE ~Unanswered(i)
    <3>1. idle + i <= LATENCY + 1
      BY <1>1, <1>2, <1>10, <2>3 DEF Timing, DescriptorsTimed
    <3> QED BY <1>2, <1>3, <2>1, <3>1
  <2> QED BY <2>2, <2>3
<1>11. \A i \in Members("beat") : ~(cur = 0 \/ ~Awaits(BeatOf(cur)))
  BY <1>8
<1> QED BY <1>4, <1>5, <1>6, <1>7, <1>9, <1>10, <1>11 DEF Clearing

\* The first beat of an operand comes when its descriptor is in its slot and
\* all beats of the one before are presented.
LEMMA StartsReady ==
  ASSUME DirectHost, NEW g \in Ghost, DInv(g), NEW bus, Starts(bus)
  PROVE  /\ cur + 1 \in 1..N /\ cur + 1 <= g.ld /\ g.rl < cur + 1
         /\ Members("beat") = {} /\ ~Clearing /\ g.rho <= 1 /\ Presented(g) = cur
         /\ ~HPC_clear_sig
<1>1. /\ P!Inv /\ Types /\ Bounds(g) /\ Tags /\ Streams(g)
  BY DEF DInv
<1>2. /\ g.ld \in 0..N /\ g.rl \in 0..N /\ cur \in 0..N /\ fetched \in 0..N /\ N \in Nat
      /\ g.rl <= cleared /\ cleared <= cur /\ cleared \in 0..N /\ cur <= g.ld /\ g.ld <= fetched
      /\ g.pres \in Nat /\ beats \in Nat
  BY <1>1, Numbers
<1>3. /\ Settled /\ cur < fetched /\ ~Awaits(DescOf(cur + 1)) /\ (cur > 0 => Streamed)
  BY DEF Starts
<1>4. cur = 0 \/ ~Awaits(BeatOf(cur))
  BY <1>2, <1>3 DEF Streamed
<1>5. /\ Members("beat") = {} /\ ~Clearing /\ g.rho <= 1 /\ ~HPC_clear_sig
      /\ \A i \in Members("descriptor") : TagAt(i).k # cur + 1
  BY <1>3, <1>4, Quiescent
<1>6. cur + 1 <= g.ld
  <2> SUFFICES ASSUME g.ld = cur PROVE FALSE
    BY <1>2
  <2>1. cur + 1 \in (g.ld + 1)..fetched
    BY <1>2, <1>3
  <2>2. PICK i \in Members("descriptor") : Num(TagAt(i)) = cur + 1
    BY <1>1, <2>1 DEF Streams, Run
  <2>3. TagAt(i).want = "descriptor"
    BY <1>1, MemberTags
  <2>4. Num(TagAt(i)) = TagAt(i).k
    BY <2>3 DEF Num, Operand
  <2> QED BY <1>5, <2>2, <2>4
<1>7. Presented(g) = cur
  <2>1. CASE cur = 0
    BY <2>1 DEF Presented
  <2>2. CASE cur > 0
    <3>1. beats = Chain[cur].beats
      BY <1>3, <2>2 DEF Streamed
    <3>2. g.pres = beats
      <4>1. g.pres <= beats
        BY <1>1 DEF Bounds
      <4>2. ~(g.pres < beats)
        <5> SUFFICES ASSUME g.pres < beats PROVE FALSE
          OBVIOUS
        <5>1. beats \in (g.pres + 1)..beats
          BY <1>2
        <5>2. \E i \in Members("beat") : Num(TagAt(i)) = beats
          BY <1>1, <5>1 DEF Streams, Run
        <5> QED BY <1>5, <5>2
      <4> QED BY <1>2, <4>1, <4>2
    <3> QED BY <2>2, <3>1, <3>2 DEF Presented
  <2> QED BY <1>2, <2>1, <2>2
<1> QED BY <1>2, <1>3, <1>5, <1>6, <1>7

\* A further beat comes while its descriptor is in its slot.
LEMMA ContinuesReady ==
  ASSUME DirectHost, NEW g \in Ghost, DInv(g), NEW bus, Continues(bus)
  PROVE  /\ cur \in 1..N /\ cur <= g.ld /\ g.rl < cur /\ g.pres < Chain[cur].beats
         /\ beats \in 1..(Chain[cur].beats - 1) /\ cleared < cur
         /\ Presented(g) = cur - 1
<1>1. Types /\ Bounds(g)
  BY DEF DInv
<1>2. /\ g.ld \in 0..N /\ g.rl \in 0..N /\ cur \in 0..N /\ N \in Nat
      /\ g.rl <= cleared /\ cleared <= cur /\ cleared \in 0..N /\ cur <= g.ld /\ beats \in Nat
      /\ g.pres \in Nat
  BY <1>1, Numbers
<1>3. cur > 0 /\ beats < Chain[cur].beats
  BY DEF Continues
<1>4. Chain[cur].beats \in Nat
  BY <1>2, <1>3, ChainFacts
<1>5. g.pres <= beats /\ beats \in 1..Chain[cur].beats
  BY <1>1, <1>3 DEF Bounds
<1>6. g.rl # cur /\ cleared # cur
  BY <1>1, <1>2, <1>3, <1>4, <1>5 DEF Bounds
<1>7. Presented(g) = cur - 1
  BY <1>2, <1>3, <1>4, <1>5 DEF Presented
<1> QED BY <1>2, <1>3, <1>4, <1>5, <1>6, <1>7

\* The next status word is that of an operand that has been streamed.
LEMMA ReportsReady ==
  ASSUME DirectHost, NEW g \in Ghost, DInv(g), NEW bus, Reports(bus)
  PROVE  /\ cleared + 1 \in 1..cur /\ cur \in 1..N
         /\ cleared + 1 = cur => beats = Chain[cur].beats /\ ~Awaits(BeatOf(cur))
<1>1. Types /\ Bounds(g)
  BY DEF DInv
<1>2. /\ cur \in 0..N /\ N \in Nat /\ cleared <= cur /\ cleared \in 0..N
  BY <1>1, Numbers
<1>3. cleared < Finished
  BY DEF Reports
<1>4. cur > 0
  BY <1>2, <1>3 DEF Finished
<1>5. CASE Streamed
  BY <1>2, <1>3, <1>4, <1>5 DEF Finished, Streamed
<1>6. CASE ~Streamed
  BY <1>2, <1>3, <1>4, <1>6 DEF Finished
<1> QED BY <1>5, <1>6

-----------------------------------------------------------------------------
(***************************************************************************)
(* The device takes a command for what the host means it to be.            *)
(***************************************************************************)
\* The tags of the command on the bus.
Means(bus, incr, clr, A, B, C) ==
  /\ Desc!is_desc_range_incr(bus) = incr /\ Desc!is_desc_clr(bus) = clr
  /\ Desc!srcA_pass(bus) = A /\ Desc!srcB_pass(bus) = B /\ Desc!dstC_pass(bus) = C

\* The descriptors' addresses, below High, against the control addresses.
LEMMA DescriptorMemory ==
  ASSUME DirectHost
  PROVE  /\ High \in Nat /\ High <= ADDR_SPACE
         /\ \A a \in Nat : a >= High => ~Desc!InDescRange(a)
         /\ Desc!AIM_WORK_SIG < High /\ Desc!HPC_CLR_SIG < High
         /\ ~Desc!InDescRange(Desc!AIM_WORK_SIG) /\ ~Desc!InDescRange(Desc!HPC_CLR_SIG)
         /\ \A k \in 1..N : /\ DescAddr(k) \in Nat /\ DescAddr(k) < High
                            /\ Desc!InDescRange(DescAddr(k))
                            /\ DescAddr(k) % Desc!DESC_STRIDE = 0
                            /\ DescAddr(k) + Desc!STATUS_WORD < High
                            /\ Desc!InDescRange(DescAddr(k) + Desc!STATUS_WORD)
                            /\ (DescAddr(k) + Desc!STATUS_WORD) % Desc!DESC_STRIDE
                                 = Desc!STATUS_WORD
         /\ DescAddr(1) = Desc!RSV_DESC_MEM_BASE
<1>1. N \in Nat /\ 64 * (N + 1) <= 8388608 /\ ADDR_SPACE \in Nat /\ ADDR_SPACE > 16777216
  BY SMT, AddrAssumption DEF DirectHost, Desc!RSV_DESC_MEM_SIZE
<1>2. /\ High \in Nat /\ High <= ADDR_SPACE
      /\ \A a \in Nat : a >= High => ~Desc!InDescRange(a)
      /\ Desc!AIM_WORK_SIG < High /\ Desc!HPC_CLR_SIG < High
      /\ ~Desc!InDescRange(Desc!AIM_WORK_SIG) /\ ~Desc!InDescRange(Desc!HPC_CLR_SIG)
      /\ DescAddr(1) = Desc!RSV_DESC_MEM_BASE
  BY SMT, <1>1 DEF High, Desc!InDescRange, Desc!RSV_DESC_MEM_BASE, Desc!RSV_DESC_MEM_SIZE,
     Desc!AIM_WORK_SIG, Desc!HPC_CLR_SIG, DescAddr, Desc!DESC_STRIDE
<1>3. ASSUME NEW k \in 1..N
      PROVE  /\ DescAddr(k) \in Nat /\ DescAddr(k) < High
             /\ Desc!InDescRange(DescAddr(k))
             /\ DescAddr(k) + Desc!STATUS_WORD < High
             /\ Desc!InDescRange(DescAddr(k) + Desc!STATUS_WORD)
  BY SMT, <1>1 DEF High, Desc!InDescRange, Desc!RSV_DESC_MEM_BASE, Desc!RSV_DESC_MEM_SIZE,
     DescAddr, Desc!DESC_STRIDE, Desc!STATUS_WORD
<1>4. ASSUME NEW k \in 1..N
      PROVE  /\ DescAddr(k) % Desc!DESC_STRIDE = 0
             /\ (DescAddr(k) + Desc!STATUS_WORD) % Desc!DESC_STRIDE = Desc!STATUS_WORD
  <2>1. \A m \in Nat : (8388608 + m * 64) % 64 = 0 /\ (8388608 + m * 64 + 28) % 64 = 28
    BY SMT
  <2>2. k - 1 \in Nat
    BY <1>1
  <2> QED BY SMT, <2>1, <2>2 DEF DescAddr, Desc!RSV_DESC_MEM_BASE, Desc!DESC_STRIDE,
        Desc!STATUS_WORD
<1> QED BY <1>2, <1>3, <1>4, Zenon

\* A device that a session has opened is on.
LEMMA OnWhenOpen ==
  ASSUME DirectHost, NEW g \in Ghost, DInv(g), Open
  PROVE  AIM_working /\ setup >= 2 /\ setup # 0 /\ setup # 1
         /\ Writing(Desc!AIM_WORK_SIG) = {} /\ (fetched > 0 => ~Clearing)
<1>1. Types /\ Bounds(g) /\ Control
  BY DEF DInv
<1>2. setup >= 2 /\ setup \in Nat
  BY <1>1, Numbers DEF Open
<1>3. Writing(Desc!AIM_WORK_SIG) = {}
  BY <1>1, <1>2 DEF Control
<1>4. AIM_working
  BY <1>1, <1>2, <1>3 DEF Control
<1>5. fetched > 0 => ~Clearing
  BY <1>1 DEF Control
<1> QED BY <1>2, <1>3, <1>4, <1>5

\* An access outside the protocol gets no tag.
LEMMA QuietMeans ==
  ASSUME DirectHost, NEW g \in Ghost, DInv(g), NEW bus \in Bus,
         \/ Foreign(bus.addr)
         \/ bus.addr \in {Desc!AIM_WORK_SIG, Desc!HPC_CLR_SIG}
  PROVE  Means(bus, FALSE, FALSE, FALSE, FALSE, FALSE)
<1>1. Types /\ Bounds(g) /\ SlotsMatch(g) /\ bus.addr \in Desc!Addr
  BY DEF DInv, Bus
<1>2. g.rl \in Nat /\ g.ld \in 0..N
  BY <1>1, Numbers
<1>3. ~Desc!InDescRange(bus.addr) /\ (bus.addr < High \/ Foreign(bus.addr))
  BY DescriptorMemory DEF Foreign
<1>4. \A type : ~Desc!Matches(type, bus.addr)
  BY <1>1, <1>2, <1>3, NoOperandThere
<1> QED BY <1>3, <1>4 DEF Means, Desc!is_desc_range_incr, Desc!is_desc_clr,
      Desc!srcA_pass, Desc!srcB_pass, Desc!dstC_pass

\* The read of a descriptor is tagged as the next one.
LEMMA FetchMeans ==
  ASSUME DirectHost, NEW g \in Ghost, DInv(g), NEW bus \in Bus, Fetches(bus)
  PROVE  Means(bus, TRUE, FALSE, FALSE, FALSE, FALSE)
<1>1. Types /\ Bounds(g) /\ SlotsMatch(g) /\ Rings(g) /\ bus.addr \in Desc!Addr
  BY DEF DInv, Bus
<1>2. g.rl \in Nat /\ g.ld \in 0..N /\ fetched \in 0..N /\ N \in Nat
  BY <1>1, Numbers
<1>3. /\ Open /\ fetched < N /\ bus.rd /\ ~bus.wr /\ bus.addr = DescAddr(fetched + 1)
  BY DEF Fetches
<1>4. /\ bus.addr < High /\ Desc!InDescRange(bus.addr)
      /\ bus.addr % Desc!DESC_STRIDE = 0
  <2>1. fetched + 1 \in 1..N
    BY <1>2, <1>3
  <2> QED BY <1>3, <2>1, DescriptorMemory
<1>5. \A type : ~Desc!Matches(type, bus.addr)
  BY <1>1, <1>2, <1>4, NoOperandThere
<1>6. AIM_working /\ setup >= 2 /\ setup # 0 /\ (fetched > 0 => ~Clearing)
  BY <1>3, OnWhenOpen
<1>7. Desc!desc_incr_enable(bus.addr)
  <2>1. CASE fetched = 0
    <3>1. bus.addr = Desc!RSV_DESC_MEM_BASE
      BY <1>3, <2>1, DescriptorMemory
    <3> QED BY <3>1 DEF Desc!desc_incr_enable
  <2>2. CASE fetched # 0
    <3>1. ~Clearing
      BY <1>2, <1>6, <2>2
    <3>2. Ready /\ setup # 0
      BY <1>6, <3>1 DEF Ready
    <3>3. next_desc_addr = DescAddr(IF fetched = 0 THEN 2 ELSE fetched + 1)
      BY <1>1, <3>2, Zenon DEF Rings
    <3>4. next_desc_addr = DescAddr(fetched + 1)
      BY <2>2, <3>3, Zenon
    <3> QED BY <1>3, <3>4, Zenon DEF Desc!desc_incr_enable
  <2> QED BY <2>1, <2>2
<1> QED BY <1>3, <1>4, <1>5, <1>6, <1>7 DEF Means, Desc!is_desc_range_incr,
      Desc!is_desc_clr, Desc!srcA_pass, Desc!srcB_pass, Desc!dstC_pass

\* A status word is tagged as releasing a slot, and nothing else.
LEMMA ReportMeans ==
  ASSUME DirectHost, NEW g \in Ghost, DInv(g), NEW bus \in Bus, Reports(bus)
  PROVE  Means(bus, FALSE, TRUE, FALSE, FALSE, FALSE) /\ Desc!InDescRange(bus.addr)
<1>1. Types /\ Bounds(g) /\ SlotsMatch(g) /\ bus.addr \in Desc!Addr
  BY DEF DInv, Bus
<1>2. g.rl \in Nat /\ g.ld \in 0..N /\ cur \in 0..N /\ N \in Nat
  BY <1>1, Numbers
<1>3. /\ Open /\ bus.wr /\ ~bus.rd
      /\ bus.addr = DescAddr(cleared + 1) + Desc!STATUS_WORD
  BY DEF Reports
<1>4. /\ bus.addr < High /\ Desc!InDescRange(bus.addr)
      /\ bus.addr % Desc!DESC_STRIDE = Desc!STATUS_WORD
  <2>1. cleared + 1 \in 1..cur /\ cur \in 1..N
    BY ReportsReady
  <2>2. cleared + 1 \in 1..N
    BY <1>2, <2>1
  <2> QED BY <1>3, <2>2, DescriptorMemory
<1>5. \A type : ~Desc!Matches(type, bus.addr)
  BY <1>1, <1>2, <1>4, NoOperandThere
<1>6. AIM_working
  BY <1>3, OnWhenOpen
<1> QED BY <1>3, <1>4, <1>5, <1>6 DEF Means, Desc!is_desc_range_incr,
      Desc!is_desc_clr, Desc!srcA_pass, Desc!srcB_pass, Desc!dstC_pass

\* A beat gets the tag of its operand's type, and only that one.
LEMMA BeatMeans ==
  ASSUME DirectHost, NEW g \in Ghost, DInv(g), NEW bus \in Bus,
         NEW k \in (g.rl + 1)..g.ld, NEW b \in Nat, Streaming(bus, k, b)
  PROVE  Means(bus, FALSE, FALSE, Chain[k].type = "A", Chain[k].type = "B",
               Chain[k].type = "C")
<1>1. Types /\ Bounds(g) /\ SlotsMatch(g) /\ bus.addr \in Desc!Addr
      /\ bus.rd \in BOOLEAN /\ bus.wr \in BOOLEAN
  BY DEF DInv, Bus
<1>2. g.rl \in Nat /\ g.ld \in 0..N /\ N \in Nat /\ k \in 1..N
  <2>1. g.rl \in 0..N /\ g.ld \in 0..N /\ N \in Nat
    BY <1>1, Numbers
  <2> QED BY <2>1
<1>3. /\ b \in 0..(Chain[k].beats - 1) /\ bus.addr = Chain[k].base + 32 * b
      /\ bus.wr = ~bus.rd /\ bus.rd = (Chain[k].type # "C")
  BY DEF Streaming
<1>4. Inside(k, bus.addr) /\ bus.addr >= High /\ bus.addr \in Nat
  <2>1. /\ Chain[k].beats \in Nat /\ Chain[k].base \in Nat /\ High <= Chain[k].base
        /\ High \in Nat
    BY <1>2, ChainFacts, DescriptorMemory
  <2> QED BY <1>3, <2>1 DEF Inside
<1>5. ~Desc!InDescRange(bus.addr)
  BY <1>4, DescriptorMemory
<1>6. Desc!Matches(Chain[k].type, bus.addr)
  BY <1>1, <1>2, <1>4, Matching
<1>7. Chain[k].type \in {"A", "B", "C"}
  BY <1>2, ChainFacts
<1>8. Chain[k].type = "A" => ~Desc!Matches("B", bus.addr)
  <2> SUFFICES ASSUME Chain[k].type = "A", NEW j \in (g.rl + 1)..g.ld,
                      Chain[j].type = "B", Inside(j, bus.addr)
               PROVE  FALSE
    BY <1>1, <1>2, Matching
  <2>1. j \in 1..N
    BY <1>2
  <2> QED BY <1>1, <1>2, <1>4, <2>1, ChainFacts
<1>9. Chain[k].type = "B" => ~Desc!Matches("A", bus.addr)
  <2> SUFFICES ASSUME Chain[k].type = "B", NEW j \in (g.rl + 1)..g.ld,
                      Chain[j].type = "A", Inside(j, bus.addr)
               PROVE  FALSE
    BY <1>1, <1>2, Matching
  <2>1. j \in 1..N
    BY <1>2
  <2>2. ~(Chain[j].type = "A" /\ Chain[k].type = "B")
    BY <1>1, <1>2, <1>4, <2>1, ChainFacts
  <2> QED BY <2>2
<1>10. /\ Desc!is_desc_range_incr(bus) = FALSE /\ Desc!is_desc_clr(bus) = FALSE
  BY <1>5 DEF Desc!is_desc_range_incr, Desc!is_desc_clr
<1>11. CASE Chain[k].type = "A"
  <2>1. bus.rd = TRUE /\ bus.wr = FALSE /\ Desc!Matches("A", bus.addr)
        /\ ~Desc!Matches("B", bus.addr)
    BY <1>3, <1>6, <1>8, <1>11
  <2> QED BY <1>10, <1>11, <2>1 DEF Means, Desc!srcA_pass, Desc!srcB_pass, Desc!dstC_pass
<1>12. CASE Chain[k].type = "B"
  <2>1. bus.rd = TRUE /\ bus.wr = FALSE /\ Desc!Matches("B", bus.addr)
        /\ ~Desc!Matches("A", bus.addr)
    BY <1>3, <1>6, <1>9, <1>12
  <2> QED BY <1>10, <1>12, <2>1 DEF Means, Desc!srcA_pass, Desc!srcB_pass, Desc!dstC_pass
<1>13. CASE Chain[k].type = "C"
  <2>1. bus.rd = FALSE /\ bus.wr = TRUE /\ Desc!Matches("C", bus.addr)
    BY <1>3, <1>6, <1>13
  <2> QED BY <1>10, <1>13, <2>1 DEF Means, Desc!srcA_pass, Desc!srcB_pass, Desc!dstC_pass
<1> QED BY <1>7, <1>11, <1>12, <1>13

\* What the device makes of the command on the bus.
Understood(bus) ==
  /\ Held(bus) <=> bus.want = "C"
  /\ Held(bus) => bus.wr /\ ~bus.rd /\ High <= bus.addr
  /\ Command(bus) # <<>> <=> (bus.rd \/ bus.wr) /\ bus.want # "C"
  /\ Command(bus) # <<>> =>
       /\ Command(bus) = <<[rd |-> bus.rd, tag |-> TagOf(bus)]>>
       /\ Exact([rd |-> bus.rd, tag |-> TagOf(bus)])

\* Tags that say what the host means are understood.
LEMMA MeansUnderstood ==
  ASSUME NEW bus \in Bus, ~(bus.rd /\ bus.wr), NEW want \in Want, bus.want = want,
         Means(bus, want = "descriptor", want = "status", want = "A", want = "B",
               want = "C"),
         want = "C" => High <= bus.addr,
         want = "status" => Desc!InDescRange(bus.addr)
  PROVE  Understood(bus)
<1>1. bus.rd \in BOOLEAN /\ bus.wr \in BOOLEAN
  BY DEF Bus
<1>2. /\ Desc!is_desc_range_incr(bus) <=> want = "descriptor"
      /\ Desc!is_desc_clr(bus) <=> want = "status"
      /\ Desc!srcA_pass(bus) <=> want = "A" 
      /\ Desc!srcB_pass(bus) <=> want = "B"
      /\ Desc!dstC_pass(bus) <=> want = "C"
  BY DEF Means
<1>3. /\ want \in {"A", "B", "descriptor"} => bus.rd
      /\ want \in {"status", "C"} => bus.wr
  BY <1>2 DEF Desc!is_desc_range_incr, Desc!is_desc_clr, Desc!srcA_pass, Desc!srcB_pass,
       Desc!dstC_pass
<1>4. /\ TagOf(bus).addr = bus.addr /\ TagOf(bus).want = want
      /\ TagOf(bus).incr <=> want = "descriptor"
      /\ TagOf(bus).clr <=> want = "status"
      /\ TagOf(bus).A <=> want = "A" 
      /\ TagOf(bus).B <=> want = "B"
      /\ ~TagOf(bus).C
  BY <1>2 DEF TagOf, Desc!Tags
<1>5. PICK t : t = TagOf(bus)
  OBVIOUS
<1>6. want # "C" => Exact([rd |-> bus.rd, tag |-> t])
  BY <1>1, <1>3, <1>4, <1>5 DEF Exact
<1>7. Command(bus) = IF bus.rd \/ (bus.wr /\ want # "C") THEN <<[rd |-> bus.rd, tag |-> t]>>
                     ELSE <<>>
  BY <1>2, <1>5 DEF Command
<1>8. Command(bus) # <<>> <=> (bus.rd \/ bus.wr) /\ want # "C"
  BY <1>1, <1>3, <1>7
<1>9. Command(bus) # <<>> => Command(bus) = <<[rd |-> bus.rd, tag |-> t]>>
  BY <1>7
<1> QED BY <1>1, <1>2, <1>3, <1>5, <1>6, <1>8, <1>9 DEF Understood, Held

\* Whatever the host does, the device understands it.
LEMMA KindsUnderstood ==
  ASSUME DirectHost, NEW g \in Ghost, DInv(g), NEW bus \in Bus, ~(bus.rd /\ bus.wr),
         Kinds(bus)
  PROVE  Understood(bus)
<1>1. Types /\ Bounds(g)
  BY DEF DInv
<1>2. g.ld \in 0..N /\ g.rl \in 0..N /\ cur \in 0..N /\ N \in Nat /\ beats \in Nat
  BY <1>1, Numbers
<1>3. CASE Quiet(bus) \/ SwitchOn(bus) \/ Clears(bus) \/ SwitchOff(bus)
  <2>1. bus.want = "other"
    BY <1>3 DEF Quiet, SwitchOn, Clears, SwitchOff, Controls
  <2>2. Means(bus, FALSE, FALSE, FALSE, FALSE, FALSE)
    BY <1>3, QuietMeans DEF Quiet, SwitchOn, Clears, SwitchOff, Controls
  <2>3. Means(bus, "other" = "descriptor", "other" = "status", "other" = "A",
              "other" = "B", "other" = "C")
    BY <2>2 DEF Means
  <2> QED BY <2>1, <2>3, MeansUnderstood DEF Want
<1>4. CASE Fetches(bus)
  <2>1. bus.want = "descriptor"
    BY <1>4 DEF Fetches
  <2>2. Means(bus, TRUE, FALSE, FALSE, FALSE, FALSE)
    BY <1>4, FetchMeans
  <2>3. Means(bus, "descriptor" = "descriptor", "descriptor" = "status",
              "descriptor" = "A", "descriptor" = "B", "descriptor" = "C")
    BY <2>2 DEF Means
  <2> QED BY <2>1, <2>3, MeansUnderstood DEF Want
<1>5. CASE Reports(bus)
  <2>1. bus.want = "status"
    BY <1>5 DEF Reports
  <2>2. Means(bus, FALSE, TRUE, FALSE, FALSE, FALSE) /\ Desc!InDescRange(bus.addr)
    BY <1>5, ReportMeans
  <2>3. Means(bus, "status" = "descriptor", "status" = "status",
              "status" = "A", "status" = "B", "status" = "C")
    BY <2>2 DEF Means
  <2> QED BY <2>1, <2>2, <2>3, MeansUnderstood DEF Want
<1>6. ASSUME NEW k \in (g.rl + 1)..g.ld, NEW b \in Nat, Streaming(bus, k, b)
      PROVE  Understood(bus)
  <2>1. bus.want = Chain[k].type /\ k \in 1..N
    BY <1>2, <1>6 DEF Streaming
  <2>2. Means(bus, FALSE, FALSE, Chain[k].type = "A", Chain[k].type = "B",
               Chain[k].type = "C")
    BY <1>6, BeatMeans
  <2>3. PICK w : w = Chain[k].type
    OBVIOUS
  <2>4. w \in {"A", "B", "C"}
    BY <2>1, <2>3, ChainFacts
  <2>5. Means(bus, w = "descriptor", w = "status", w = "A", w = "B", w = "C")
    BY <2>2, <2>3, <2>4 DEF Means
  <2>6. High <= bus.addr
    <3>1. /\ Chain[k].beats \in Nat /\ Chain[k].base \in Nat /\ High <= Chain[k].base
          /\ High \in Nat
      BY <2>1, ChainFacts, DescriptorMemory
    <3>2. bus.addr = Chain[k].base + 32 * b
      BY <1>6 DEF Streaming
    <3> QED BY <3>1, <3>2
  <2> QED BY <2>1, <2>3, <2>4, <2>5, <2>6, MeansUnderstood DEF Want
<1>7. CASE Starts(bus)
  <2>1. cur + 1 <= g.ld /\ g.rl < cur + 1
    BY <1>7, StartsReady
  <2>2. cur + 1 \in (g.rl + 1)..g.ld
    BY <1>2, <2>1
  <2> QED BY <1>6, <1>7, <2>2 DEF Starts
<1>8. CASE Continues(bus)
  <2>1. cur <= g.ld /\ g.rl < cur
    BY <1>8, ContinuesReady
  <2>2. cur \in (g.rl + 1)..g.ld
    BY <1>2, <2>1
  <2> QED BY <1>2, <1>6, <1>8, <2>2 DEF Continues
<1> QED BY <1>3, <1>4, <1>5, <1>7, <1>8 DEF Kinds

-----------------------------------------------------------------------------
(***************************************************************************)
(* One cycle: what moves, and what joins.                                  *)
(***************************************************************************)
\* What all steps of the host have in common.
Tick(bus, s, held, new, n, r) ==
  /\ held = Held(bus) /\ new = Command(bus)
  /\ Moves(s, held, new, n) /\ Answers(s, held, new, n, r)
  /\ Keeps(s, held, new, n, bus.data) /\ AwaitingMoves(bus, r)
  /\ Kinds(bus) /\ Understood(bus) /\ Waits(held) /\ Heard(r) /\ P!Inv'
  /\ idle' = idle + 1 => ~Settled

\* What a command that joins is.
Joining(bus, new) ==
  /\ Joins(new, "descriptor") <=> bus.want = "descriptor"
  /\ Joins(new, "status") <=> bus.want = "status"
  /\ Joins(new, "beat") <=> bus.want \in Operand
  /\ new # <<>> => /\ new[1].rd = bus.rd /\ new[1].tag = TagOf(bus)
                   /\ TagOf(bus).want = bus.want /\ TagOf(bus).k = bus.k
                   /\ TagOf(bus).addr = bus.addr
                   /\ Exact(new[1])

\* What joins the queue is numbered as the host's step says.
LEMMA JoiningStep ==
  ASSUME NEW bus \in Bus, Understood(bus), Kinds(bus), NEW new, new = Command(bus)
  PROVE  Joining(bus, new)
<1>1. bus.want \in {"A", "B", "descriptor", "status"} => bus.rd \/ bus.wr
  <2>1. bus.want = "descriptor" \/ bus.want = "status" \/ bus.want \in {"A", "B"}
          => ~Quiet(bus) /\ ~SwitchOn(bus) /\ ~Clears(bus) /\ ~SwitchOff(bus)
    BY DEF Quiet, SwitchOn, Clears, SwitchOff, Controls
  <2>2. Fetches(bus) \/ Reports(bus) => bus.rd \/ bus.wr
    BY DEF Fetches, Reports
  <2>3. Starts(bus) \/ Continues(bus) => bus.rd \/ bus.wr
    BY DEF Starts, Continues, Streaming
  <2> QED BY <2>1, <2>2, <2>3 DEF Kinds
<1>2. bus.want \in Want
  BY DEF Bus
<1>3. /\ TagOf(bus).want = bus.want /\ TagOf(bus).k = bus.k /\ TagOf(bus).addr = bus.addr
  BY DEF TagOf
<1>4. PICK t : t = TagOf(bus)
  OBVIOUS
<1>5. new # <<>> => new[1] = [rd |-> bus.rd, tag |-> t] /\ Exact(new[1])
  <2> SUFFICES ASSUME new # <<>>
               PROVE  new[1] = [rd |-> bus.rd, tag |-> t] /\ Exact(new[1])
    OBVIOUS
  <2>1. PICK x : x = [rd |-> bus.rd, tag |-> t]
    OBVIOUS
  <2>2. new = <<x>> /\ Exact(x)
    BY <1>4, <2>1, Zenon DEF Understood
  <2>3. new[1] = x
    BY <2>2
  <2> QED BY <2>1, <2>2, <2>3, Zenon
<1>6. new # <<>> => new[1].rd = bus.rd /\ new[1].tag = TagOf(bus)
  <2> SUFFICES ASSUME new # <<>>
               PROVE  new[1].rd = bus.rd /\ new[1].tag = t
    BY <1>4
  <2> QED BY <1>5
<1>7. new # <<>> <=> (bus.rd \/ bus.wr) /\ bus.want # "C"
  BY DEF Understood
<1>8. \A c : Joins(new, c) <=> new # <<>> /\ Class(TagOf(bus)) = c
  BY <1>6, Zenon DEF Joins
<1>9. Class(TagOf(bus)) = IF bus.want \in Operand THEN "beat" ELSE bus.want
  BY <1>3, Zenon DEF Class
<1>10. /\ Joins(new, "descriptor") <=> bus.want = "descriptor"
       /\ Joins(new, "status") <=> bus.want = "status"
       /\ Joins(new, "beat") <=> bus.want \in Operand
  BY <1>1, <1>2, <1>7, <1>8, <1>9 DEF Operand, Want
<1> QED BY <1>3, <1>5, <1>6, <1>10, Zenon DEF Joining

\* The oldest descriptor, and the oldest status word, under way.
LEMMA HeadNumbers ==
  ASSUME DirectHost, NEW g \in Ghost, DInv(g), NEW held
  PROVE  /\ Leaves(held, "descriptor") => /\ TagAt(0).k = g.ld + 1 /\ g.ld < fetched
                                          /\ g.ld + 1 \in 1..N
         /\ Leaves(held, "status") => TagAt(0).k = g.rl + 1 /\ g.rl < cleared
         /\ Leaves(held, "beat") => /\ g.pres < beats /\ cur \in 1..N
                                    /\ TagAt(0).want = Chain[cur].type
                                    /\ TagAt(0).k = cur
         /\ ~(Leaves(held, "descriptor") /\ Leaves(held, "status"))
         /\ Leaves(held, "beat") => ~Leaves(held, "status")
<1>1. /\ P!Inv /\ Types /\ Bounds(g) /\ Tags
      /\ Run("descriptor", g.ld, fetched) /\ Run("status", g.rl, cleared)
      /\ Run("beat", g.pres, beats) /\ BeatsCurrent
  BY DEF DInv, Streams
<1>2. /\ g.ld \in Nat /\ g.rl \in Nat /\ g.pres \in Nat /\ fetched \in 0..N /\ N \in Nat
      /\ cleared \in Nat /\ beats \in Nat /\ cur \in 0..N
  BY <1>1, Numbers, SMTT(30)
<1>3. \A i \in Pos : i \in Nat
  BY <1>1, PosRange
<1>4. ASSUME Leaves(held, "descriptor")
      PROVE  TagAt(0).k = g.ld + 1 /\ g.ld < fetched /\ g.ld + 1 \in 1..N
  <2>1. 0 \in Members("descriptor") /\ fetched \in Nat
    BY <1>2, <1>4 DEF Leaves
  <2>2. Num(TagAt(0)) = g.ld + 1 /\ g.ld < fetched
    BY <1>1, <1>2, <1>3, <2>1, FirstOfRun
  <2>3. TagAt(0).want = "descriptor"
    BY <1>1, <2>1, MemberTags
  <2> QED BY <1>2, <2>2, <2>3 DEF Num, Operand
<1>5. ASSUME Leaves(held, "status")
      PROVE  TagAt(0).k = g.rl + 1 /\ g.rl < cleared
  <2>1. 0 \in Members("status")
    BY <1>5 DEF Leaves
  <2>2. Num(TagAt(0)) = g.rl + 1 /\ g.rl < cleared
    BY <1>1, <1>2, <1>3, <2>1, FirstOfRun
  <2>3. TagAt(0).want = "status"
    BY <1>1, <2>1, MemberTags
  <2> QED BY <1>2, <2>2, <2>3 DEF Num, Operand
<1>6. ASSUME Leaves(held, "beat")
      PROVE  /\ g.pres < beats /\ cur \in 1..N /\ TagAt(0).want = Chain[cur].type
             /\ TagAt(0).k = cur
  <2>1. 0 \in Members("beat")
    BY <1>6 DEF Leaves
  <2>2. g.pres < beats
    BY <1>1, <1>2, <1>3, <2>1, FirstOfRun
  <2> QED BY <1>1, <1>2, <2>1, <2>2 DEF BeatsCurrent
<1>7. ~(Leaves(held, "descriptor") /\ Leaves(held, "status"))
  BY DEF Leaves, Members
<1>8. Leaves(held, "beat") => ~Leaves(held, "status")
  BY DEF Leaves, Members
<1> QED BY <1>4, <1>5, <1>6, <1>7, <1>8

\* A cycle of the device that a step of the host drives.
LEMMA TickStep ==
  ASSUME DirectHost, NEW g \in Ghost, DInv(g), NEW bus \in Bus, NEW reply \in BOOLEAN,
         Drives(bus, reply), Kinds(bus)
  PROVE  \E s, held, new, n, r :
           Tick(bus, s, held, new, n, r) /\ DeviceEdge(g.ld + 1, bus, held)
<1>1. /\ P!Inv /\ Types /\ Tags /\ Awaited /\ Paired /\ Plain
      /\ awaiting \in Seq([want: Want, k: 0..N])
  BY DEF DInv, Types
<1>2. Clock(bus, reply) /\ ~(bus.rd /\ bus.wr)
  BY DEF Drives
<1>3. PICK s, held, new, n : /\ s = Shift(bus) /\ held = Held(bus) /\ new = Command(bus)
                             /\ Moves(s, held, new, n)
  BY <1>1, <1>2, MovesStep
<1>4. PICK r : r = IF reply THEN 1 ELSE 0
  OBVIOUS
<1>5. Answers(s, held, new, n, r)
  BY <1>1, <1>2, <1>3, <1>4, AnswersStep
<1>6. Keeps(s, held, new, n, bus.data)
  BY <1>1, <1>2, <1>3, KeepsStep
<1>7. AwaitingMoves(bus, r)
  <2>1. awaiting' = (IF reply THEN Tail(awaiting) ELSE awaiting)
                   \o IF bus.rd THEN <<[want |-> bus.want, k |-> bus.k]>>
                      ELSE <<>>
    BY DEF Drives
  <2> QED BY <1>1, <1>3, <1>4, <1>5, <2>1, AwaitingStep
<1>8. Understood(bus)
  BY <1>2, KindsUnderstood
<1>9. /\ idle' = 0 \/ idle' = idle \/ (idle' = idle + 1 /\ ~Settled)
      /\ reply /\ Matters(awaiting[1]) => idle' = 0
  BY DEF Drives
<1>10. idle \in Nat
  BY <1>1 DEF Types, DirectHost
<1>11. held => idle' = 0
  <2> SUFFICES ASSUME held PROVE idle' = 0
    OBVIOUS
  <2>1. bus.want = "C"
    BY <1>3, <1>8 DEF Understood
  <2>2. Starts(bus) \/ Continues(bus)
    BY <2>1 DEF Kinds, Quiet, SwitchOn, Clears, SwitchOff, Controls, Fetches, Reports
  <2> QED BY <2>1, <2>2 DEF Starts, Continues, Streaming
<1>12. Waits(held) /\ Heard(r)
  BY <1>4, <1>9, <1>10, <1>11 DEF Waits, Heard
<1>13. P!Inv'
  BY <1>1, <1>2, PathInv
<1>14. idle' = idle + 1 => ~Settled
  BY <1>9, <1>10
<1>15. held \in BOOLEAN
  BY <1>3 DEF Moves
<1>16. held => bus.addr \notin {Desc!AIM_WORK_SIG, Desc!HPC_CLR_SIG}
  <2>1. held => High <= bus.addr
    BY <1>3, <1>8 DEF Understood
  <2>2. /\ Desc!AIM_WORK_SIG < High /\ Desc!HPC_CLR_SIG < High /\ High \in Nat
        /\ Desc!AIM_WORK_SIG \in Int /\ Desc!HPC_CLR_SIG \in Int
    BY DescriptorMemory DEF Desc!AIM_WORK_SIG, Desc!HPC_CLR_SIG
  <2> QED BY <2>1, <2>2
<1>17. DeviceEdge(g.ld + 1, bus, held)
  <2>1. Leaves(held, "descriptor") => TagAt(0).k = g.ld + 1 /\ g.ld + 1 \in 1..N
    BY HeadNumbers
  <2> QED BY <1>1, <1>2, <1>3, <1>15, <1>16, <2>1, EdgeStep
<1>18. Tick(bus, s, held, new, n, r)
  BY <1>3, <1>5, <1>6, <1>7, <1>8, <1>12, <1>13, <1>14 DEF Tick
<1> QED BY <1>17, <1>18

-----------------------------------------------------------------------------
(***************************************************************************)
(* The parts of the invariant that need no case for each step of the host. *)
(***************************************************************************)
\* While a result is written, no operand beat is under way.
LEMMA HeldFacts ==
  ASSUME DirectHost, NEW g \in Ghost, DInv(g), NEW bus \in Bus, Kinds(bus), Understood(bus),
         Held(bus)
  PROVE  /\ Starts(bus) \/ Continues(bus)
         /\ Members("beat") = {} /\ bus.want = "C" /\ ~bus.rd
<1>1. bus.want = "C" /\ ~bus.rd
  BY DEF Understood
<1>2. Starts(bus) \/ Continues(bus)
  BY <1>1 DEF Kinds, Quiet, SwitchOn, Clears, SwitchOff, Controls, Fetches, Reports
<1>3. Members("beat") = {}
  <2>1. CASE Starts(bus)
    BY <2>1, StartsReady
  <2>2. CASE Continues(bus)
    <3>1. Chain[cur].type = "C"
      BY <1>1, <2>2 DEF Continues, Streaming
    <3>2. Tags /\ BeatsCurrent
      BY DEF DInv, Streams
    <3>3. ASSUME NEW i \in Members("beat") PROVE FALSE
      <4>1. TagAt(i).want \in Operand /\ TagAt(i).want = "C"
        BY <3>1, <3>2, MemberTags DEF BeatsCurrent
      <4> QED BY <4>1 DEF Operand
    <3> QED BY <3>3
  <2> QED BY <1>2, <2>1, <2>2
<1> QED BY <1>1, <1>2, <1>3

\* A write that the host waits for joins the queue when the wait starts.
LEMMA NoneJoinsStep ==
  ASSUME DirectHost, NEW g \in Ghost, DInv(g), NEW bus \in Bus,
         NEW s, NEW held, NEW new, NEW n, NEW r, Tick(bus, s, held, new, n, r)
  PROVE  NoneJoins(s, n)
<1> SUFFICES ASSUME idle' # 0, NEW i \in Pending' PROVE i <= n /\ i + s \in Pending
  BY DEF NoneJoins
<1>1. /\ i \in Pos' /\ ~Ent(i)'.rd
      /\ \/ TagAt(i)'.addr \in {Desc!AIM_WORK_SIG, Desc!HPC_CLR_SIG}
         \/ setup' = 0 /\ TagAt(i)'.want = "status"
  BY DEF Pending
<1>2. /\ Moves(s, held, new, n) /\ Kinds(bus) /\ Understood(bus) /\ new = Command(bus)
  BY DEF Tick
<1>3. Joining(bus, new)
  BY <1>2, JoiningStep
<1>4. /\ ~SwitchOn(bus) /\ ~Clears(bus) /\ ~SwitchOff(bus)
      /\ setup' = setup
      /\ bus.want = "status" => Reports(bus)
  <2>1. \A k \in 1..N : Chain[k].type # "status"
    BY ChainFacts
  <2> QED BY <1>2, <2>1 DEF Kinds, Quiet, SwitchOn, Clears, SwitchOff, Controls, Fetches, Starts,
     Continues, Reports, Streaming
<1>5. CASE new # <<>> /\ i = n + 1 /\ Ent(i)' = new[1]
  <2>1. /\ TagAt(i)'.addr = bus.addr /\ TagAt(i)'.want = bus.want /\ ~bus.rd
        /\ bus.want # "C"
    <3>1. TagAt(i)' = TagOf(bus) /\ Ent(i)'.rd = bus.rd
      BY <1>3, <1>5 DEF TagAt, Joining
    <3> QED BY <1>1, <1>2, <1>3, <1>5, <3>1 DEF Joining, Understood
  <2>2. Quiet(bus) \/ Reports(bus)
    BY <1>2, <1>4, <2>1 DEF Kinds, Fetches, Starts, Continues, Streaming
  <2>3. CASE Quiet(bus)
    BY <1>1, <2>1, <2>3 DEF Quiet, Foreign
  <2>4. CASE Reports(bus)
    <3>1. Desc!InDescRange(bus.addr)
      BY <2>4, ReportMeans
    <3>2. Open /\ setup # 0
      BY <2>4, OnWhenOpen DEF Reports
    <3> QED BY <1>1, <1>4, <2>1, <3>1, <3>2, DescriptorMemory
  <2> QED BY <2>2, <2>3, <2>4
<1>6. CASE i <= n /\ i + s \in Pos /\ (held \/ i + s > 0) /\ Ent(i)' = Ent(i + s)
  BY <1>1, <1>4, <1>6 DEF Pending, TagAt
<1> QED BY <1>1, <1>2, <1>5, <1>6 DEF Moves

\* A read of an operand is waited for from the cycle in which it is issued.
LEMMA NowAwaits ==
  ASSUME NEW bus \in Bus, NEW r \in {0, 1}, AwaitingMoves(bus, r), Len(awaiting) \in Nat,
         bus.rd, bus.want \in Operand, bus.k = cur'
  PROVE  Awaits(BeatOf(cur))'
<1>1. PICK l : l = Len(awaiting) - r
  OBVIOUS
<1>2. l \in Nat /\ Len(awaiting') = l + 1
      /\ awaiting'[l + 1] = [want |-> bus.want, k |-> bus.k]
  BY <1>1 DEF AwaitingMoves
<1>3. [want |-> bus.want, k |-> bus.k] \in BeatOf(cur')
  BY DEF BeatOf, Operand
<1>4. l + 1 \in 1..Len(awaiting')
  BY <1>2
<1>5. awaiting'[l + 1] \in BeatOf(cur')
  BY <1>2, <1>3, Zenon
<1>6. BeatOf(cur)' = BeatOf(cur')
  BY DEF BeatOf
<1> QED BY <1>4, <1>5, <1>6 DEF Awaits

\* The parts of the invariant that no register of the device enters.
LEMMA CommonStep ==
  ASSUME DirectHost, NEW g \in Ghost, DInv(g), NEW bus \in Bus,
         NEW s, NEW held, NEW new, NEW n, NEW r, Tick(bus, s, held, new, n, r),
         NEW reply \in BOOLEAN, Drives(bus, reply)
  PROVE  Tags' /\ Paired' /\ Awaited' /\ Timing'
<1>1. /\ P!Inv /\ Types /\ Bounds(g) /\ Tags /\ Awaited /\ Paired /\ Timing /\ BeatsCurrent
      /\ awaiting \in Seq([want: Want, k: 0..N]) /\ Len(awaiting) \in Nat
  BY DEF DInv, Types, Streams
<1>2. /\ Moves(s, held, new, n) /\ Answers(s, held, new, n, r)
      /\ Keeps(s, held, new, n, bus.data) /\ AwaitingMoves(bus, r)
      /\ Kinds(bus) /\ Understood(bus) /\ Waits(held) /\ Heard(r) /\ P!Inv'
      /\ held = Held(bus) /\ new = Command(bus)
  BY DEF Tick
<1>3. Joining(bus, new)
  BY <1>2, JoiningStep
<1>4. Tags'
  BY <1>1, <1>2, <1>3, TagsStep DEF Joining
<1>5. new # <<>> /\ new[1].rd => bus.data = DataOf(new[1].tag)
  <2> SUFFICES ASSUME new # <<>>, bus.rd PROVE bus.data = DataOf(TagOf(bus))
    BY <1>3 DEF Joining
  <2>1. TagOf(bus).want = bus.want /\ TagOf(bus).k = bus.k
    BY DEF TagOf
  <2>2. CASE bus.want = "descriptor"
    <3>1. Fetches(bus)
      <4>1. ~Starts(bus) /\ ~Continues(bus)
        <5>1. \A k \in 1..N : Chain[k].type # "descriptor"
          BY ChainFacts
        <5> QED BY <2>2, <5>1 DEF Starts, Continues, Streaming
      <4> QED BY <1>2, <2>2, <4>1 DEF Kinds, Quiet, SwitchOn, Clears, SwitchOff, Controls, Reports
    <3> QED BY <2>1, <2>2, <3>1 DEF Fetches, DataOf
  <2>3. CASE bus.want # "descriptor"
    <3>1. bus.data = NOISE
      BY <1>2, <2>3 DEF Kinds, Quiet, SwitchOn, Clears, SwitchOff, Controls, Fetches, Starts,
         Continues, Reports, Streaming
    <3> QED BY <2>1, <2>3, <3>1 DEF DataOf
  <2> QED BY <2>2, <2>3
<1>6. Paired'
  BY <1>1, <1>2, <1>5, PairedStep
<1>7. Awaited'
  BY <1>1, <1>2, AwaitedStep
<1>8. PendingTimed'
  BY <1>1, <1>2, NoneJoinsStep, PendingStep DEF Timing
<1>9. BeatsTimed'
  <2>1. held => Members("beat") = {}
    BY <1>2, HeldFacts
  <2>2. Joins(new, "beat") => new[1].rd
    BY <1>3 DEF Joining, Joins, Exact, Operand
  <2> QED BY <1>1, <1>2, <2>1, <2>2, BeatsStep DEF Timing
<1>10. DescriptorsTimed'
  <2>1. Joins(new, "descriptor") => new[1].rd
    BY <1>3 DEF Joining, Joins, Exact
  <2>2. cur' # cur => idle' = 0 \/ (cur' > 0 /\ Awaits(BeatOf(cur))')
    <3> SUFFICES ASSUME cur' # cur, idle' # 0
                 PROVE  cur' > 0 /\ Awaits(BeatOf(cur))'
      OBVIOUS
    <3>1. Starts(bus)
      BY <1>2 DEF Kinds, Quiet, SwitchOn, Clears, SwitchOff, Controls, Fetches,
         Continues, Reports
    <3>2. /\ cur' = cur + 1 /\ bus.want = Chain[cur + 1].type /\ bus.k = cur + 1
          /\ bus.rd = (Chain[cur + 1].type # "C") /\ Chain[cur + 1].type # "C"
          /\ cur + 1 \in 1..N
      BY <3>1 DEF Starts, Streaming
    <3>3. bus.rd /\ bus.want \in Operand
      BY <3>2, ChainFacts DEF Operand
    <3>4. r \in {0, 1}
      BY <1>2 DEF Answers
    <3>5. Awaits(BeatOf(cur))'
      BY <1>1, <1>2, <3>2, <3>3, <3>4, NowAwaits
    <3>6. cur' > 0
      BY <1>1, <3>2, Numbers
    <3> QED BY <3>5, <3>6
  <2> QED BY <1>1, <1>2, <2>1, <2>2, DescriptorsStep DEF Timing
<1> QED BY <1>4, <1>6, <1>7, <1>8, <1>9, <1>10 DEF Timing

\* The request of the last cycle.
LEMMA RequestStep ==
  ASSUME DirectHost, NEW g \in Ghost, DInv(g), NEW bus \in Bus, Understood(bus),
         NEW reply \in BOOLEAN, Drives(bus, reply)
  PROVE  LastRequest'
<1>1. P!Inv /\ Tags
  BY DEF DInv
<1>2. req_r' = Request(bus)
  BY DEF Drives, Clock, Path!Clock, Request
<1>3. PICK held : held = Held(bus)
  OBVIOUS
<1>4. /\ held => Request(bus) =
              <<[rd |-> FALSE, tag |-> ResultTag(bus), data |-> "none"]>>
      /\ ~held /\ 0 \in Pos => Request(bus) =
              <<[rd |-> Ent(0).rd, tag |-> TagAt(0),
                 data |-> IF Ent(0).rd THEN DataAt(0) ELSE "none"]>>
      /\ ~held /\ 0 \notin Pos => Request(bus) = <<>>
  BY <1>1, <1>3, RequestSeen
<1>5. CASE held
  <2>1. PICK x : x = [rd |-> FALSE, tag |-> ResultTag(bus), data |-> "none"]
    OBVIOUS
  <2>2. req_r' = <<x>>
    BY <1>2, <1>4, <1>5, <2>1, Zenon
  <2>3. x.tag.C = TRUE /\ x.tag.want = bus.want
    BY <2>1 DEF ResultTag
  <2>4. bus.want = "C"
    BY <1>3, <1>5 DEF Understood
  <2> QED BY <2>2, <2>3, <2>4 DEF LastRequest
<1>6. CASE ~held /\ 0 \in Pos
  <2>1. PICK x : x = [rd |-> Ent(0).rd, tag |-> TagAt(0),
                      data |-> IF Ent(0).rd THEN DataAt(0) ELSE "none"]
    OBVIOUS
  <2>2. req_r' = <<x>>
    BY <1>2, <1>4, <1>6, <2>1, Zenon
  <2>3. x.tag = TagAt(0)
    BY <2>1
  <2>4. ~TagAt(0).C /\ TagAt(0).want # "C"
    BY <1>1, <1>6 DEF Tags, Exact, TagAt
  <2> QED BY <2>2, <2>3, <2>4 DEF LastRequest
<1>7. CASE ~held /\ 0 \notin Pos
  BY <1>2, <1>4, <1>7 DEF LastRequest
<1> QED BY <1>5, <1>6, <1>7

\* The word on the memory's data bus asks for no indirect address.
LEMMA WordOnBus ==
  ASSUME DirectHost, P!Inv, NEW bus, NEW reply \in BOOLEAN, Drives(bus, reply)
  PROVE  DirectWord(DataBus(reply))
<1>1. \A w \in Data : DirectWord(w)
  <2>1. DirectWord(Desc!ZeroWord)
    BY AddrAssumption DEF DirectWord, Desc!ZeroWord, Desc!Addr
  <2> QED BY <2>1 DEF Data, DirectHost
<1>2. CASE reply
  <2>1. in_flight # <<>> /\ in_flight \in Seq(P!Flight)
    BY <1>2 DEF Drives, Clock, Path!Clock, Path!MayReply, P!Inv, P!TypeOK
  <2>2. in_flight[1] \in P!Flight
    BY <2>1
  <2>3. in_flight[1].data \in Data
    BY <2>2 DEF P!Flight
  <2> QED BY <1>1, <1>2, <2>3 DEF DataBus
<1>3. CASE ~reply
  BY <1>1, <1>3 DEF DataBus, Data
<1> QED BY <1>2, <1>3

\* With direct descriptors the indirect registers stay idle.
LEMMA PlainStep ==
  ASSUME DirectHost, NEW g \in Ghost, DInv(g), NEW bus, NEW reply \in BOOLEAN,
         Drives(bus, reply)
  PROVE  /\ Plain'
         /\ indirect_r' \in [valid: BOOLEAN, addr: Desc!Addr]
         /\ indirect_rr' \in [valid: BOOLEAN, addr: Desc!Addr]
<1>1. P!Inv /\ Plain /\ Desc!TypeOK
  BY DEF DInv, Types
<1>2. PICK w : w = DataBus(reply)
  OBVIOUS
<1>3. PICK on : on = (rw_queue # <<>> /\ Head(rw_queue).tag.incr)
  OBVIOUS
<1>4. indirect_r' = Desc!indirect_addr(on, w) /\ indirect_rr' = indirect_r
  BY <1>2, <1>3, Zenon DEF Drives, Clock, Desc!Clock
<1>5. w.indirect = FALSE /\ w.src \in Desc!Addr
  BY <1>1, <1>2, WordOnBus DEF DirectWord
<1>6. PICK b, o : indirect_r' = [valid |-> (on /\ AIM_working) /\ w.indirect,
                              addr |-> (b + o) % ADDR_SPACE]
                  /\ b \in Desc!Addr /\ o \in Desc!Addr
  <2>1. 0 \in Desc!Addr /\ args_reg.A \in Desc!Addr /\ args_reg.B \in Desc!Addr
        /\ args_reg.C \in Desc!Addr
    BY <1>1, Addresses DEF Desc!TypeOK
  <2>2. PICK ia, ir, b, o :
          /\ ia = ((on /\ AIM_working) /\ w.immediate)
          /\ ir = ((on /\ AIM_working) /\ w.register)
          /\ b = IF ia /\ w.info.dst THEN args_reg.A
                 ELSE IF (ia \/ ir) /\ "A" \in w.info.type THEN args_reg.B
                 ELSE IF ia /\ "B" \in w.info.type THEN args_reg.C
                 ELSE 0
          /\ o = IF ia \/ ir THEN w.src ELSE 0
    OBVIOUS
  <2>3. b \in Desc!Addr /\ o \in Desc!Addr
    BY <1>5, <2>1, <2>2, Zenon
  <2>4. indirect_r' = [valid |-> (on /\ AIM_working) /\ w.indirect,
                       addr |-> (b + o) % ADDR_SPACE]
    BY <1>4, <2>2, Zenon DEF Desc!indirect_addr
  <2> QED BY <2>3, <2>4
<1>7. (b + o) % ADDR_SPACE \in Desc!Addr
  <2>1. b \in Int /\ o \in Int /\ ADDR_SPACE \in Nat /\ ADDR_SPACE > 0
    BY <1>6, AddrAssumption DEF Desc!Addr
  <2> QED BY <2>1 DEF Desc!Addr
<1>8. PICK z, v : z = (b + o) % ADDR_SPACE /\ v = ((on /\ AIM_working) /\ w.indirect)
  OBVIOUS
<1>9. v = FALSE /\ z \in Desc!Addr /\ indirect_r' = [valid |-> v, addr |-> z]
  BY <1>5, <1>6, <1>7, <1>8
<1>10. ~(indirect_r.valid) /\ indirect_r \in [valid: BOOLEAN, addr: Desc!Addr]
  BY <1>1 DEF Plain, Desc!TypeOK
<1>11. indirect_r'.valid = v /\ indirect_r' \in [valid: BOOLEAN, addr: Desc!Addr]
  BY <1>9
<1>12. Plain'
  BY <1>4, <1>9, <1>10, <1>11, Zenon DEF Plain
<1> QED BY <1>4, <1>10, <1>11, <1>12, Zenon

\* The value x enters the delay line d, which becomes e.
Delayed(d, x, e) == e = <<x>> \o SubSeq(d, 1, 3)

\* A delay line moves by one.
LEMMA DelayLine ==
  ASSUME NEW S, NEW d \in [1..4 -> S], NEW x \in S, NEW e,
         Delayed(d, x, e)
  PROVE  /\ e \in [1..4 -> S]
         /\ e[1] = x /\ e[2] = d[1] /\ e[3] = d[2] /\ e[4] = d[3]
<1>1. d \in Seq(S) /\ Len(d) = 4
  <2>1. d \in Seq(S)
    <3>1. [1..4 -> S] \in {[1..m -> S] : m \in Nat}
      OBVIOUS
    <3>2. d \in UNION {[1..m -> S] : m \in Nat}
      BY <3>1, Zenon
    <3>3. Seq(S) = UNION {[1..m -> S] : m \in Nat}
      BY SeqDef, Zenon
    <3> QED BY <3>2, <3>3, Zenon
  <2>2. DOMAIN d = 1..Len(d) /\ DOMAIN d = 1..4 /\ Len(d) \in Nat
    BY <2>1, LenProperties, Zenon
  <2>3. Len(d) = 4
    BY <2>2
  <2> QED BY <2>1, <2>3
<1>2. PICK t : t = SubSeq(d, 1, 3)
  OBVIOUS
<1>3. /\ t \in Seq(S) /\ Len(t) = 3
      /\ t[1] = d[1] /\ t[2] = d[2] /\ t[3] = d[3]
  BY <1>1, <1>2
<1>4. PICK h : h = <<x>>
  OBVIOUS
<1>5. h \in Seq(S) /\ Len(h) = 1 /\ h[1] = x
  BY <1>4
<1>6. /\ h \o t \in Seq(S) /\ Len(h \o t) = 4
      /\ (h \o t)[1] = h[1]
      /\ \A i \in 2..4 : (h \o t)[i] = t[i - 1]
  <2>1. /\ h \o t \in Seq(S)
        /\ Len(h \o t) = Len(h) + Len(t)
        /\ \A i \in 1..(Len(h) + Len(t)) :
             (h \o t)[i] = IF i <= Len(h) THEN h[i] ELSE t[i - Len(h)]
    BY <1>3, <1>5, ConcatProperties, Zenon
  <2>2. PICK u : u = h \o t
    OBVIOUS
  <2>3. /\ u \in Seq(S) /\ Len(u) = 4
        /\ \A i \in 1..4 : u[i] = IF i <= 1 THEN h[i] ELSE t[i - 1]
    <3>1. Len(h) + Len(t) = 4
      BY <1>3, <1>5
    <3> QED BY <1>5, <2>1, <2>2, <3>1, Zenon
  <2> QED BY <2>2, <2>3
<1>7. e \in Seq(S) /\ Len(e) = 4 /\ e[1] = x
      /\ \A i \in 2..4 : e[i] = t[i - 1]
  BY <1>2, <1>4, <1>5, <1>6, Zenon DEF Delayed
<1>8. e \in [1..4 -> S]
  <2>1. e \in [1..Len(e) -> S]
    BY <1>7, LenProperties, Zenon
  <2> QED BY <1>7, <2>1, Zenon
<1> QED BY <1>3, <1>7, <1>8

-----------------------------------------------------------------------------
(***************************************************************************)
(* How far the host and the device are after a cycle.                      *)
(***************************************************************************)
One(b) == IF b THEN 1 ELSE 0

\* The host's counters after the cycle: f, c, b and e are those of descriptors
\* read, the operand and its beats, and the status words written.
Pauses(held, new, c, b) == c = cur /\ b = beats /\ ~held /\ ~Joins(new, "beat")

\* Or streams one beat, the first of the next operand or the next of this one.
Advances(bus, held, new, c, b) ==
  /\ \/ Starts(bus) /\ c = cur + 1 /\ b = 1
     \/ Continues(bus) /\ c = cur /\ b = beats + 1
  /\ c \in 1..N /\ c \in (cur)..(cur + 1) /\ b \in 1..Chain[c].beats
  /\ held <=> Chain[c].type = "C"
  /\ Joins(new, "beat") <=> ~held
  /\ ~Joins(new, "descriptor") /\ ~Joins(new, "status")
  /\ bus.want = Chain[c].type /\ bus.k = c /\ bus.addr = Chain[c].base + 32 * (b - 1)

\* The host's counters after the cycle.
Counters(bus, held, new, f, c, b, e) ==
  /\ fetched' = f /\ cur' = c /\ beats' = b /\ cleared' = e
  /\ f = fetched + One(Joins(new, "descriptor"))
  /\ Joins(new, "descriptor") =>
       new[1].tag.k = f /\ f <= N /\ f - cleared <= SLOTS /\ Fetches(bus)
  /\ e = cleared + One(Joins(new, "status"))
  /\ Joins(new, "status") => /\ new[1].tag.k = e /\ e <= cur /\ Reports(bus)
                             /\ e = cur => beats = Chain[cur].beats /\ ~Awaits(BeatOf(cur))
  /\ Pauses(held, new, c, b) \/ Advances(bus, held, new, c, b)

\* What the host's step does to its counters.
LEMMA CountersStep ==
  ASSUME DirectHost, NEW g \in Ghost, DInv(g), NEW bus \in Bus, Kinds(bus), ~SwitchOn(bus),
         Understood(bus), NEW held, held = Held(bus), NEW new, new = Command(bus)
  PROVE  \E f, c, b, e : Counters(bus, held, new, f, c, b, e)
<1>1. Joining(bus, new)
  BY JoiningStep
<1>2. /\ cur \in 0..N /\ N \in Nat /\ fetched \in 0..N /\ cleared \in 0..N /\ beats \in Nat
      /\ SLOTS \in Nat
  BY Numbers DEF DInv
<1>3. held <=> bus.want = "C"
  BY DEF Understood
<1>4. CASE Quiet(bus) \/ Clears(bus) \/ SwitchOff(bus)
  <2>1. bus.want = "other" /\ UNCHANGED <<fetched, cur, beats, cleared>>
    BY <1>4 DEF Quiet, Clears, SwitchOff, Controls
  <2>2. /\ ~Joins(new, "descriptor") /\ ~Joins(new, "status") /\ ~Joins(new, "beat")
        /\ ~held
    BY <1>1, <1>3, <2>1 DEF Joining, Operand
  <2>3. Counters(bus, held, new, fetched, cur, beats, cleared)
    BY <1>2, <2>1, <2>2 DEF Counters, One, Pauses
  <2> QED BY <2>3
<1>5. CASE Fetches(bus)
  <2>1. /\ bus.want = "descriptor" /\ bus.k = fetched + 1 /\ fetched < N
        /\ fetched - cleared < SLOTS
        /\ fetched' = fetched + 1 /\ UNCHANGED <<cur, beats, cleared>>
    BY <1>5 DEF Fetches
  <2>2. /\ Joins(new, "descriptor") /\ ~Joins(new, "status") /\ ~Joins(new, "beat")
        /\ ~held
    BY <1>1, <1>3, <2>1 DEF Joining, Operand
  <2>3. new[1].tag.k = fetched + 1
    BY <1>1, <2>1, <2>2 DEF Joining, Joins
  <2>4. Counters(bus, held, new, fetched + 1, cur, beats, cleared)
    BY <1>2, <1>5, <2>1, <2>2, <2>3 DEF Counters, One, Pauses
  <2> QED BY <2>4
<1>6. CASE Reports(bus)
  <2>1. /\ bus.want = "status" /\ bus.k = cleared + 1
        /\ cleared' = cleared + 1 /\ UNCHANGED <<cur, beats, fetched>>
    BY <1>6 DEF Reports
  <2>2. /\ ~Joins(new, "descriptor") /\ Joins(new, "status") /\ ~Joins(new, "beat")
        /\ ~held
    BY <1>1, <1>3, <2>1 DEF Joining, Operand
  <2>3. new[1].tag.k = cleared + 1
    BY <1>1, <2>1, <2>2 DEF Joining, Joins
  <2>4. cleared + 1 <= cur /\ (cleared + 1 = cur => beats = Chain[cur].beats /\ ~Awaits(BeatOf(cur)))
    BY <1>2, <1>6, ReportsReady
  <2>5. Counters(bus, held, new, fetched, cur, beats, cleared + 1)
    BY <1>2, <1>6, <2>1, <2>2, <2>3, <2>4 DEF Counters, One, Pauses
  <2> QED BY <2>5
<1>7. ASSUME NEW c \in 1..N, NEW i \in Nat, Streaming(bus, c, i)
      PROVE  /\ held <=> Chain[c].type = "C"
             /\ Joins(new, "beat") <=> ~held
             /\ ~Joins(new, "descriptor") /\ ~Joins(new, "status")
             /\ bus.want = Chain[c].type /\ bus.k = c
             /\ bus.addr = Chain[c].base + 32 * ((i + 1) - 1)
             /\ i + 1 \in 1..Chain[c].beats
  <2>1. /\ bus.want = Chain[c].type /\ bus.k = c /\ bus.addr = Chain[c].base + 32 * i
        /\ i \in 0..(Chain[c].beats - 1)
    BY <1>7 DEF Streaming
  <2>2. Chain[c].type \in {"A", "B", "C"} /\ Chain[c].beats \in Nat
    BY ChainFacts
  <2>3. (i + 1) - 1 = i /\ i + 1 \in 1..Chain[c].beats
    BY <2>1, <2>2
  <2> QED BY <1>1, <1>3, <2>1, <2>2, <2>3 DEF Joining, Operand
<1>8. CASE Starts(bus)
  <2>1. /\ Streaming(bus, cur + 1, 0) /\ cur' = cur + 1 /\ beats' = 1
        /\ UNCHANGED <<fetched, cleared>>
    BY <1>8 DEF Starts
  <2>2. cur + 1 \in 1..N /\ 0 \in Nat
    BY <1>8, StartsReady
  <2>3. Advances(bus, held, new, cur + 1, 1)
    <3>1. 0 + 1 = 1 /\ cur + 1 \in cur..(cur + 1)
      BY <1>2
    <3> QED BY <1>7, <1>8, <2>1, <2>2, <3>1 DEF Advances
  <2>4. Counters(bus, held, new, fetched, cur + 1, 1, cleared)
    BY <1>2, <2>1, <2>3 DEF Counters, One, Advances
  <2> QED BY <2>4
<1>9. CASE Continues(bus)
  <2>1. /\ Streaming(bus, cur, beats) /\ beats' = beats + 1
        /\ UNCHANGED <<cur, fetched, cleared>>
    BY <1>9 DEF Continues
  <2>2. cur \in 1..N
    BY <1>9, ContinuesReady
  <2>3. Advances(bus, held, new, cur, beats + 1)
    <3>1. cur \in cur..(cur + 1)
      BY <1>2
    <3> QED BY <1>2, <1>7, <1>9, <2>1, <2>2, <3>1 DEF Advances
  <2>4. Counters(bus, held, new, fetched, cur, beats + 1, cleared)
    BY <1>2, <2>1, <2>3 DEF Counters, One, Advances
  <2> QED BY <2>4
<1> QED BY <1>4, <1>5, <1>6, <1>8, <1>9 DEF Kinds

\* How the ghost follows.
Passing(held) == held \/ Leaves(held, "beat")

\* It counts what leaves; rho counts down from the last beat.
Follows(g, h, held, c) ==
  /\ h \in [ld: Nat, rl: Nat, pres: Nat, rho: 0..5]
  /\ h.ld = g.ld + One(Leaves(held, "descriptor"))
  /\ h.rl = g.rl + One(Leaves(held, "status"))
  /\ h.pres = (IF c = cur THEN g.pres ELSE 0) + One(Passing(held))
  /\ h.rho = IF Passing(held) /\ h.pres = Chain[c].beats THEN 5
             ELSE IF g.rho > 0 THEN g.rho - 1 ELSE 0

\* The ghost after a cycle: it follows from what leaves.
LEMMA FollowsExists ==
  ASSUME NEW g \in Ghost, NEW held, NEW c, N \in Nat
  PROVE  \E h : Follows(g, h, held, c)
<1>1. g.ld \in Nat /\ g.rl \in Nat /\ g.pres \in Nat /\ g.rho \in 0..5
  BY DEF Ghost
<1>2. PICK x, y, p, q :
        /\ x = g.ld + One(Leaves(held, "descriptor"))
        /\ y = g.rl + One(Leaves(held, "status"))
        /\ p = (IF c = cur THEN g.pres ELSE 0) + One(Passing(held))
        /\ q = IF Passing(held) /\ p = Chain[c].beats THEN 5
               ELSE IF g.rho > 0 THEN g.rho - 1 ELSE 0
  OBVIOUS
<1>3. x \in Nat /\ y \in Nat /\ p \in Nat /\ q \in 0..5
  BY <1>1, <1>2 DEF One
<1>4. Follows(g, [ld |-> x, rl |-> y, pres |-> p, rho |-> q], held, c)
  BY <1>2, <1>3 DEF Follows
<1> QED BY <1>4

-----------------------------------------------------------------------------
(***************************************************************************)
(* A cycle, with the ghost g before it and h after it.                     *)
(***************************************************************************)
\* A cycle other than a switch-on or a reset.
Goes(g, h, bus, s, held, new, n, r, f, c, b, e) ==
  /\ Tick(bus, s, held, new, n, r) /\ DeviceEdge(g.ld + 1, bus, held)
  /\ Counters(bus, held, new, f, c, b, e) /\ Follows(g, h, held, c)
  /\ Joining(bus, new)

\* The beats of the current operand, when an operand is streamed.
LEMMA StreamingNow ==
  ASSUME DirectHost, NEW g \in Ghost, DInv(g), NEW bus \in Bus, Understood(bus),
         Kinds(bus), NEW held, held = Held(bus), NEW new, NEW c, NEW b,
         Advances(bus, held, new, c, b), Joining(bus, new)
  PROVE  /\ Starts(bus) => Members("beat") = {} /\ c = cur + 1 /\ b = 1
         /\ held => Members("beat") = {}
         /\ Continues(bus) => c = cur /\ b = beats + 1
         /\ Continues(bus) /\ held => g.pres = beats
         /\ Joins(new, "beat") => Num(new[1].tag) = b
         /\ ~(Starts(bus) /\ Continues(bus))
<1>1. Types /\ Bounds(g) /\ cur \in Nat /\ beats \in Nat
  BY DEF DInv, Types
<1>2. \/ Starts(bus) /\ c = cur + 1 /\ b = 1
      \/ Continues(bus) /\ c = cur /\ b = beats + 1
  BY DEF Advances
<1>3. ~(Starts(bus) /\ Continues(bus))
  <2>1. Starts(bus) => cur' = cur + 1
    BY DEF Starts
  <2>2. Continues(bus) => cur' = cur
    BY DEF Continues
  <2> QED BY <1>1, <2>1, <2>2
<1>4. Starts(bus) => Members("beat") = {}
  BY StartsReady
<1>5. held => Members("beat") = {}
  BY HeldFacts
<1>6. Continues(bus) /\ held => g.pres = beats
  <2>1. Continues(bus) => cur > 0
    BY DEF Continues
  <2>2. Continues(bus) /\ held => Chain[cur].type = "C"
    BY <1>2, <1>3 DEF Advances
  <2> QED BY <1>1, <2>1, <2>2 DEF Bounds
<1>7. Joins(new, "beat") => Num(new[1].tag) = b
  <2> SUFFICES ASSUME Joins(new, "beat") PROVE Num(new[1].tag) = b
    OBVIOUS
  <2>1. /\ c \in 1..N /\ b \in 1..Chain[c].beats
        /\ bus.want = Chain[c].type /\ bus.k = c /\ bus.addr = Chain[c].base + 32 * (b - 1)
    BY DEF Advances
  <2>2. new # <<>> /\ bus.want \in Operand
    BY DEF Joins, Joining
  <2>3. /\ new[1].tag.want = bus.want /\ new[1].tag.k = bus.k /\ new[1].tag.addr = bus.addr
    BY <2>2 DEF Joining
  <2>4. Num(new[1].tag) = (bus.addr - Chain[c].base) \div 32 + 1
    BY <2>1, <2>2, <2>3, Zenon DEF Num
  <2>5. PICK base, m : base = Chain[c].base /\ m = Chain[c].beats
    OBVIOUS
  <2>6. base \in Nat /\ m \in Nat
    BY <2>1, <2>5, ChainFacts
  <2>7. b \in 1..m /\ bus.addr = base + 32 * (b - 1)
    BY <2>1, <2>5
  <2>8. (bus.addr - base) \div 32 + 1 = b
    BY <2>6, <2>7, SMT
  <2> QED BY <2>4, <2>5, <2>8
<1> QED BY <1>2, <1>3, <1>4, <1>5, <1>6, <1>7

\* Descriptors, status words and beats stay numbered without a gap.
LEMMA StreamsStep ==
  ASSUME DirectHost, NEW g \in Ghost, DInv(g), NEW bus \in Bus, NEW h,
         NEW s, NEW held, NEW new, NEW n, NEW r, NEW f, NEW c, NEW b, NEW e,
         Goes(g, h, bus, s, held, new, n, r, f, c, b, e)
  PROVE  /\ Streams(h)'
         /\ g.pres <= beats => h.pres <= b
<1>1. /\ Types /\ Bounds(g) /\ Streams(g) /\ Tags
      /\ Moves(s, held, new, n) /\ held = Held(bus) /\ Understood(bus) /\ Kinds(bus)
      /\ Counters(bus, held, new, f, c, b, e) /\ Follows(g, h, held, c)
      /\ Joining(bus, new)
  BY DEF DInv, Goes, Tick
<1>2. /\ g.ld \in Nat /\ g.rl \in Nat /\ g.pres \in Nat /\ fetched \in Nat
      /\ cleared \in Nat /\ beats \in Nat /\ cur \in Nat
      /\ g.ld <= fetched /\ g.rl <= cleared /\ g.pres <= beats
  <2>1. g.pres <= beats
    BY <1>1 DEF Bounds
  <2> QED BY <1>1, <2>1, Numbers, SMTT(30)
<1>3. Run("descriptor", h.ld, fetched)'
  <2>1. Joins(new, "descriptor") => Num(new[1].tag) = fetched + 1
    <3> SUFFICES ASSUME Joins(new, "descriptor") PROVE Num(new[1].tag) = fetched + 1
      OBVIOUS
    <3>1. new # <<>> /\ new[1].tag.want = "descriptor"
      BY <1>1 DEF Joins, Joining
    <3>2. new[1].tag.k = f /\ f = fetched + 1
      BY <1>1 DEF Counters, One
    <3> QED BY <3>1, <3>2 DEF Num, Operand
  <2>2. h.ld = g.ld + IF Leaves(held, "descriptor") THEN 1 ELSE 0
    BY <1>1 DEF Follows, One
  <2>3. f = fetched + IF Joins(new, "descriptor") THEN 1 ELSE 0
    BY <1>1 DEF Counters, One
  <2>4. Run("descriptor", h.ld, f)'
    <3>1. Run("descriptor", g.ld, fetched)
      BY <1>1 DEF Streams
    <3> QED BY <1>1, <1>2, <2>1, <2>2, <2>3, <3>1, RunStep
  <2>5. fetched' = f
    BY <1>1 DEF Counters
  <2> QED BY <2>4, <2>5 DEF Run
<1>4. Run("status", h.rl, cleared)'
  <2>1. Joins(new, "status") => Num(new[1].tag) = cleared + 1
    <3> SUFFICES ASSUME Joins(new, "status") PROVE Num(new[1].tag) = cleared + 1
      OBVIOUS
    <3>1. new # <<>> /\ new[1].tag.want = "status"
      BY <1>1 DEF Joins, Joining
    <3>2. new[1].tag.k = e /\ e = cleared + 1
      BY <1>1 DEF Counters, One
    <3> QED BY <3>1, <3>2 DEF Num, Operand
  <2>2. h.rl = g.rl + IF Leaves(held, "status") THEN 1 ELSE 0
    BY <1>1 DEF Follows, One
  <2>3. e = cleared + IF Joins(new, "status") THEN 1 ELSE 0
    BY <1>1 DEF Counters, One
  <2>4. Run("status", h.rl, e)'
    <3>1. Run("status", g.rl, cleared)
      BY <1>1 DEF Streams
    <3> QED BY <1>1, <1>2, <2>1, <2>2, <2>3, <3>1, RunStep
  <2>5. cleared' = e
    BY <1>1 DEF Counters
  <2> QED BY <2>4, <2>5 DEF Run
<1>5. Run("beat", h.pres, b)' /\ h.pres <= b
  <2>0. Run("beat", g.pres, beats)
    BY <1>1 DEF Streams
  <2>1. CASE Pauses(held, new, c, b)
    <3>1. /\ c = cur /\ b = beats /\ ~held /\ ~Joins(new, "beat")
      BY <2>1 DEF Pauses
    <3>2. h.pres = g.pres + IF Leaves(held, "beat") THEN 1 ELSE 0
      BY <1>1, <3>1 DEF Follows, One, Passing
    <3>3. b = beats + IF Joins(new, "beat") THEN 1 ELSE 0
      BY <1>2, <3>1
    <3> QED BY <1>1, <1>2, <2>0, <3>1, <3>2, <3>3, RunStep
  <2>2. CASE Advances(bus, held, new, c, b)
    <3>0. /\ Starts(bus) => Members("beat") = {} /\ c = cur + 1 /\ b = 1
          /\ held => Members("beat") = {}
          /\ Continues(bus) => c = cur /\ b = beats + 1
          /\ Continues(bus) /\ held => g.pres = beats
          /\ Joins(new, "beat") => Num(new[1].tag) = b
          /\ Starts(bus) \/ Continues(bus)
          /\ Joins(new, "beat") <=> ~held
      <4>1. /\ Starts(bus) => Members("beat") = {} /\ c = cur + 1 /\ b = 1
            /\ held => Members("beat") = {}
            /\ Continues(bus) => c = cur /\ b = beats + 1
            /\ Continues(bus) /\ held => g.pres = beats
            /\ Joins(new, "beat") => Num(new[1].tag) = b
        BY <1>1, <2>2, StreamingNow
      <4>2. /\ Starts(bus) \/ Continues(bus)
            /\ Joins(new, "beat") <=> ~held
        BY <2>2 DEF Advances
      <4> QED BY <4>1, <4>2
    <3>1. CASE held
      <4>1. ~Leaves(held, "beat") /\ ~Joins(new, "beat")
        BY <3>0, <3>1 DEF Leaves
      <4>2. h.pres = b /\ b \in Nat
        BY <1>1, <1>2, <3>0, <3>1 DEF Follows, One, Passing
      <4>3. Run("beat", b, b)
        BY <3>0, <3>1, <4>2, EmptyRun
      <4>4. b = b + IF Leaves(held, "beat") THEN 1 ELSE 0
        BY <4>1, <4>2
      <4>5. b = b + IF Joins(new, "beat") THEN 1 ELSE 0
        BY <4>1, <4>2
      <4>6. Run("beat", b, b)'
        BY <1>1, <4>1, <4>2, <4>3, <4>4, <4>5, RunStep
      <4> QED BY <4>2, <4>6
    <3>2. CASE ~held /\ Starts(bus)
      <4>1. ~Leaves(held, "beat") /\ Joins(new, "beat")
        BY <3>0, <3>2 DEF Leaves
      <4>2. h.pres = 0
        BY <1>1, <1>2, <3>0, <3>2, <4>1 DEF Follows, One, Passing
      <4>3. Run("beat", 0, 0)
        BY <3>0, <3>2, EmptyRun
      <4>4. 0 = 0 + IF Leaves(held, "beat") THEN 1 ELSE 0
        BY <4>1
      <4>5. b = 0 + IF Joins(new, "beat") THEN 1 ELSE 0
        BY <3>0, <3>2, <4>1
      <4>6. Run("beat", 0, b)'
        BY <1>1, <3>0, <3>2, <4>1, <4>3, <4>4, <4>5, RunStep
      <4> QED BY <3>0, <3>2, <4>2, <4>6
    <3>3. CASE ~held /\ Continues(bus)
      <4>1. h.pres = g.pres + IF Leaves(held, "beat") THEN 1 ELSE 0
        BY <1>1, <3>0, <3>3 DEF Follows, One, Passing
      <4>2. b = beats + IF Joins(new, "beat") THEN 1 ELSE 0
        BY <3>0, <3>3
      <4> QED BY <1>1, <1>2, <2>0, <3>0, <3>3, <4>1, <4>2, RunStep
    <3> QED BY <3>0, <3>1, <3>2, <3>3
  <2> QED BY <1>1, <2>1, <2>2 DEF Counters
<1>6. Run("beat", h.pres, beats)'
  <2>1. beats' = b
    BY <1>1 DEF Counters
  <2> QED BY <1>5, <2>1 DEF Run
<1>7. BeatsCurrent'
  <2>0. cur' = c
    BY <1>1 DEF Counters
  <2>1. SUFFICES ASSUME NEW i \in Members("beat")'
                 PROVE  c > 0 /\ TagAt(i)'.k = c /\ TagAt(i)'.want = Chain[c].type
    BY <2>0 DEF BeatsCurrent
  <2>2. CASE Joins(new, "beat") /\ TagAt(i)' = new[1].tag
    <3>1. ~Pauses(held, new, c, b)
      BY <2>2 DEF Pauses
    <3>2. Advances(bus, held, new, c, b)
      BY <1>1, <3>1 DEF Counters
    <3>3. new # <<>>
      BY <2>2 DEF Joins
    <3>4. c \in 1..N /\ bus.k = c /\ bus.want = Chain[c].type
      BY <3>2 DEF Advances
    <3>5. new[1].tag.k = bus.k /\ new[1].tag.want = bus.want
      BY <1>1, <3>3 DEF Joining
    <3> QED BY <2>2, <3>4, <3>5
  <2>3. CASE i + s \in Members("beat") /\ TagAt(i)' = TagAt(i + s)
    <3>1. cur > 0 /\ TagAt(i + s).k = cur /\ TagAt(i + s).want = Chain[cur].type
      BY <1>1, <2>3 DEF Streams, BeatsCurrent
    <3>2. c = cur
      <4>1. CASE Pauses(held, new, c, b)
        BY <4>1 DEF Pauses
      <4>2. CASE Advances(bus, held, new, c, b)
        <5>1. ~Starts(bus)
          BY <1>1, <2>3, <4>2, StreamingNow
        <5> QED BY <4>2, <5>1 DEF Advances
      <4> QED BY <1>1, <4>1, <4>2 DEF Counters
    <3> QED BY <2>3, <3>1, <3>2
  <2> QED BY <1>1, <2>2, <2>3, MembersMove
<1> QED BY <1>3, <1>4, <1>5, <1>6, <1>7 DEF Streams

\* Nobody waits for a beat of an operand that was not waited for, unless one is
\* read in this cycle.
LEMMA NoneAwaited ==
  ASSUME NEW bus \in Bus, NEW r \in {0, 1}, AwaitingMoves(bus, r), Len(awaiting) \in Nat,
         cur' = cur, ~Awaits(BeatOf(cur)), bus.want \notin Operand
  PROVE  ~Awaits(BeatOf(cur))'
<1>1. BeatOf(cur)' = BeatOf(cur)
  BY DEF BeatOf
<1>2. SUFFICES ASSUME NEW i \in 1..Len(awaiting'), awaiting'[i] \in BeatOf(cur)
               PROVE  FALSE
  BY <1>1 DEF Awaits
<1>3. PICK l : l = Len(awaiting) - r
  OBVIOUS
<1>4. /\ l \in Nat /\ Len(awaiting') = l + (IF bus.rd THEN 1 ELSE 0)
      /\ \A j \in 1..l : awaiting'[j] = awaiting[j + r]
      /\ bus.rd => awaiting'[l + 1] = [want |-> bus.want, k |-> bus.k]
  BY <1>3 DEF AwaitingMoves
<1>5. CASE i \in 1..l
  <2>1. i + r \in 1..Len(awaiting)
    BY <1>3, <1>4, <1>5
  <2>2. awaiting'[i] = awaiting[i + r]
    BY <1>4, <1>5
  <2> QED BY <1>2, <2>1, <2>2 DEF Awaits
<1>6. CASE bus.rd /\ i = l + 1
  <2>1. PICK x : x = [want |-> bus.want, k |-> bus.k]
    OBVIOUS
  <2>2. x \in BeatOf(cur)
    BY <1>2, <1>4, <1>6, <2>1, Zenon
  <2>3. x.want \in {"A", "B"} /\ x.want = bus.want
    BY <2>1, <2>2 DEF BeatOf
  <2> QED BY <2>3 DEF Operand
<1>7. i \in 1..l \/ (bus.rd /\ i = l + 1)
  BY <1>2, <1>4
<1> QED BY <1>5, <1>6, <1>7

\* The host's counters before and after the cycle.
LEMMA Counted ==
  ASSUME DirectHost, NEW g \in Ghost, DInv(g), NEW bus \in Bus, NEW h,
         NEW s, NEW held, NEW new, NEW n, NEW r, NEW f, NEW c, NEW b, NEW e,
         Goes(g, h, bus, s, held, new, n, r, f, c, b, e)
  PROVE  /\ N \in Nat /\ SLOTS \in Nat /\ SLOTS > 0
         /\ g.ld \in 0..N /\ g.rl \in 0..N /\ g.pres \in Nat /\ g.rho \in 0..5
         /\ cur \in 0..N /\ cleared \in 0..N /\ fetched \in 0..N /\ beats \in Nat
         /\ g.rl <= cleared /\ cleared <= cur /\ cur <= g.ld /\ g.ld <= fetched
         /\ g.pres <= beats /\ fetched - cleared <= SLOTS /\ g.ld - g.rl <= SLOTS
         /\ h.ld \in Nat /\ h.rl \in Nat /\ h.pres \in Nat /\ h.rho \in 0..5
         /\ f \in 0..N /\ c \in 0..N /\ b \in Nat /\ e \in 0..N
         /\ fetched' = f /\ cur' = c /\ beats' = b /\ cleared' = e
         /\ f \in {fetched, fetched + 1} /\ c \in {cur, cur + 1} /\ e \in {cleared, cleared + 1}
         /\ h.ld \in {g.ld, g.ld + 1} /\ h.rl \in {g.rl, g.rl + 1}
         /\ h.rl <= e /\ e <= c /\ c <= h.ld /\ h.ld <= f /\ f - e <= SLOTS
         /\ c = cur + 1 => e <= cur /\ c <= g.ld /\ g.rl < c /\ b = 1
         /\ c = cur + 1 <=> Starts(bus)
         /\ h.pres <= b
<1>1. /\ Types /\ Bounds(g)
      /\ held = Held(bus) /\ Understood(bus) /\ Kinds(bus)
      /\ Counters(bus, held, new, f, c, b, e) /\ Follows(g, h, held, c)
      /\ Joining(bus, new)
  BY DEF DInv, Goes, Tick
<1>2. /\ N \in Nat /\ SLOTS \in Nat /\ SLOTS > 0
      /\ g.ld \in 0..N /\ g.rl \in 0..N /\ g.pres \in Nat /\ g.rho \in 0..5
      /\ cur \in 0..N /\ cleared \in 0..N /\ fetched \in 0..N /\ beats \in Nat
      /\ g.rl <= cleared /\ cleared <= cur /\ cur <= g.ld /\ g.ld <= fetched
  BY <1>1, Numbers
<1>3. g.pres <= beats /\ fetched - cleared <= SLOTS /\ g.ld - g.rl <= SLOTS
  BY <1>1 DEF Bounds
<1>4. /\ fetched' = f /\ cur' = c /\ beats' = b /\ cleared' = e
      /\ f = fetched \/ (f = fetched + 1 /\ f <= N /\ f - cleared <= SLOTS)
      /\ e = cleared \/ (e = cleared + 1 /\ e <= cur)
      /\ f = fetched \/ e = cleared
  <2>1. ~(Joins(new, "descriptor") /\ Joins(new, "status"))
    BY DEF Joins
  <2> QED BY <1>1, <1>2, <2>1 DEF Counters, One
<1>5. /\ c \in 0..N /\ c \in {cur, cur + 1} /\ b \in Nat
      /\ c = cur + 1 => e = cleared /\ c <= g.ld /\ g.rl < c /\ b = 1
      /\ c = cur + 1 <=> Starts(bus)
  <2>0. /\ Starts(bus) => cur' = cur + 1
        /\ Continues(bus) => cur' = cur
    BY DEF Starts, Continues
  <2>1. CASE Pauses(held, new, c, b)
    <3>1. c = cur /\ b = beats
      BY <2>1 DEF Pauses
    <3> QED BY <1>2, <1>4, <2>0, <3>1
  <2>2. CASE Advances(bus, held, new, c, b)
    <3>1. /\ \/ Starts(bus) /\ c = cur + 1 /\ b = 1
             \/ Continues(bus) /\ c = cur /\ b = beats + 1
          /\ ~Joins(new, "status")
      BY <2>2 DEF Advances
    <3>2. e = cleared
      BY <1>1, <1>2, <3>1 DEF Counters, One
    <3>3. Starts(bus) => cur + 1 \in 1..N /\ cur + 1 <= g.ld /\ g.rl < cur + 1
      BY StartsReady
    <3> QED BY <1>2, <1>4, <2>0, <3>1, <3>2, <3>3
  <2> QED BY <1>1, <2>1, <2>2 DEF Counters
<1>6. /\ h.ld \in Nat /\ h.rl \in Nat /\ h.pres \in Nat /\ h.rho \in 0..5
      /\ h.ld = g.ld \/ (h.ld = g.ld + 1 /\ g.ld < fetched)
      /\ h.rl = g.rl \/ (h.rl = g.rl + 1 /\ g.rl < cleared)
  <2>1. /\ Leaves(held, "descriptor") => g.ld < fetched
        /\ Leaves(held, "status") => g.rl < cleared
    BY HeadNumbers
  <2> QED BY <1>1, <1>2, <2>1 DEF Follows, One
<1>7. h.pres <= b
  BY <1>3, StreamsStep
<1> QED BY <1>2, <1>3, <1>4, <1>5, <1>6, <1>7

\* A status word comes after its operand's beats, before its slot's next use.
LEMMA OrderKept ==
  ASSUME DirectHost, NEW g \in Ghost, DInv(g), NEW bus \in Bus, NEW h,
         NEW s, NEW held, NEW new, NEW n, NEW r, NEW f, NEW c, NEW b, NEW e,
         Goes(g, h, bus, s, held, new, n, r, f, c, b, e)
  PROVE  Order'
<1>1. /\ Order /\ Run("descriptor", g.ld, fetched) /\ Run("status", g.rl, cleared) /\ Tags
      /\ Moves(s, held, new, n) /\ held = Held(bus) /\ Understood(bus) /\ Kinds(bus)
      /\ Counters(bus, held, new, f, c, b, e) /\ Joining(bus, new)
  BY DEF DInv, Goes, Tick, Streams
<1>2. /\ g.ld \in Nat /\ g.rl \in Nat /\ fetched \in Nat /\ cleared \in Nat /\ cur \in Nat
      /\ SLOTS \in Nat /\ fetched - cleared <= SLOTS /\ cleared <= cur
      /\ cur' = c /\ c \in {cur, cur + 1} /\ (c = cur + 1 <=> Starts(bus))
  BY Counted
<1>3. ASSUME Joins(new, "status"), NEW i \in Members("descriptor"),
             new[1].tag.k <= TagAt(i).k - SLOTS
      PROVE  FALSE
  <2>1. new[1].tag.k = cleared + 1
    BY <1>1, <1>3 DEF Counters, One
  <2>2. TagAt(i).want = "descriptor" /\ Num(TagAt(i)) \in (g.ld + 1)..fetched
    BY <1>1, MemberTags DEF Run
  <2>3. TagAt(i).k \in (g.ld + 1)..fetched
    BY <2>2 DEF Num, Operand
  <2> QED BY <1>2, <1>3, <2>1, <2>3
<1>4. ASSUME Joins(new, "beat"), NEW j \in Members("status"), TagAt(j).k = cur'
      PROVE  FALSE
  <2>1. TagAt(j).want = "status" /\ Num(TagAt(j)) \in (g.rl + 1)..cleared
    BY <1>1, MemberTags DEF Run
  <2>2. TagAt(j).k \in (g.rl + 1)..cleared
    BY <2>1 DEF Num, Operand
  <2>3. Starts(bus) \/ Continues(bus)
    <3>1. ~Pauses(held, new, c, b)
      BY <1>4 DEF Pauses
    <3> QED BY <1>1, <3>1 DEF Counters, Advances
  <2>4. Continues(bus) => cleared < cur
    BY ContinuesReady
  <2> QED BY <1>2, <1>4, <2>2, <2>3, <2>4
<1>5. cur' # cur => Members("beat") = {}
  BY <1>2, StartsReady
<1> QED BY <1>1, <1>3, <1>4, <1>5, OrderStep DEF JoinsInOrder

\* A descriptor never arrives at a slot that is still in use.
LEMMA RoomToLoad ==
  ASSUME DirectHost, NEW g \in Ghost, DInv(g), NEW held, Leaves(held, "descriptor")
  PROVE  g.ld - g.rl < SLOTS
<1>1. /\ P!Inv /\ Types /\ Bounds(g) /\ Order /\ Tags /\ Run("status", g.rl, cleared)
  BY DEF DInv, Streams
<1>2. /\ g.ld \in Nat /\ g.rl \in Nat /\ cleared \in Nat /\ fetched \in Nat /\ SLOTS \in Nat
  BY <1>1, Numbers
<1>3. fetched - cleared <= SLOTS /\ g.ld - g.rl <= SLOTS
  BY <1>1 DEF Bounds
<1>4. TagAt(0).k = g.ld + 1 /\ g.ld < fetched
  BY HeadNumbers
<1>5. SUFFICES ASSUME g.ld - g.rl = SLOTS PROVE FALSE
  BY <1>2, <1>3
<1>6. g.rl + 1 \in (g.rl + 1)..cleared
  BY <1>2, <1>3, <1>4, <1>5
<1>7. PICK j \in Members("status") : Num(TagAt(j)) = g.rl + 1
  BY <1>1, <1>6 DEF Run
<1>8. j \in Nat /\ TagAt(j).k = g.rl + 1
  <2>1. j \in Pos /\ TagAt(j).want = "status"
    BY <1>1, MemberTags
  <2> QED BY <1>1, <1>7, <2>1, PosRange DEF Num, Operand
<1>9. 0 \in Members("descriptor")
  BY DEF Leaves
<1>10. TagAt(j).k <= TagAt(0).k - SLOTS
  BY <1>2, <1>4, <1>5, <1>8
<1>11. j < 0
  BY <1>1, <1>9, <1>10 DEF Order
<1> QED BY <1>8, <1>11

\* A status word arrives when all beats of its operand have been presented.
LEMMA AllPresented ==
  ASSUME DirectHost, NEW g \in Ghost, DInv(g), NEW held, Leaves(held, "status"),
         g.rl + 1 = cur
  PROVE  g.pres = Chain[cur].beats /\ cleared = cur /\ cur \in 1..N
<1>1. /\ P!Inv /\ Types /\ Bounds(g) /\ Order /\ Run("beat", g.pres, beats)
  BY DEF DInv, Streams
<1>2. /\ g.rl \in Nat /\ cleared \in Nat /\ beats \in Nat /\ cur \in 0..N /\ N \in Nat
      /\ g.pres \in Nat /\ cleared <= cur
  BY <1>1, Numbers
<1>3. TagAt(0).k = g.rl + 1 /\ g.rl < cleared /\ 0 \in Members("status")
  BY HeadNumbers DEF Leaves
<1>4. cleared = cur /\ cur \in 1..N
  BY <1>2, <1>3
<1>5. beats = Chain[cur].beats /\ g.pres <= beats
  BY <1>1, <1>4 DEF Bounds
<1>6. ~(g.pres < beats)
  <2> SUFFICES ASSUME g.pres < beats PROVE FALSE
    OBVIOUS
  <2>1. beats \in (g.pres + 1)..beats
    BY <1>2
  <2>2. PICK i \in Members("beat") : Num(TagAt(i)) = beats
    BY <1>1, <2>1 DEF Run
  <2>3. i \in Nat
    BY <1>1, PosRange DEF Members
  <2>4. i < 0
    BY <1>1, <1>3, <2>2 DEF Order
  <2> QED BY <2>3, <2>4
<1> QED BY <1>2, <1>4, <1>5, <1>6

\* The counters of the host and of the device stay in step.
LEMMA BoundsStep ==
  ASSUME DirectHost, NEW g \in Ghost, DInv(g), NEW bus \in Bus, NEW h,
         NEW s, NEW held, NEW new, NEW n, NEW r, NEW f, NEW c, NEW b, NEW e,
         Goes(g, h, bus, s, held, new, n, r, f, c, b, e)
  PROVE  h \in Ghost /\ Bounds(h)'
<1>1. /\ Types /\ Bounds(g) /\ Tags /\ BeatsCurrent
      /\ held = Held(bus) /\ held \in BOOLEAN /\ Understood(bus) /\ Kinds(bus)
      /\ Counters(bus, held, new, f, c, b, e) /\ Follows(g, h, held, c)
      /\ Joining(bus, new) /\ AwaitingMoves(bus, r) /\ r \in {0, 1}
      /\ Len(awaiting) \in Nat
  BY DEF DInv, Goes, Tick, Streams, Moves, Answers, Types
<1>2. /\ N \in Nat /\ SLOTS \in Nat /\ SLOTS > 0
      /\ g.ld \in 0..N /\ g.rl \in 0..N /\ g.pres \in Nat
      /\ cur \in 0..N /\ cleared \in 0..N /\ fetched \in 0..N /\ beats \in Nat
      /\ g.rl <= cleared /\ cleared <= cur /\ cur <= g.ld /\ g.ld <= fetched
      /\ g.pres <= beats /\ g.ld - g.rl <= SLOTS
      /\ h.ld \in Nat /\ h.rl \in Nat /\ h.pres \in Nat
      /\ f \in 0..N /\ c \in 0..N /\ b \in Nat /\ e \in 0..N
      /\ fetched' = f /\ cur' = c /\ beats' = b /\ cleared' = e
      /\ c \in {cur, cur + 1} /\ e \in {cleared, cleared + 1}
      /\ h.ld \in {g.ld, g.ld + 1} /\ h.rl \in {g.rl, g.rl + 1}
      /\ h.rl <= e /\ e <= c /\ c <= h.ld /\ h.ld <= f /\ f - e <= SLOTS
      /\ h.pres <= b
  BY Counted
<1>20. c = cur + 1 => e <= cur /\ g.rl < c /\ b = 1
  BY Counted
<1>3. h \in Ghost
  <2>1. h \in [ld: Nat, rl: Nat, pres: Nat, rho: 0..5]
    BY <1>1 DEF Follows
  <2>2. h.ld \in 0..N /\ h.rl \in 0..N
    BY <1>2
  <2> QED BY <2>1, <2>2 DEF Ghost
<1>4. h.ld - h.rl <= SLOTS
  <2>1. CASE Leaves(held, "descriptor")
    <3>1. g.ld - g.rl < SLOTS
      BY <2>1, RoomToLoad
    <3> QED BY <1>2, <3>1
  <2>2. CASE ~Leaves(held, "descriptor")
    <3>1. h.ld = g.ld
      BY <1>1, <1>2, <2>2 DEF Follows, One
    <3> QED BY <1>2, <3>1
  <2> QED BY <2>1, <2>2
<1>5. Leaves(held, "beat") => g.pres < beats /\ cur \in 1..N /\ TagAt(0).want = Chain[cur].type
                              /\ TagAt(0).want \in Operand
  <2>1. Leaves(held, "beat") => 0 \in Members("beat")
    BY DEF Leaves
  <2> QED BY <1>1, <2>1, HeadNumbers, MemberTags
<1>6. /\ Pauses(held, new, c, b) =>
           /\ c = cur /\ b = beats /\ ~held
           /\ h.pres = g.pres + One(Leaves(held, "beat"))
      /\ Advances(bus, held, new, c, b) =>
           /\ b \in 1..Chain[c].beats /\ (held <=> Chain[c].type = "C") /\ c > 0
           /\ (Starts(bus) /\ c = cur + 1 /\ b = 1)
                \/ (Continues(bus) /\ c = cur /\ b = beats + 1 /\ cleared < cur)
  <2>1. Continues(bus) => cleared < cur
    BY ContinuesReady
  <2>2. Pauses(held, new, c, b) => c = cur /\ b = beats /\ ~held
    BY DEF Pauses
  <2>3. Pauses(held, new, c, b) => h.pres = g.pres + One(Leaves(held, "beat"))
    BY <1>1, <2>2 DEF Follows, Passing, One
  <2> QED BY <1>2, <2>1, <2>2, <2>3 DEF Advances
<1>7. c = 0 => b = 0 /\ h.pres = 0
  <2> SUFFICES ASSUME c = 0 PROVE b = 0 /\ h.pres = 0
    OBVIOUS
  <2>1. cur = 0 /\ beats = 0 /\ g.pres = 0
    BY <1>1, <1>2 DEF Bounds
  <2>2. Pauses(held, new, c, b)
    BY <1>1, <1>6 DEF Counters
  <2>3. ~Leaves(held, "beat")
    BY <1>5, <2>1
  <2> QED BY <1>6, <2>1, <2>2, <2>3 DEF One
<1>8. c > 0 => b \in 1..Chain[c].beats
  BY <1>1, <1>6 DEF Counters, Bounds
<1>9. c > 0 /\ Chain[c].type = "C" => h.pres = b
  <2> SUFFICES ASSUME c > 0, Chain[c].type = "C" PROVE h.pres = b
    OBVIOUS
  <2>1. CASE Pauses(held, new, c, b)
    <3>1. g.pres = beats
      BY <1>1, <1>6, <2>1 DEF Bounds
    <3>2. ~Leaves(held, "beat")
      BY <1>5, <1>6, <2>1 DEF Operand
    <3> QED BY <1>2, <1>6, <2>1, <3>1, <3>2 DEF One
  <2>2. CASE Advances(bus, held, new, c, b)
    <3>1. held
      BY <1>6, <2>2
    <3>2. CASE Starts(bus) /\ c = cur + 1 /\ b = 1
      <4>1. c # cur
        BY <1>2, <3>2
      <4> QED BY <1>1, <3>1, <3>2, <4>1 DEF Follows, Passing, One
    <3>3. CASE Continues(bus) /\ c = cur /\ b = beats + 1
      <4>1. g.pres = beats
        BY <1>1, <3>3 DEF Bounds
      <4> QED BY <1>1, <1>2, <3>1, <3>3, <4>1 DEF Follows, Passing, One
    <3> QED BY <1>6, <2>2, <3>2, <3>3
  <2> QED BY <1>1, <2>1, <2>2 DEF Counters
<1>10. c > 0 /\ e = c => Pauses(held, new, c, b) /\ b = Chain[c].beats /\ ~Awaits(BeatOf(cur))'
                         /\ e = cur
  <2> SUFFICES ASSUME c > 0, e = c
               PROVE  /\ Pauses(held, new, c, b) /\ b = Chain[c].beats
                      /\ ~Awaits(BeatOf(cur))' /\ e = cur
    OBVIOUS
  <2>1. Pauses(held, new, c, b)
    <3> SUFFICES ASSUME Advances(bus, held, new, c, b) PROVE FALSE
      BY <1>1 DEF Counters
    <3>1. ~Joins(new, "status")
      BY DEF Advances
    <3>2. e = cleared
      BY <1>1, <1>2, <3>1 DEF Counters, One
    <3> QED BY <1>2, <1>20, <1>6, <3>2
  <2>2. c = cur /\ b = beats
    BY <1>6, <2>1
  <2>3. beats = Chain[cur].beats /\ ~Awaits(BeatOf(cur))
    <3>1. CASE Joins(new, "status")
      BY <1>1, <2>2, <3>1 DEF Counters
    <3>2. CASE ~Joins(new, "status")
      <4>1. e = cleared
        BY <1>1, <1>2, <3>2 DEF Counters, One
      <4> QED BY <1>1, <2>2, <4>1 DEF Bounds
    <3> QED BY <3>1, <3>2
  <2>4. bus.want \notin Operand
    BY <1>1, <2>1 DEF Pauses, Joining
  <2>5. cur' = cur
    BY <1>2, <2>2
  <2>6. ~Awaits(BeatOf(cur))'
    BY <1>1, <2>3, <2>4, <2>5, NoneAwaited
  <2> QED BY <2>1, <2>2, <2>3, <2>6
<1>11. c > 0 /\ h.rl = c => h.pres = Chain[c].beats
  <2> SUFFICES ASSUME c > 0, h.rl = c PROVE h.pres = Chain[c].beats
    OBVIOUS
  <2>1. e = c
    BY <1>2
  <2>2. Pauses(held, new, c, b) /\ c = cur /\ b = beats /\ ~held /\ beats = Chain[cur].beats
    BY <1>6, <1>10, <2>1
  <2>3. g.pres = Chain[cur].beats
    <3>1. CASE Leaves(held, "status")
      <4>1. g.rl + 1 = cur
        BY <1>1, <1>2, <2>2, <3>1 DEF Follows, One
      <4> QED BY <3>1, <4>1, AllPresented
    <3>2. CASE ~Leaves(held, "status")
      <4>1. g.rl = cur
        BY <1>1, <1>2, <2>2, <3>2 DEF Follows, One
      <4> QED BY <1>1, <2>2, <4>1 DEF Bounds
    <3> QED BY <3>1, <3>2
  <2>4. ~Leaves(held, "beat")
    BY <1>2, <1>5, <2>2, <2>3
  <2> QED BY <1>2, <1>6, <2>2, <2>3, <2>4 DEF One
<1>12. Bounds(h)'
  BY <1>2, <1>4, <1>7, <1>8, <1>9, <1>10, <1>11 DEF Bounds
<1> QED BY <1>3, <1>12

-----------------------------------------------------------------------------
(***************************************************************************)
(* Switching on, clearing, switching off.                                  *)
(***************************************************************************)
\* The command that joins is a write to the address.
Enters(new, a) == new # <<>> /\ ~new[1].rd /\ new[1].tag.addr = a

\* At most one write to a control address is under way.
LEMMA WritingStep ==
  ASSUME NEW s, NEW held, NEW new, NEW n, Moves(s, held, new, n), NEW a,
         \A i, j \in Writing(a) : i = j, Enters(new, a) => Writing(a) = {}
  PROVE  /\ \A i, j \in Writing(a)' : i = j
         /\ Writing(a)' # {} <=> Enters(new, a) \/ (Writing(a) # {} /\ ~Written(held, a))
<1>0. s \in {0, 1} /\ n \in Nat /\ held \in BOOLEAN /\ \A i \in Pos : i \in Nat
  BY PosNat DEF Moves
<1>1. ASSUME NEW i \in Writing(a)'
      PROVE  \/ i = n + 1 /\ Enters(new, a)
             \/ i <= n /\ i + s \in Writing(a) /\ (held \/ i + s > 0)
  <2>1. i \in Pos' /\ ~Ent(i)'.rd /\ TagAt(i)'.addr = a
    BY DEF Writing
  <2>2. \/ new # <<>> /\ i = n + 1 /\ Ent(i)' = new[1]
        \/ i <= n /\ i + s \in Pos /\ (held \/ i + s > 0) /\ Ent(i)' = Ent(i + s)
    BY <2>1 DEF Moves
  <2> QED BY <2>1, <2>2 DEF Writing, TagAt, Enters
<1>2. ASSUME NEW j \in Writing(a), held \/ j > 0
      PROVE  j - s \in Writing(a)'
  <2>1. j \in Pos /\ ~Ent(j).rd /\ TagAt(j).addr = a
    BY DEF Writing
  <2>2. j - s \in Pos' /\ Ent(j - s)' = Ent(j)
    BY <1>2, <2>1 DEF Moves
  <2> QED BY <2>1, <2>2 DEF Writing, TagAt
<1>3. ASSUME Enters(new, a) PROVE n + 1 \in Writing(a)'
  <2>1. n + 1 \in Pos' /\ Ent(n + 1)' = new[1]
    BY <1>3 DEF Moves, Enters
  <2> QED BY <1>3, <2>1 DEF Writing, TagAt, Enters
<1>4. ASSUME NEW i \in Writing(a)', NEW j \in Writing(a)' PROVE i = j
  <2>1. CASE Enters(new, a)
    BY <1>1, <2>1
  <2>2. CASE ~Enters(new, a)
    <3>1. /\ i + s \in Writing(a) /\ j + s \in Writing(a) /\ i \in Pos' /\ j \in Pos'
      BY <1>1, <2>2 DEF Writing
    <3>2. i + s = j + s /\ i \in Nat /\ j \in Nat
      BY <3>1, PosNat
    <3> QED BY <1>0, <3>2
  <2> QED BY <2>1, <2>2
<1>5. ASSUME Writing(a) # {}, ~Written(held, a) PROVE Writing(a)' # {}
  <2>1. PICK j : j \in Writing(a)
    BY <1>5
  <2>2. j \in Nat
    BY <1>0, <2>1 DEF Writing
  <2>3. held \/ j > 0
    BY <1>0, <1>5, <2>1, <2>2 DEF Written
  <2> QED BY <1>2, <2>1, <2>3
<1>6. ASSUME Writing(a)' # {}, ~Enters(new, a) PROVE Writing(a) # {} /\ ~Written(held, a)
  <2>1. PICK i : i \in Writing(a)'
    BY <1>6
  <2>2. i + s \in Writing(a) /\ (held \/ i + s > 0)
    BY <1>1, <1>6, <2>1
  <2>3. ~Written(held, a)
    <3> SUFFICES ASSUME ~held, 0 \in Writing(a) PROVE FALSE
      BY DEF Written
    <3>1. i + s = 0
      BY <2>2
    <3> QED BY <2>2, <3>1
  <2> QED BY <2>2, <2>3
<1> QED BY <1>3, <1>4, <1>5, <1>6

\* Which steps of the host write the control registers.
LEMMA ControlWrites ==
  ASSUME DirectHost, NEW g \in Ghost, DInv(g), NEW bus \in Bus, Kinds(bus), Understood(bus),
         NEW new, new = Command(bus), Joining(bus, new)
  PROVE  /\ Enters(new, Desc!AIM_WORK_SIG) => SwitchOn(bus) \/ SwitchOff(bus)
         /\ Enters(new, Desc!HPC_CLR_SIG) => Clears(bus)
         /\ SwitchOn(bus) \/ SwitchOff(bus) =>
              Enters(new, Desc!AIM_WORK_SIG) /\ ~Enters(new, Desc!HPC_CLR_SIG)
         /\ Clears(bus) => Enters(new, Desc!HPC_CLR_SIG)
<1>1. Desc!AIM_WORK_SIG # Desc!HPC_CLR_SIG
  BY DEF Desc!AIM_WORK_SIG, Desc!HPC_CLR_SIG
<1>2. /\ new # <<>> <=> (bus.rd \/ bus.wr) /\ bus.want # "C"
      /\ new # <<>> => new[1].rd = bus.rd /\ new[1].tag.addr = bus.addr
  BY DEF Understood, Joining
<1>3. /\ SwitchOn(bus) \/ SwitchOff(bus) =>
           bus.wr /\ ~bus.rd /\ bus.want = "other" /\ bus.addr = Desc!AIM_WORK_SIG
      /\ Clears(bus) => bus.wr /\ ~bus.rd /\ bus.want = "other" /\ bus.addr = Desc!HPC_CLR_SIG
  BY DEF SwitchOn, SwitchOff, Clears, Controls
<1>4. ASSUME NEW a \in {Desc!AIM_WORK_SIG, Desc!HPC_CLR_SIG}, Enters(new, a)
      PROVE  SwitchOn(bus) \/ SwitchOff(bus) \/ Clears(bus)
  <2>1. ~bus.rd /\ bus.addr = a /\ bus.want # "C"
    BY <1>2, <1>4 DEF Enters
  <2>2. ~Quiet(bus)
    BY <2>1 DEF Quiet, Foreign
  <2>3. ~Fetches(bus) /\ ~Starts(bus) /\ ~Continues(bus)
    BY <2>1 DEF Fetches, Starts, Continues, Streaming
  <2>4. ~Reports(bus)
    <3> SUFFICES ASSUME Reports(bus) PROVE FALSE
      OBVIOUS
    <3>1. Desc!InDescRange(bus.addr)
      BY ReportMeans
    <3> QED BY <2>1, <3>1, DescriptorMemory
  <2> QED BY <2>2, <2>3, <2>4 DEF Kinds
<1>5. Enters(new, Desc!AIM_WORK_SIG) => SwitchOn(bus) \/ SwitchOff(bus)
  BY <1>1, <1>2, <1>3, <1>4 DEF Enters
<1>6. Enters(new, Desc!HPC_CLR_SIG) => Clears(bus)
  BY <1>1, <1>2, <1>3, <1>4 DEF Enters
<1>7. /\ SwitchOn(bus) \/ SwitchOff(bus) =>
           Enters(new, Desc!AIM_WORK_SIG) /\ ~Enters(new, Desc!HPC_CLR_SIG)
      /\ Clears(bus) => Enters(new, Desc!HPC_CLR_SIG)
  BY <1>1, <1>2, <1>3 DEF Enters
<1> QED BY <1>5, <1>6, <1>7

\* The switch follows the control writes, of which one at most is under way.
LEMMA ControlStep ==
  ASSUME DirectHost, NEW g \in Ghost, DInv(g), NEW bus \in Bus,
         NEW s, NEW held, NEW new, NEW n, NEW r, Tick(bus, s, held, new, n, r),
         NEW k, DeviceEdge(k, bus, held), Joining(bus, new)
  PROVE  Control'
<1>1. /\ Types /\ Bounds(g) /\ Control /\ PendingTimed
      /\ Moves(s, held, new, n) /\ Kinds(bus) /\ Understood(bus) /\ Waits(held)
      /\ held = Held(bus) /\ new = Command(bus)
  BY DEF DInv, Tick, Timing
<1>2. /\ N \in Nat /\ LATENCY \in Nat /\ Len(Setup) \in Nat /\ Len(Setup) >= 2
      /\ cleared \in 0..N /\ fetched \in 0..N /\ cur \in 0..N /\ g.ld \in 0..N
      /\ cleared <= cur /\ cur <= g.ld /\ g.ld <= fetched
      /\ idle \in Nat /\ setup \in Nat
  BY <1>1, Numbers
<1>3. /\ Enters(new, Desc!AIM_WORK_SIG) => SwitchOn(bus) \/ SwitchOff(bus)
      /\ Enters(new, Desc!HPC_CLR_SIG) => Clears(bus)
      /\ SwitchOn(bus) \/ SwitchOff(bus) => Enters(new, Desc!AIM_WORK_SIG)
      /\ Clears(bus) => Enters(new, Desc!HPC_CLR_SIG)
  BY <1>1, ControlWrites
<1>4. Settled => /\ ~HPC_clear_sig /\ ~Clearing
                 /\ Writing(Desc!AIM_WORK_SIG) = {} /\ Writing(Desc!HPC_CLR_SIG) = {}
  BY Quiescent
<1>5. SwitchOn(bus) \/ SwitchOff(bus) \/ Clears(bus) => Settled
  BY DEF SwitchOn, SwitchOff, Clears, Controls
<1>6. PICK on, off : on = Written(held, Desc!AIM_WORK_SIG) /\ off = Written(held, Desc!HPC_CLR_SIG)
  OBVIOUS
<1>60. on \in BOOLEAN /\ off \in BOOLEAN
  BY <1>6 DEF Written
<1>7. /\ \A i, j \in Writing(Desc!AIM_WORK_SIG)' : i = j
      /\ Writing(Desc!AIM_WORK_SIG)' # {} <=>
           \/ SwitchOn(bus) \/ SwitchOff(bus)
           \/ Writing(Desc!AIM_WORK_SIG) # {} /\ ~on
  <2>1. \A i, j \in Writing(Desc!AIM_WORK_SIG) : i = j
    BY <1>1 DEF Control
  <2>2. Enters(new, Desc!AIM_WORK_SIG) => Writing(Desc!AIM_WORK_SIG) = {}
    BY <1>3, <1>4, <1>5
  <2>3. PICK a : a = Desc!AIM_WORK_SIG
    OBVIOUS
  <2>4. /\ \A i, j \in Writing(a)' : i = j
        /\ Writing(a)' # {} <=> Enters(new, a) \/ (Writing(a) # {} /\ ~Written(held, a))
    BY <1>1, <2>1, <2>2, <2>3, WritingStep
  <2>5. Writing(Desc!AIM_WORK_SIG)' = Writing(a)'
    BY <2>3 DEF Writing
  <2> QED BY <1>3, <1>6, <2>3, <2>4, <2>5
<1>8. /\ \A i, j \in Writing(Desc!HPC_CLR_SIG)' : i = j
      /\ Writing(Desc!HPC_CLR_SIG)' # {} <=>
           Clears(bus) \/ (Writing(Desc!HPC_CLR_SIG) # {} /\ ~off)
  <2>1. \A i, j \in Writing(Desc!HPC_CLR_SIG) : i = j
    BY <1>1 DEF Control
  <2>2. Enters(new, Desc!HPC_CLR_SIG) => Writing(Desc!HPC_CLR_SIG) = {}
    BY <1>3, <1>4, <1>5
  <2>3. PICK a : a = Desc!HPC_CLR_SIG
    OBVIOUS
  <2>4. /\ \A i, j \in Writing(a)' : i = j
        /\ Writing(a)' # {} <=> Enters(new, a) \/ (Writing(a) # {} /\ ~Written(held, a))
    BY <1>1, <2>1, <2>2, <2>3, WritingStep
  <2>5. Writing(Desc!HPC_CLR_SIG)' = Writing(a)'
    BY <2>3 DEF Writing
  <2> QED BY <1>3, <1>6, <2>3, <2>4, <2>5
<1>9. /\ on => Writing(Desc!AIM_WORK_SIG) # {}
      /\ off => Writing(Desc!HPC_CLR_SIG) # {} /\ 0 \in Writing(Desc!HPC_CLR_SIG)
  BY <1>6 DEF Written
<1>10. /\ HPC_clear_sig' = off
       /\ AIM_working' = IF on THEN ~AIM_working ELSE AIM_working
  BY <1>6 DEF DeviceEdge
\* What the step does to the session.
<1>11. PICK u, v : u = setup' /\ v = fetched'
  OBVIOUS
<1>12. \/ SwitchOn(bus) /\ setup = 0 /\ u = 1 /\ v = 0 /\ cleared' = 0
       \/ SwitchOff(bus) /\ Open /\ cleared = N /\ u = 0 /\ v = fetched /\ cleared' = cleared
       \/ Clears(bus) /\ setup = 1 /\ u = 2 /\ v = fetched /\ cleared' = cleared
       \/ /\ Quiet(bus) /\ u = setup /\ v = fetched /\ cleared' = cleared
       \/ /\ Quiet(bus) /\ Settled /\ setup >= 2 /\ setup < Len(Setup) /\ u = setup + 1
          /\ v = fetched /\ cleared' = cleared
       \/ /\ Open /\ u = setup /\ (v = fetched \/ (v = fetched + 1 /\ (fetched = 0 => Settled)))
          /\ ~SwitchOn(bus) /\ ~SwitchOff(bus) /\ ~Clears(bus)
  <2>1. CASE Quiet(bus) \/ SwitchOn(bus) \/ SwitchOff(bus) \/ Clears(bus)
    BY <1>11, <2>1 DEF Quiet, SwitchOn, SwitchOff, Clears
  <2>2. CASE Fetches(bus) \/ Starts(bus) \/ Continues(bus) \/ Reports(bus)
    <3>1. /\ Open /\ u = setup /\ (v = fetched \/ (v = fetched + 1 /\ (fetched = 0 => Settled)))
      BY <1>11, <2>2 DEF Fetches, Starts, Continues, Reports
    <3>2. setup # 0 /\ setup # 1 /\ setup >= 2
      BY <3>1, OnWhenOpen
    <3>3. ~SwitchOn(bus) /\ ~Clears(bus) /\ ~SwitchOff(bus)
      BY <1>2, <1>11, <3>1, <3>2 DEF SwitchOn, SwitchOff, Clears
    <3> QED BY <3>1, <3>3
  <2> QED BY <1>1, <2>1, <2>2 DEF Kinds
<1>13. /\ Open <=> setup = Len(Setup)
       /\ Open' <=> u = Len(Setup)
  BY <1>11 DEF Open
<1>14. /\ ~(SwitchOn(bus) /\ SwitchOff(bus)) /\ ~(SwitchOn(bus) /\ Clears(bus))
       /\ ~(SwitchOff(bus) /\ Clears(bus))
       /\ Quiet(bus) => ~SwitchOn(bus) /\ ~SwitchOff(bus) /\ ~Clears(bus)
  <2>1. Quiet(bus) => ~SwitchOn(bus) /\ ~SwitchOff(bus) /\ ~Clears(bus)
    BY DEF Quiet, Foreign, SwitchOn, SwitchOff, Clears, Controls
  <2> QED BY <1>2, <1>13, <2>1 DEF SwitchOn, SwitchOff, Clears
<1>15. PICK w, x : w = (Writing(Desc!AIM_WORK_SIG) # {}) /\ x = (Writing(Desc!HPC_CLR_SIG) # {})
  OBVIOUS
<1>16. /\ AIM_working \in BOOLEAN
       /\ AIM_working <=> ((setup >= 1) # w)
       /\ w => setup \in {0, 1}
       /\ HPC_clear_sig \/ x => setup = 2 /\ fetched = 0
       /\ setup >= 1 /\ ~Open => fetched = 0
       /\ setup = 0 => cleared = fetched
       /\ Settled => ~HPC_clear_sig /\ ~w /\ ~x
       /\ on => w 
       /\ off => x
       /\ w \in BOOLEAN /\ x \in BOOLEAN
  BY <1>1, <1>4, <1>9, <1>15 DEF Control, Clearing, Types, Desc!TypeOK
<1>161. AIM_working <=> (setup >= 1 <=> ~w)
  <2>1. PICK p : p = (setup >= 1)
    OBVIOUS
  <2>2. p \in BOOLEAN /\ (AIM_working <=> (p # w))
    BY <1>16, <2>1
  <2>3. (p # w) <=> (p <=> ~w)
    BY <1>16, <2>2
  <2> QED BY <2>1, <2>2, <2>3
<1>17. PICK w2, x2 : /\ w2 = (SwitchOn(bus) \/ SwitchOff(bus) \/ (w /\ ~on))
                   /\ x2 = (Clears(bus) \/ (x /\ ~off))
  OBVIOUS
<1>18. /\ Writing(Desc!AIM_WORK_SIG)' # {} <=> w2
       /\ Writing(Desc!HPC_CLR_SIG)' # {} <=> x2
  BY <1>7, <1>8, <1>15, <1>17
<1>19. AIM_working' <=> (u >= 1 <=> ~w2)
  <2>1. CASE SwitchOn(bus) \/ SwitchOff(bus)
    <3>1. ~w /\ ~on /\ w2
      BY <1>5, <1>16, <1>17, <2>1
    <3>2. AIM_working' <=> (setup >= 1)
      BY <1>10, <1>16, <1>161, <3>1
    <3> QED BY <1>2, <1>12, <1>13, <1>14, <2>1, <3>1, <3>2
  <2>2. CASE ~(SwitchOn(bus) \/ SwitchOff(bus))
    <3>1. u >= 1 <=> setup >= 1
      BY <1>2, <1>12, <2>2
    <3>2. w2 <=> w /\ ~on
      BY <1>17, <2>2
    <3>3. CASE on
      <4>1. AIM_working' <=> ~AIM_working
        BY <1>10, <1>16, <3>3
      <4> QED BY <1>16, <1>161, <3>1, <3>2, <3>3, <4>1
    <3>4. CASE ~on
      <4>1. AIM_working' <=> AIM_working
        BY <1>10, <1>16, <3>4
      <4> QED BY <1>16, <1>161, <3>1, <3>2, <3>4, <4>1
    <3> QED BY <3>3, <3>4
  <2> QED BY <2>1, <2>2
<1>20. w2 => u \in {0, 1}
  <2>1. CASE SwitchOn(bus) \/ SwitchOff(bus)
    BY <1>12, <1>14, <2>1
  <2>2. CASE ~(SwitchOn(bus) \/ SwitchOff(bus))
    BY <1>2, <1>5, <1>12, <1>13, <1>16, <1>17, <2>2
  <2> QED BY <2>1, <2>2
<1>21. off \/ x2 => u = 2 /\ v = 0
  <2>1. CASE Clears(bus)
    <3>1. u = 2 /\ v = fetched /\ setup = 1
      BY <1>11, <2>1 DEF Clears
    <3>2. ~Open
      <4>1. PICK l : l = Len(Setup)
        OBVIOUS
      <4>2. l \in Nat /\ l >= 2
        BY <1>2, <4>1
      <4>3. l # 1
        BY <4>2
      <4> QED BY <1>13, <3>1, <4>1, <4>3
    <3> QED BY <1>16, <3>1, <3>2
  <2>2. CASE ~Clears(bus)
    <3> SUFFICES ASSUME off \/ x2 PROVE u = 2 /\ v = 0
      OBVIOUS
    <3>1. x /\ setup = 2 /\ fetched = 0 /\ ~Settled
      BY <1>16, <1>17, <2>2
    <3> QED BY <1>2, <1>5, <1>12, <2>2, <3>1
  <2> QED BY <2>1, <2>2
<1>22. off => idle' <= LATENCY + 2 /\ ~x2
  <2> SUFFICES ASSUME off PROVE idle' <= LATENCY + 2 /\ ~x2
    OBVIOUS
  <2>1. 0 \in Pending
    BY <1>9 DEF Pending, Writing
  <2>2. idle + 0 <= LATENCY + 1
    BY <1>1, <2>1 DEF PendingTimed
  <2>3. idle' = 0 \/ idle' = idle \/ idle' = idle + 1
    BY <1>1 DEF Waits
  <2>4. ~x2
    BY <1>5, <1>16, <1>17
  <2>5. PICK z : z = idle'
    OBVIOUS
  <2>6. z <= LATENCY + 2
    BY <1>2, <2>2, <2>3, <2>5
  <2> QED BY <2>4, <2>5, <2>6
<1>23. u >= 1 /\ u # Len(Setup) => v = 0
  BY <1>2, <1>12, <1>13, <1>16
<1>24. u = 0 => cleared' = v
  BY <1>2, <1>12, <1>13, <1>16
<1>25. Clearing' <=> off \/ x2
  BY <1>10, <1>18, <1>60 DEF Clearing
<1>26. /\ Writing(Desc!AIM_WORK_SIG)' # {} => setup' \in {0, 1}
       /\ Clearing' => setup' = 2 /\ fetched' = 0
       /\ HPC_clear_sig' => idle' <= LATENCY + 2 /\ Writing(Desc!HPC_CLR_SIG)' = {}
       /\ setup' >= 1 /\ ~Open' => fetched' = 0
       /\ setup' = 0 => cleared' = fetched'
  BY <1>10, <1>11, <1>13, <1>18, <1>20, <1>21, <1>22, <1>23, <1>24, <1>25
<1>27. AIM_working' <=> ((setup' >= 1) # (Writing(Desc!AIM_WORK_SIG)' # {}))
  <2>1. PICK p, w3 : p = (setup' >= 1) /\ w3 = (Writing(Desc!AIM_WORK_SIG)' # {})
    OBVIOUS
  <2>2. p \in BOOLEAN /\ w3 \in BOOLEAN /\ (w3 <=> w2) /\ (p <=> u >= 1)
    <3>1. (w3 <=> w2) /\ w3 \in BOOLEAN
      BY <1>18, <2>1, Zenon
    <3>2. p = (u >= 1) /\ p \in BOOLEAN
      BY <1>11, <2>1
    <3> QED BY <3>1, <3>2
  <2>3. (p # w3) <=> (p <=> ~w3)
    BY <2>2
  <2>4. AIM_working' <=> (p # w3)
    BY <1>19, <2>2, <2>3
  <2> QED BY <2>1, <2>4
<1> QED BY <1>7, <1>8, <1>26, <1>27 DEF Control

-----------------------------------------------------------------------------
(***************************************************************************)
(* The slots and the ring pointers.                                        *)
(***************************************************************************)
\* Nothing is fetched before the device is switched on and cleared.
LEMMA ReadyFacts ==
  ASSUME DirectHost, NEW g \in Ghost, DInv(g)
  PROVE  /\ fetched > 0 => Ready /\ ~Clearing
         /\ Clearing => /\ fetched = 0 /\ cur = 0 /\ g.ld = 0 /\ g.rl = 0 /\ setup = 2
                        /\ \A held : /\ ~Leaves(held, "descriptor")
                                     /\ ~Leaves(held, "status") /\ ~Leaves(held, "beat")
<1>1. /\ Types /\ Bounds(g) /\ Control
  BY DEF DInv
<1>2. /\ N \in Nat /\ Len(Setup) \in Nat /\ Len(Setup) >= 2 /\ setup \in 0..Len(Setup)
      /\ g.ld \in 0..N /\ g.rl \in 0..N /\ cur \in 0..N /\ cleared \in 0..N /\ fetched \in 0..N
      /\ g.rl <= cleared /\ cleared <= cur /\ cur <= g.ld /\ g.ld <= fetched
  BY <1>1, Numbers
<1>3. PICK l : l = Len(Setup)
  OBVIOUS
<1>4. fetched > 0 => Ready /\ ~Clearing
  <2> SUFFICES ASSUME fetched > 0 PROVE Ready /\ ~Clearing
    OBVIOUS
  <2>1. ~Clearing
    BY <1>1, <1>2 DEF Control
  <2>2. setup # 1
    <3> SUFFICES ASSUME setup = 1 PROVE FALSE
      OBVIOUS
    <3>1. l \in Nat /\ l >= 2
      BY <1>2, <1>3
    <3>2. ~Open
      BY <1>3, <3>1 DEF Open
    <3> QED BY <1>1, <1>2, <3>2 DEF Control
  <2>3. setup \in Nat
    BY <1>2
  <2> QED BY <2>1, <2>2, <2>3 DEF Ready
<1>5. ASSUME Clearing
      PROVE  /\ fetched = 0 /\ cur = 0 /\ g.ld = 0 /\ g.rl = 0 /\ setup = 2
             /\ \A held : /\ ~Leaves(held, "descriptor")
                          /\ ~Leaves(held, "status") /\ ~Leaves(held, "beat")
  <2>1. fetched = 0 /\ setup = 2
    BY <1>1, <1>5 DEF Control
  <2>2. cur = 0 /\ g.ld = 0 /\ g.rl = 0 /\ cleared = 0
    BY <1>2, <2>1
  <2>3. ASSUME NEW held
        PROVE  /\ ~Leaves(held, "descriptor") /\ ~Leaves(held, "status")
               /\ ~Leaves(held, "beat")
    <3>1. /\ Leaves(held, "descriptor") => g.ld < fetched
          /\ Leaves(held, "status") => g.rl < cleared
          /\ Leaves(held, "beat") => cur \in 1..N
      BY HeadNumbers
    <3> QED BY <2>1, <2>2, <3>1
  <2> QED BY <2>1, <2>2, <2>3
<1> QED BY <1>4, <1>5

\* A descriptor fills its slot, a status word empties it.
LEMMA SlotsStep ==
  ASSUME DirectHost, NEW g \in Ghost, DInv(g), NEW bus \in Bus, NEW h,
         NEW s, NEW held, NEW new, NEW n, NEW r, NEW f, NEW c, NEW b, NEW e,
         Goes(g, h, bus, s, held, new, n, r, f, c, b, e)
  PROVE  SlotsMatch(h)'
<1>1. /\ SlotsMatch(g) /\ Rings(g) /\ DeviceEdge(g.ld + 1, bus, held) /\ Follows(g, h, held, c)
  BY DEF DInv, Goes
<1>2. /\ N \in Nat /\ SLOTS \in Nat /\ SLOTS > 0 /\ g.ld \in 0..N /\ g.rl \in 0..N
      /\ g.rl <= cleared /\ cleared <= cur /\ cur <= g.ld /\ g.ld <= fetched
      /\ cleared \in Nat /\ fetched \in Nat
      /\ g.ld - g.rl <= SLOTS /\ h.ld \in Nat /\ h.rl \in Nat
      /\ g.rl <= g.ld /\ cur \in Nat
  BY Counted
<1>3. /\ h.ld = g.ld + One(Leaves(held, "descriptor"))
      /\ h.rl = g.rl + One(Leaves(held, "status"))
  BY <1>1 DEF Follows
<1>4. slot' = [i \in 0..(SLOTS - 1) |->
                IF HPC_clear_sig \/ (Leaves(held, "status") /\ clr_ptr = i)
                THEN Desc!EmptySlot
                ELSE IF Leaves(held, "descriptor") /\ wr_ptr = i THEN Content(g.ld + 1)
                ELSE slot[i]]
  BY <1>1 DEF DeviceEdge
<1>5. CASE HPC_clear_sig
  <2>1. /\ g.ld = 0 /\ g.rl = 0 /\ ~Leaves(held, "descriptor") /\ ~Leaves(held, "status")
    BY <1>5, ReadyFacts DEF Clearing
  <2>2. h.ld = 0 /\ h.rl = 0
    BY <1>3, <2>1 DEF One
  <2>3. \A i \in 0..(SLOTS - 1) : slot'[i] = Desc!EmptySlot
    BY <1>4, <1>5
  <2> QED BY <2>2, <2>3 DEF SlotsMatch
<1>6. CASE ~HPC_clear_sig
  <2>0. /\ \A i \in 0..(SLOTS - 1) :
             /\ Leaves(held, "status") /\ clr_ptr = i => slot'[i] = Desc!EmptySlot
             /\ ~(Leaves(held, "status") /\ clr_ptr = i)
                  /\ Leaves(held, "descriptor") /\ wr_ptr = i => slot'[i] = Content(g.ld + 1)
             /\ ~(Leaves(held, "status") /\ clr_ptr = i)
                  /\ ~(Leaves(held, "descriptor") /\ wr_ptr = i) => slot'[i] = slot[i]
    BY <1>4, <1>6
  <2>1. Leaves(held, "status") =>
          /\ clr_ptr = SlotOf(g.rl + 1) /\ g.rl + 1 \in (g.rl + 1)..g.ld
          /\ ~Leaves(held, "descriptor")
    <3> SUFFICES ASSUME Leaves(held, "status")
                 PROVE  /\ clr_ptr = SlotOf(g.rl + 1) /\ g.rl + 1 \in (g.rl + 1)..g.ld
                        /\ ~Leaves(held, "descriptor")
      OBVIOUS
    <3>1. g.rl < cleared /\ ~Leaves(held, "descriptor")
      BY HeadNumbers
    <3>2. fetched > 0 /\ g.rl + 1 \in (g.rl + 1)..g.ld
      BY <1>2, <3>1
    <3>3. clr_ptr = g.rl % SLOTS
      BY <1>1, <3>2, ReadyFacts DEF Rings
    <3>4. SlotOf(g.rl + 1) = g.rl % SLOTS
      BY <1>2 DEF SlotOf
    <3> QED BY <3>1, <3>2, <3>3, <3>4
  <2>2. Leaves(held, "descriptor") =>
          wr_ptr = SlotOf(g.ld + 1) /\ g.ld - g.rl < SLOTS
    <3> SUFFICES ASSUME Leaves(held, "descriptor")
                 PROVE  wr_ptr = SlotOf(g.ld + 1) /\ g.ld - g.rl < SLOTS
      OBVIOUS
    <3>1. g.ld < fetched /\ g.ld - g.rl < SLOTS
      BY HeadNumbers, RoomToLoad
    <3>2. fetched > 0
      BY <1>2, <3>1
    <3>3. wr_ptr = g.ld % SLOTS
      BY <1>1, <3>2, ReadyFacts DEF Rings
    <3>4. SlotOf(g.ld + 1) = g.ld % SLOTS
      BY <1>2 DEF SlotOf
    <3> QED BY <3>1, <3>3, <3>4
  <2>3. ASSUME NEW k \in (h.rl + 1)..h.ld PROVE slot'[SlotOf(k)] = Content(k)
    <3>1. k \in Nat \ {0} /\ SlotOf(k) \in 0..(SLOTS - 1)
      <4>1. k \in Nat \ {0}
        BY <1>2
      <4> QED BY <4>1, SlotFacts
    <3>2. CASE Leaves(held, "descriptor") /\ k = g.ld + 1
      BY <2>0, <2>1, <2>2, <3>1, <3>2
    <3>3. CASE ~(Leaves(held, "descriptor") /\ k = g.ld + 1)
      <4>1. k \in (g.rl + 1)..g.ld /\ (Leaves(held, "status") => k # g.rl + 1)
        BY <1>2, <1>3, <3>3 DEF One
      <4>2. Leaves(held, "status") => SlotOf(k) # SlotOf(g.rl + 1)
        <5>1. g.rl + 1 \in Nat \ {0} /\ g.rl + 1 < k + SLOTS /\ k < (g.rl + 1) + SLOTS
          BY <1>2, <4>1
        <5> QED BY <3>1, <4>1, <5>1, SlotFacts
      <4>3. Leaves(held, "descriptor") => SlotOf(k) # SlotOf(g.ld + 1)
        <5> SUFFICES ASSUME Leaves(held, "descriptor") PROVE SlotOf(k) # SlotOf(g.ld + 1)
          OBVIOUS
        <5>1. g.ld + 1 \in Nat \ {0} /\ g.ld + 1 < k + SLOTS /\ k < (g.ld + 1) + SLOTS
              /\ k # g.ld + 1
          BY <1>2, <2>2, <4>1
        <5> QED BY <3>1, <5>1, SlotFacts
      <4>4. slot'[SlotOf(k)] = slot[SlotOf(k)]
        BY <2>0, <2>1, <2>2, <3>1, <4>2, <4>3
      <4>5. slot[SlotOf(k)] = Content(k)
        BY <1>1, <4>1 DEF SlotsMatch
      <4> QED BY <4>4, <4>5
    <3> QED BY <3>2, <3>3
  <2>4. ASSUME NEW i \in 0..(SLOTS - 1), \A k \in (h.rl + 1)..h.ld : SlotOf(k) # i
        PROVE  slot'[i] = Desc!EmptySlot
    <3>1. CASE Leaves(held, "status") /\ clr_ptr = i
      BY <2>0, <3>1
    <3>2. CASE ~(Leaves(held, "status") /\ clr_ptr = i)
      <4>1. \A k \in (g.rl + 1)..g.ld : SlotOf(k) # i
        <5> SUFFICES ASSUME NEW k \in (g.rl + 1)..g.ld, SlotOf(k) = i PROVE FALSE
          OBVIOUS
        <5>1. Leaves(held, "status") => k # g.rl + 1
          BY <2>1, <3>2
        <5>2. k \in (h.rl + 1)..h.ld
          BY <1>2, <1>3, <5>1 DEF One
        <5> QED BY <2>4, <5>2
      <4>2. ~(Leaves(held, "descriptor") /\ wr_ptr = i)
        <5> SUFFICES ASSUME Leaves(held, "descriptor"), wr_ptr = i PROVE FALSE
          OBVIOUS
        <5>1. ~Leaves(held, "status")
          BY <2>1
        <5>2. g.ld + 1 \in (h.rl + 1)..h.ld
          BY <1>2, <1>3, <5>1 DEF One
        <5> QED BY <2>2, <2>4, <5>2
      <4>3. slot'[i] = slot[i]
        BY <2>0, <3>2, <4>2
      <4> QED BY <1>1, <4>1, <4>3 DEF SlotsMatch
    <3> QED BY <3>1, <3>2
  <2> QED BY <2>3, <2>4 DEF SlotsMatch
<1> QED BY <1>5, <1>6

\* A device that is ready after the cycle was ready before it, or was cleared
\* in it.
LEMMA ReadyBefore ==
  ASSUME DirectHost, NEW g \in Ghost, DInv(g), NEW bus \in Bus, ~SwitchOn(bus),
         NEW s, NEW held, NEW new, NEW n, NEW r, Tick(bus, s, held, new, n, r),
         NEW k, DeviceEdge(k, bus, held), Joining(bus, new), Ready'
  PROVE  HPC_clear_sig \/ Ready
<1>1. /\ Types /\ Bounds(g) /\ Control /\ Control'
      /\ Moves(s, held, new, n) /\ Kinds(bus) /\ Understood(bus) /\ new = Command(bus)
  BY ControlStep DEF DInv, Tick
<1>2. setup \in Nat
  BY <1>1, Numbers
<1>3. SUFFICES ASSUME ~HPC_clear_sig, ~Ready PROVE FALSE
  OBVIOUS
<1>4. CASE setup = 1
  <2>0. ~Open /\ ~Starts(bus) /\ ~Continues(bus) /\ ~Fetches(bus) /\ ~Reports(bus) /\ ~SwitchOff(bus)
    <3>1. ~Open
      BY <1>4, OnWhenOpen
    <3> QED BY <3>1 DEF Starts, Continues, Fetches, Reports, SwitchOff
  <2>1. CASE Clears(bus)
    <3>1. Enters(new, Desc!HPC_CLR_SIG)
      BY <1>1, <2>1, ControlWrites
    <3>2. n + 1 \in Pos' /\ Ent(n + 1)' = new[1]
      BY <1>1, <3>1 DEF Moves, Enters
    <3>3. n + 1 \in Writing(Desc!HPC_CLR_SIG)'
      BY <3>1, <3>2 DEF Writing, TagAt, Enters
    <3>4. Clearing' /\ setup' = 2
      BY <2>1, <3>3 DEF Clearing, Clears
    <3> QED BY <3>4 DEF Ready
  <2>2. CASE Quiet(bus)
    <3>1. setup' = 1
      BY <1>4, <2>2 DEF Quiet
    <3> QED BY <3>1 DEF Ready
  <2> QED BY <1>1, <2>0, <2>1, <2>2 DEF Kinds
<1>5. CASE setup # 1
  <2>1. setup >= 2 /\ Clearing
    BY <1>2, <1>3, <1>5 DEF Ready
  <2>2. Writing(Desc!HPC_CLR_SIG) # {}
    BY <1>3, <2>1 DEF Clearing
  <2>3. setup = 2 /\ fetched = 0
    BY <1>1, <2>1 DEF Control
  <2>4. ~Settled
    BY <2>1, Quiescent
  <2>5. ~Clears(bus) /\ ~SwitchOff(bus) /\ ~Fetches(bus) /\ ~Starts(bus)
    BY <2>3, <2>4 DEF Clears, SwitchOff, Controls, Fetches, Starts
  <2>6. setup' = 2
    BY <1>1, <2>3, <2>4, <2>5 DEF Kinds, Quiet, Continues, Reports
  <2>7. Clearing'
    <3>1. CASE Written(held, Desc!HPC_CLR_SIG)
      BY <3>1 DEF DeviceEdge, Clearing
    <3>2. CASE ~Written(held, Desc!HPC_CLR_SIG)
      <4>1. \A i, j \in Writing(Desc!HPC_CLR_SIG) : i = j
        BY <1>1 DEF Control
      <4>2. ~Enters(new, Desc!HPC_CLR_SIG)
        BY <1>1, <2>5, ControlWrites
      <4>3. Writing(Desc!HPC_CLR_SIG)' # {}
        <5>1. PICK a : a = Desc!HPC_CLR_SIG
          OBVIOUS
        <5>2. Writing(a)' # {} <=> Enters(new, a) \/ (Writing(a) # {} /\ ~Written(held, a))
          BY <1>1, <4>1, <4>2, <5>1, WritingStep
        <5>3. Writing(Desc!HPC_CLR_SIG)' = Writing(a)'
          BY <5>1 DEF Writing
        <5> QED BY <2>2, <3>2, <5>1, <5>2, <5>3
      <4> QED BY <4>3 DEF Clearing
    <3> QED BY <3>1, <3>2
  <2> QED BY <2>6, <2>7 DEF Ready
<1> QED BY <1>4, <1>5

\* The last beat of an operand is presented.
Completes(h, held, c) == Passing(held) /\ h.pres = Chain[c].beats

\* An operand is complete when its last beat is presented, and then the
\* pointer has only one completion to count.
LEMMA Progress ==
  ASSUME DirectHost, NEW g \in Ghost, DInv(g), NEW bus \in Bus, NEW h,
         NEW s, NEW held, NEW new, NEW n, NEW r, NEW f, NEW c, NEW b, NEW e,
         Goes(g, h, bus, s, held, new, n, r, f, c, b, e)
  PROVE  /\ Presented(g) \in Nat /\ Presented(g) <= cur
         /\ g.rho > 0 => Presented(g) = cur /\ cur > 0
         /\ Completes(h, held, c) => /\ c > 0 /\ Presented(g) = c - 1 /\ g.rho <= 1
                                     /\ (c = cur => g.rho = 0)
                                     /\ Presented(h)' = c /\ h.rho = 5 /\ ~HPC_clear_sig
         /\ ~Completes(h, held, c) => /\ Presented(h)' = Presented(g)
                                      /\ h.rho = (IF g.rho > 0 THEN g.rho - 1 ELSE 0)
         /\ Passing(held) => c > 0 /\ Presented(g) = c - 1 /\ ~HPC_clear_sig
         /\ c = cur + 1 => Presented(g) = cur
<1>1. /\ Types /\ Bounds(g) /\ Sequencer(g) /\ Bounds(h)'
      /\ held = Held(bus) /\ held \in BOOLEAN /\ Understood(bus) /\ Kinds(bus)
      /\ Follows(g, h, held, c)
  BY BoundsStep DEF DInv, Goes, Tick, Moves
<1>2. /\ N \in Nat /\ cur \in 0..N /\ c \in 0..N /\ c \in {cur, cur + 1} /\ g.pres \in Nat
      /\ h.pres \in Nat /\ cur' = c /\ beats' = b /\ b \in Nat /\ h.pres <= b
      /\ g.rho \in 0..5 /\ beats \in Nat /\ (c = cur + 1 <=> Starts(bus))
  BY Counted
<1>3. /\ Presented(g) \in Nat /\ Presented(g) <= cur
  BY <1>2 DEF Presented
<1>4. g.rho > 0 => Presented(g) = cur /\ cur > 0
  BY <1>1 DEF Sequencer
<1>5. c = cur + 1 => Presented(g) = cur /\ g.rho <= 1 /\ ~HPC_clear_sig
  BY <1>2, StartsReady
<1>6. h.pres = (IF c = cur THEN g.pres ELSE 0) + One(Passing(held))
  BY <1>1 DEF Follows
<1>7. c > 0 => Chain[c].beats \in Nat /\ Chain[c].beats >= 1 /\ b <= Chain[c].beats
  <2> SUFFICES ASSUME c > 0 PROVE Chain[c].beats \in Nat /\ Chain[c].beats >= 1 /\ b <= Chain[c].beats
    OBVIOUS
  <2>1. c \in 1..N
    BY <1>2
  <2>2. Chain[c].beats \in Nat /\ Chain[c].beats >= 1
    BY <2>1, ChainFacts
  <2>3. b \in 1..Chain[c].beats
    BY <1>1, <1>2, <2>1 DEF Bounds
  <2> QED BY <2>2, <2>3
<1>8. Passing(held) => c > 0 /\ (c = cur => cur > 0 /\ g.pres < Chain[cur].beats)
                       /\ (c = cur => ~HPC_clear_sig)
  <2>1. CASE held
    <3>1. Starts(bus) \/ Continues(bus)
      BY <1>1, <2>1, HeldFacts
    <3>2. Continues(bus) => cur \in 1..N /\ g.pres < Chain[cur].beats
      BY ContinuesReady
    <3>3. c # cur \/ Continues(bus)
      BY <1>2, <3>1
    <3>4. Continues(bus) => ~HPC_clear_sig
      <4>1. cur > 0 => ~Clearing
        BY <1>2, ReadyFacts
      <4> QED BY <1>2, <3>2, <4>1 DEF Clearing
    <3> QED BY <1>2, <3>1, <3>2, <3>3, <3>4
  <2>2. CASE Leaves(held, "beat")
    <3>1. g.pres < beats /\ cur \in 1..N
      BY <2>2, HeadNumbers
    <3>2. beats <= Chain[cur].beats
      BY <1>1, <3>1 DEF Bounds
    <3>3. Chain[cur].beats \in Nat
      BY <3>1, ChainFacts
    <3>4. ~Clearing
      BY <1>2, <3>1, ReadyFacts
    <3> QED BY <1>2, <3>1, <3>2, <3>3, <3>4 DEF Clearing
  <2> QED BY <2>1, <2>2 DEF Passing
<1>9. Passing(held) => c > 0 /\ Presented(g) = c - 1 /\ ~HPC_clear_sig
  <2> SUFFICES ASSUME Passing(held) PROVE c > 0 /\ Presented(g) = c - 1 /\ ~HPC_clear_sig
    OBVIOUS
  <2>1. CASE c = cur
    <3>1. cur > 0 /\ g.pres < Chain[cur].beats /\ c > 0 /\ ~HPC_clear_sig
      BY <1>8, <2>1
    <3>2. g.pres # Chain[cur].beats
      BY <1>2, <1>7, <2>1, <3>1
    <3>3. Presented(g) = cur - 1
      BY <1>2, <3>1, <3>2 DEF Presented
    <3> QED BY <2>1, <3>1, <3>3
  <2>2. CASE c = cur + 1
    BY <1>2, <1>5, <1>8, <2>2
  <2> QED BY <1>2, <2>1, <2>2
<1>10. Presented(h)' = IF c = 0 THEN 0 ELSE IF h.pres = Chain[c].beats THEN c ELSE c - 1
  BY <1>2 DEF Presented
<1>11. ASSUME Completes(h, held, c)
       PROVE  /\ c > 0 /\ Presented(g) = c - 1 /\ g.rho <= 1 /\ (c = cur => g.rho = 0)
              /\ Presented(h)' = c /\ h.rho = 5 /\ ~HPC_clear_sig
  <2>1. Passing(held) /\ h.pres = Chain[c].beats
    BY <1>11 DEF Completes
  <2>2. c > 0 /\ Presented(g) = c - 1 /\ ~HPC_clear_sig
    BY <1>9, <2>1
  <2>3. c = cur => g.rho = 0
    BY <1>2, <1>4, <2>2
  <2>4. h.rho = 5
    BY <1>1, <2>1 DEF Follows
  <2>5. Presented(h)' = c
    BY <1>2, <1>10, <2>1, <2>2
  <2> QED BY <1>2, <1>5, <2>2, <2>3, <2>4, <2>5
<1>12. ASSUME ~Completes(h, held, c)
       PROVE  /\ Presented(h)' = Presented(g)
              /\ h.rho = (IF g.rho > 0 THEN g.rho - 1 ELSE 0)
  <2>1. h.rho = (IF g.rho > 0 THEN g.rho - 1 ELSE 0)
    BY <1>1, <1>12 DEF Follows, Completes
  <2>2. CASE c = 0
    BY <1>2, <1>10, <2>1, <2>2 DEF Presented
  <2>3. CASE c > 0 /\ c = cur + 1
    <3>1. h.pres # Chain[c].beats
      BY <1>2, <1>6, <1>7, <1>12, <2>3 DEF Completes, One
    <3> QED BY <1>2, <1>5, <1>10, <2>1, <2>3, <3>1
  <2>4. CASE c > 0 /\ c = cur
    <3>1. CASE Passing(held)
      <4>1. h.pres # Chain[c].beats
        BY <1>12, <3>1 DEF Completes
      <4> QED BY <1>2, <1>9, <1>10, <2>1, <2>4, <3>1, <4>1
    <3>2. CASE ~Passing(held)
      <4>1. h.pres = g.pres
        BY <1>2, <1>6, <2>4, <3>2 DEF One
      <4> QED BY <1>2, <1>10, <2>1, <2>4, <4>1 DEF Presented
    <3> QED BY <3>1, <3>2
  <2> QED BY <1>2, <2>2, <2>3, <2>4
<1> QED BY <1>3, <1>4, <1>5, <1>9, <1>11, <1>12

\* Only the read of a descriptor is at the address where one is expected.
LEMMA NextDescriptor ==
  ASSUME DirectHost, NEW g \in Ghost, DInv(g), NEW bus \in Bus, Kinds(bus),
         NEW k \in (1..(N + 1)) \cup {2}, bus.addr = DescAddr(k)
  PROVE  Fetches(bus)
<1>1. Types /\ Bounds(g) /\ bus.addr \in Desc!Addr
  BY DEF DInv, Bus
<1>2. /\ N \in Nat /\ 64 * (N + 1) <= Desc!RSV_DESC_MEM_SIZE /\ cur \in 0..N /\ beats \in Nat
      /\ cleared \in 0..N
  BY <1>1, Numbers DEF DirectHost
<1>3. /\ Desc!InDescRange(DescAddr(k)) /\ DescAddr(k) < High /\ DescAddr(k) \in Nat
  BY SMT, <1>2 DEF High, Desc!InDescRange, Desc!RSV_DESC_MEM_BASE, Desc!RSV_DESC_MEM_SIZE,
     DescAddr, Desc!DESC_STRIDE
<1>4. DescAddr(k) % Desc!DESC_STRIDE = 0
  <2>1. \A m \in Nat : (8388608 + m * 64) % 64 = 0
    BY SMT
  <2>2. k - 1 \in Nat
    BY <1>2
  <2> QED BY SMT, <2>1, <2>2 DEF DescAddr, Desc!RSV_DESC_MEM_BASE, Desc!DESC_STRIDE
<1>5. ~Quiet(bus) /\ ~SwitchOn(bus) /\ ~SwitchOff(bus) /\ ~Clears(bus)
  BY <1>3, DescriptorMemory DEF Quiet, Foreign, SwitchOn, SwitchOff, Clears, Controls
<1>6. ASSUME NEW m \in 1..N, NEW i \in Nat, Streaming(bus, m, i) PROVE FALSE
  <2>1. /\ Chain[m].base \in Nat /\ High <= Chain[m].base /\ High \in Nat
    BY ChainFacts, DescriptorMemory
  <2>2. bus.addr = Chain[m].base + 32 * i
    BY <1>6 DEF Streaming
  <2> QED BY <1>3, <2>1, <2>2
<1>7. ~Starts(bus)
  <2> SUFFICES ASSUME Starts(bus) PROVE FALSE
    OBVIOUS
  <2>1. Streaming(bus, cur + 1, 0) /\ cur + 1 \in 1..N
    BY StartsReady DEF Starts
  <2> QED BY <1>6, <2>1
<1>8. ~Continues(bus)
  <2> SUFFICES ASSUME Continues(bus) PROVE FALSE
    OBVIOUS
  <2>1. Streaming(bus, cur, beats) /\ cur \in 1..N
    BY ContinuesReady DEF Continues
  <2> QED BY <1>2, <1>6, <2>1
<1>9. ~Reports(bus)
  <2> SUFFICES ASSUME Reports(bus) PROVE FALSE
    OBVIOUS
  <2>1. bus.addr = DescAddr(cleared + 1) + Desc!STATUS_WORD /\ cleared + 1 \in 1..cur /\ cur \in 1..N
    BY ReportsReady DEF Reports
  <2>2. cleared + 1 \in 1..N
    BY <1>2, <2>1
  <2>3. bus.addr % Desc!DESC_STRIDE = Desc!STATUS_WORD
    BY <2>1, <2>2, DescriptorMemory
  <2> QED BY <1>4, <2>3 DEF Desc!STATUS_WORD
<1> QED BY <1>5, <1>7, <1>8, <1>9 DEF Kinds

\* The three ring pointers move with what they count.
LEMMA RingsStep ==
  ASSUME DirectHost, NEW g \in Ghost, DInv(g), NEW bus \in Bus, NEW h, ~SwitchOn(bus),
         NEW s, NEW held, NEW new, NEW n, NEW r, NEW f, NEW c, NEW b, NEW e,
         Goes(g, h, bus, s, held, new, n, r, f, c, b, e)
  PROVE  Rings(h)'
<1>1. /\ Types /\ Bounds(g) /\ Control /\ Rings(g) /\ Sequencer(g)
      /\ DeviceEdge(g.ld + 1, bus, held) /\ Follows(g, h, held, c)
      /\ Tick(bus, s, held, new, n, r) /\ Joining(bus, new) /\ Kinds(bus)
  BY DEF DInv, Goes, Tick
<1>2. /\ N \in Nat /\ SLOTS \in Nat /\ SLOTS > 0 /\ g.ld \in 0..N /\ g.rl \in 0..N
      /\ g.rho \in 0..5 /\ cur \in 0..N /\ c \in 0..N /\ c \in {cur, cur + 1}
      /\ fetched \in 0..N /\ f \in 0..N /\ fetched' = f /\ cur' = c
      /\ h.ld \in Nat /\ h.rl \in Nat /\ h.rho \in 0..5
      /\ f \in {fetched, fetched + 1}
  BY Counted
<1>3. /\ h.ld = g.ld + One(Leaves(held, "descriptor"))
      /\ h.rl = g.rl + One(Leaves(held, "status"))
  BY <1>1 DEF Follows
<1>4. /\ wr_ptr' = Desc!NextPtr(wr_ptr, Leaves(held, "descriptor"))
      /\ clr_ptr' = Desc!NextPtr(clr_ptr, Leaves(held, "status"))
      /\ PIM_opcode_match_ptr' =
           IF HPC_clear_sig THEN 0
           ELSE IF desc_done_r[4] THEN (PIM_opcode_match_ptr + 1) % SLOTS
           ELSE PIM_opcode_match_ptr
      /\ next_desc_addr' =
           IF Written(held, Desc!AIM_WORK_SIG) THEN 0
           ELSE IF HPC_clear_sig THEN DescAddr(2)
           ELSE IF bus.addr = next_desc_addr THEN (bus.addr + 64) % ADDR_SPACE
           ELSE next_desc_addr
  BY <1>1 DEF DeviceEdge
<1>5. (setup # 0 /\ Ready) \/ HPC_clear_sig => ~Written(held, Desc!AIM_WORK_SIG)
  <2>1. (setup # 0 /\ Ready) \/ HPC_clear_sig => setup # 0 /\ setup # 1
    BY ReadyFacts DEF Ready, Clearing
  <2> QED BY <1>1, <2>1 DEF Control, Written
<1>6. /\ Presented(g) \in Nat /\ Presented(g) <= cur
      /\ g.rho > 0 => Presented(g) = cur /\ cur > 0
      /\ Completes(h, held, c) => /\ c > 0 /\ Presented(g) = c - 1 /\ g.rho <= 1
                                  /\ Presented(h)' = c /\ h.rho = 5 /\ ~HPC_clear_sig
      /\ ~Completes(h, held, c) => /\ Presented(h)' = Presented(g)
                                   /\ h.rho = (IF g.rho > 0 THEN g.rho - 1 ELSE 0)
  BY Progress
<1>7. CASE HPC_clear_sig
  <2>1. /\ fetched = 0 /\ cur = 0 /\ g.ld = 0 /\ g.rl = 0
        /\ ~Leaves(held, "descriptor") /\ ~Leaves(held, "status")
    BY <1>7, ReadyFacts DEF Clearing
  <2>2. h.ld = 0 /\ h.rl = 0
    BY <1>3, <2>1 DEF One
  <2>3. Presented(g) = 0 /\ g.rho = 0
    BY <1>2, <1>6, <2>1
  <2>4. Presented(h)' = 0 /\ h.rho = 0
    BY <1>6, <1>7, <2>3
  <2>5. (Presented(h)' - Behind(h)) = 0
    BY <2>4 DEF Behind
  <2>6. f = 0
    <3>1. ~Settled
      BY <1>7, Quiescent
    <3>2. ~Fetches(bus)
      BY <2>1, <3>1 DEF Fetches
    <3> QED BY <1>1, <1>2, <2>1, <3>2 DEF Kinds, Quiet, SwitchOn, SwitchOff, Clears, Starts,
          Continues, Reports
  <2>7. 0 % SLOTS = 0
    BY Ring
  <2>8. wr_ptr' = 0 /\ clr_ptr' = 0 /\ PIM_opcode_match_ptr' = 0 /\ next_desc_addr' = DescAddr(2)
    BY <1>4, <1>5, <1>7 DEF Desc!NextPtr
  <2>9. (Presented(h) - Behind(h))' = Presented(h)' - Behind(h)
    BY DEF Behind
  <2>10. PICK z : z = Presented(h)' - Behind(h)
    OBVIOUS
  <2>11. z = 0
    BY <2>5, <2>10
  <2>12. /\ wr_ptr' = h.ld % SLOTS /\ clr_ptr' = h.rl % SLOTS
         /\ PIM_opcode_match_ptr' = z % SLOTS
    BY <2>2, <2>7, <2>8, <2>11
  <2> QED BY <1>2, <2>6, <2>8, <2>10, <2>12 DEF Rings, Behind
<1>8. CASE ~HPC_clear_sig /\ Ready
  <2>1. /\ wr_ptr = g.ld % SLOTS /\ clr_ptr = g.rl % SLOTS
        /\ PIM_opcode_match_ptr = (Presented(g) - Behind(g)) % SLOTS
        /\ setup # 0 => next_desc_addr = DescAddr(IF fetched = 0 THEN 2 ELSE fetched + 1)
    BY <1>1, <1>8 DEF Rings
  <2>2. ASSUME NEW x \in Nat, NEW y, NEW up \in BOOLEAN, y = x + One(up)
        PROVE  (IF up THEN ((x % SLOTS) + 1) % SLOTS ELSE x % SLOTS) = y % SLOTS
    <3>1. ((x % SLOTS) + 1) % SLOTS = (x + 1) % SLOTS
      BY Ring
    <3>2. CASE up
      <4>1. y = x + 1
        BY <2>2, <3>2 DEF One
      <4> QED BY <3>1, <3>2, <4>1
    <3>3. CASE ~up
      <4>1. y = x
        BY <2>2, <3>3 DEF One
      <4> QED BY <3>3, <4>1
    <3> QED BY <3>2, <3>3
  <2>3. wr_ptr' = h.ld % SLOTS
    <3>1. PICK up : up = Leaves(held, "descriptor")
      OBVIOUS
    <3>2. up \in BOOLEAN
      BY <3>1 DEF Leaves
    <3>3. wr_ptr' = IF up THEN ((g.ld % SLOTS) + 1) % SLOTS ELSE g.ld % SLOTS
      BY <1>4, <1>8, <2>1, <3>1, Zenon DEF Desc!NextPtr
    <3>4. g.ld \in Nat /\ h.ld = g.ld + One(up)
      BY <1>2, <1>3, <3>1
    <3> QED BY <2>2, <3>2, <3>3, <3>4
  <2>4. clr_ptr' = h.rl % SLOTS
    <3>1. PICK up : up = Leaves(held, "status")
      OBVIOUS
    <3>2. up \in BOOLEAN
      BY <3>1 DEF Leaves
    <3>3. clr_ptr' = IF up THEN ((g.rl % SLOTS) + 1) % SLOTS ELSE g.rl % SLOTS
      BY <1>4, <1>8, <2>1, <3>1, Zenon DEF Desc!NextPtr
    <3>4. g.rl \in Nat /\ h.rl = g.rl + One(up)
      BY <1>2, <1>3, <3>1
    <3> QED BY <2>2, <3>2, <3>3, <3>4
  <2>5. PIM_opcode_match_ptr' = (Presented(h)' - Behind(h)) % SLOTS
    <3>1. PICK up, x, y : /\ up = (g.rho = 1) /\ x = Presented(g) - Behind(g)
                          /\ y = Presented(h)' - Behind(h)
      OBVIOUS
    <3>2. up \in BOOLEAN /\ (desc_done_r[4] <=> up)
      <4>1. \A q \in 1..4 : desc_done_r[q] <=> g.rho = 5 - q
        BY <1>1 DEF Sequencer
      <4>2. desc_done_r[4] <=> g.rho = 1
        BY <4>1
      <4> QED BY <3>1, <4>2
    <3>3. x \in Nat /\ y = x + One(up)
      <4>1. PICK p, q : p = Presented(g) /\ q = Presented(h)'
        OBVIOUS
      <4>2. /\ p \in Nat /\ g.rho \in 0..5 /\ h.rho \in 0..5 /\ (g.rho > 0 => p > 0)
            /\ \/ g.rho <= 1 /\ q = p + 1 /\ h.rho = 5
               \/ q = p /\ h.rho = (IF g.rho > 0 THEN g.rho - 1 ELSE 0)
        BY <1>2, <1>6, <4>1
      <4>3. x = p - Behind(g) /\ y = q - Behind(h)
        BY <3>1, <4>1
      <4>4. PICK z, w, u : z = Behind(g) /\ w = Behind(h) /\ u = One(up)
        OBVIOUS
      <4>12. up <=> g.rho = 1
        BY <3>1, Zenon
      <4>13. g.rho > 0 => z = 1
        BY <4>4 DEF Behind
      <4>14. ~(g.rho > 0) => z = 0
        BY <4>4 DEF Behind
      <4>15. (g.rho = 1 => u = 1) /\ (g.rho # 1 => u = 0)
        BY <4>4, <4>12, Zenon DEF One
      <4>8. w = IF h.rho > 0 THEN 1 ELSE 0
        BY <4>4 DEF Behind
      <4>9. x = p - z /\ y = q - w
        BY <4>3, <4>4
      <4>10. PICK v, v1 : v = g.rho /\ v1 = h.rho
        OBVIOUS
      <4>11. x \in Nat /\ y = x + u
        BY <4>2, <4>8, <4>9, <4>10, <4>13, <4>14, <4>15
      <4> QED BY <4>4, <4>11
    <3>4. PIM_opcode_match_ptr' = IF up THEN ((x % SLOTS) + 1) % SLOTS ELSE x % SLOTS
      BY <1>4, <1>8, <2>1, <3>1, <3>2, Zenon
    <3> QED BY <2>2, <3>1, <3>2, <3>3, <3>4
  <2>6. setup # 0 => next_desc_addr' = DescAddr(IF f = 0 THEN 2 ELSE f + 1)
    <3> SUFFICES ASSUME setup # 0 PROVE next_desc_addr' = DescAddr(IF f = 0 THEN 2 ELSE f + 1)
      OBVIOUS
    <3>1. next_desc_addr' = IF bus.addr = next_desc_addr THEN (bus.addr + 64) % ADDR_SPACE
                            ELSE next_desc_addr
      BY <1>4, <1>5, <1>8
    <3>2. PICK k : k = IF fetched = 0 THEN 2 ELSE fetched + 1
      OBVIOUS
    <3>3. next_desc_addr = DescAddr(k) /\ k \in Nat
      BY <1>2, <2>1, <3>2
    <3>4. CASE bus.addr = DescAddr(k) /\ fetched > 0
      <4>1. k = fetched + 1 /\ k \in 1..(N + 1)
        BY <1>2, <3>2, <3>4
      <4>2. Fetches(bus)
        BY <1>1, <3>4, <4>1, NextDescriptor
      <4>3. f = fetched + 1 /\ f \in 1..N /\ f = k
        BY <1>2, <4>1, <4>2 DEF Fetches
      <4>4. next_desc_addr' = (DescAddr(k) + 64) % ADDR_SPACE
        BY <3>1, <3>3, <3>4
      <4>5. DescAddr(k) + 64 = DescAddr(k + 1)
        BY <3>3, SMT DEF DescAddr, Desc!DESC_STRIDE, Desc!RSV_DESC_MEM_BASE
      <4>6. DescAddr(k + 1) \in Desc!Addr
        <5>1. k + 1 \in 1..(N + 1)
          BY <1>2, <4>3
        <5> QED BY <5>1, Addresses
      <4>7. DescAddr(k + 1) % ADDR_SPACE = DescAddr(k + 1)
        <5>1. PICK z : z = DescAddr(k + 1)
          OBVIOUS
        <5>2. z \in 0..(ADDR_SPACE - 1) /\ ADDR_SPACE \in Nat
          BY <4>6, <5>1, AddrAssumption DEF Desc!Addr
        <5>3. z % ADDR_SPACE = z
          BY <5>2
        <5> QED BY <5>1, <5>3
      <4> QED BY <4>3, <4>4, <4>5, <4>7
    <3>5. CASE bus.addr # DescAddr(k)
      <4>1. next_desc_addr' = DescAddr(k)
        BY <3>1, <3>3, <3>5
      <4>2. k = IF f = 0 THEN 2 ELSE f + 1
        <5>1. CASE f = fetched
          BY <3>2, <5>1
        <5>2. CASE f = fetched + 1
          <6>1. Fetches(bus)
            BY <1>1, <1>2, <5>2 DEF Kinds, Quiet, SwitchOn, SwitchOff, Clears, Starts,
               Continues, Reports
          <6>2. bus.addr = DescAddr(fetched + 1)
            BY <6>1 DEF Fetches
          <6>3. fetched = 0
            BY <3>2, <3>5, <6>2
          <6> QED BY <3>2, <5>2, <6>3
        <5> QED BY <1>2, <5>1, <5>2
      <4> QED BY <4>1, <4>2
    <3>6. CASE bus.addr = DescAddr(k) /\ fetched = 0
      <4>1. k = 2
        BY <3>2, <3>6
      <4>2. Fetches(bus)
        BY <1>1, <3>6, <4>1, NextDescriptor
      <4>3. bus.addr = DescAddr(1)
        BY <3>6, <4>2 DEF Fetches
      <4>4. DescAddr(1) # DescAddr(2)
        BY SMT DEF DescAddr, Desc!DESC_STRIDE, Desc!RSV_DESC_MEM_BASE
      <4> QED BY <3>6, <4>1, <4>3, <4>4
    <3> QED BY <1>2, <3>4, <3>5, <3>6
  <2>7. setup' # 0 => setup # 0
    BY <1>1 DEF Kinds, Quiet, SwitchOn, SwitchOff, Clears, Fetches, Starts, Continues, Reports
  <2>8. PICK z : z = Presented(h)' - Behind(h)
    OBVIOUS
  <2>9. PIM_opcode_match_ptr' = z % SLOTS
    BY <2>5, <2>8
  <2> QED BY <1>2, <2>3, <2>4, <2>6, <2>7, <2>8, <2>9 DEF Rings, Behind
<1>9. CASE ~HPC_clear_sig /\ ~Ready
  <2>1. ~Ready'
    BY <1>1, <1>9, ReadyBefore
  <2> QED BY <2>1 DEF Rings
<1> QED BY <1>7, <1>8, <1>9

-----------------------------------------------------------------------------
(***************************************************************************)
(* What the sequencer compares its counts with.                            *)
(***************************************************************************)
\* While the beats of an operand are counted, its slot is the current one.
LEMMA CurrentSlot ==
  ASSUME DirectHost, NEW g \in Ghost, DInv(g), Counting(g)
  PROVE  /\ cur \in 1..N /\ g.rl < cur /\ cur <= g.ld
         /\ PIM_opcode_match_ptr = SlotOf(cur)
         /\ slot[PIM_opcode_match_ptr] = Content(cur)
         /\ g.rho = 5 <=> g.pres = Chain[cur].beats
<1>1. Types /\ Bounds(g) /\ Rings(g) /\ SlotsMatch(g) /\ Sequencer(g)
  BY DEF DInv
<1>2. /\ N \in Nat /\ g.ld \in 0..N /\ g.rl \in 0..N /\ g.pres \in Nat /\ g.rho \in 0..5
      /\ cur \in 0..N /\ fetched \in 0..N /\ cleared \in 0..N
      /\ g.rl <= cleared /\ cleared <= cur /\ cur <= g.ld /\ g.ld <= fetched
  BY <1>1, Numbers
<1>3. cur > 0 /\ (g.rho = 5 \/ Presented(g) = cur - 1)
  BY DEF Counting
<1>4. g.rho = 5 => g.rl < cur /\ Presented(g) = cur
  BY <1>1 DEF Sequencer
<1>5. Presented(g) = IF g.pres = Chain[cur].beats THEN cur ELSE cur - 1
  BY <1>2, <1>3 DEF Presented
<1>6. g.rho = 5 <=> g.pres = Chain[cur].beats
  BY <1>2, <1>3, <1>4, <1>5
<1>7. g.rl < cur
  <2>1. CASE g.rho = 5
    BY <1>4, <2>1
  <2>2. CASE g.rho # 5
    <3>1. g.pres # Chain[cur].beats
      BY <1>6, <2>2
    <3>2. g.rl # cur
      BY <1>1, <1>3, <3>1 DEF Bounds
    <3> QED BY <1>2, <3>2
  <2> QED BY <2>1, <2>2
<1>8. Presented(g) - Behind(g) = cur - 1
  <2>1. CASE g.rho = 5
    <3>1. Behind(g) = 1
      BY <2>1 DEF Behind
    <3> QED BY <1>2, <1>4, <2>1, <3>1
  <2>2. CASE g.rho # 5
    <3>1. Presented(g) = cur - 1 /\ cur - 1 # cur
      BY <1>2, <1>3, <2>2
    <3>2. ~(g.rho > 0)
      BY <1>1, <3>1 DEF Sequencer
    <3>3. Behind(g) = 0
      BY <3>2 DEF Behind
    <3> QED BY <1>2, <3>1, <3>3
  <2> QED BY <2>1, <2>2
<1>9. Ready
  <2>1. fetched > 0
    BY <1>2, <1>3
  <2> QED BY <2>1, ReadyFacts
<1>10. PIM_opcode_match_ptr = SlotOf(cur)
  BY <1>1, <1>8, <1>9 DEF Rings, SlotOf
<1>11. slot[SlotOf(cur)] = Content(cur)
  <2>1. cur \in (g.rl + 1)..g.ld
    BY <1>2, <1>7
  <2> QED BY <1>1, <2>1 DEF SlotsMatch
<1> QED BY <1>2, <1>3, <1>6, <1>7, <1>10, <1>11

\* The slot of descriptor k, compared with a count.
LEMMA ContentDone ==
  ASSUME DirectHost, NEW k \in 1..N, NEW t
  PROVE  Seqr!check_desc_done(t, Content(k)) <=>
           t = Chain[k].type /\ PIM_req_cnt[t] = Chain[k].beats
<1>1. /\ Chain[k].word.info.type = {Chain[k].type} /\ Chain[k].beats \in Nat
      /\ Chain[k].word.size = 32 * Chain[k].beats
  BY ChainFacts
<1>2. Content(k).info = Chain[k].word.info /\ Content(k).size = Chain[k].word.size
  BY Zenon DEF Content
<1>3. PICK m, z : m = Chain[k].beats /\ z = Chain[k].word.size
  OBVIOUS
<1>4. z \div 32 = m
  <2>1. m \in Nat /\ z = 32 * m
    BY <1>1, <1>3
  <2> QED BY <2>1
<1> QED BY <1>1, <1>2, <1>3, <1>4 DEF Seqr!check_desc_done, Seqr!BEAT_BYTES

\* The comparison of the sequencer holds for one cycle, rho = 5.
LEMMA SequencerSees ==
  ASSUME DirectHost, NEW g \in Ghost, DInv(g), NEW now, now = slot[PIM_opcode_match_ptr]
  PROVE  /\ \A t \in {"A", "B", "C"} :
              Seqr!check_desc_done(t, now) <=> g.rho = 5 /\ t = Chain[cur].type
         /\ Seqr!check_current_desc_done(now) <=> g.rho = 5
<1>1. Types /\ Bounds(g) /\ SlotsMatch(g) /\ Sequencer(g) /\ Seqr!TypeOK
  BY DEF DInv, Types
<1>2. /\ N \in Nat /\ g.ld \in 0..N /\ g.rl \in 0..N /\ g.rho \in 0..5 /\ cur \in 0..N
      /\ PIM_opcode_match_ptr \in 0..(SLOTS - 1)
  BY <1>1, Numbers DEF Seqr!TypeOK
<1>3. \A t \in {"A", "B", "C"} :
        PIM_req_cnt[t] = IF Counting(g) /\ t = Chain[cur].type THEN g.pres ELSE 0
  BY <1>1 DEF Sequencer
<1>4. CASE Counting(g)
  <2>1. cur \in 1..N /\ now = Content(cur) /\ (g.rho = 5 <=> g.pres = Chain[cur].beats)
    BY <1>4, CurrentSlot
  <2>2. /\ Chain[cur].type \in {"A", "B", "C"} /\ Chain[cur].word.info.type = {Chain[cur].type}
    BY <2>1, ChainFacts
  <2>3. now.info.type = {Chain[cur].type}
    <3>1. Content(cur).info = Chain[cur].word.info
      BY Zenon DEF Content
    <3> QED BY <2>1, <2>2, <3>1
  <2>4. \A t \in {"A", "B", "C"} :
          Seqr!check_desc_done(t, now) <=> g.rho = 5 /\ t = Chain[cur].type
    BY <1>3, <1>4, <2>1, ContentDone
  <2> QED BY <2>2, <2>3, <2>4 DEF Seqr!check_current_desc_done
<1>5. CASE ~Counting(g)
  <2>1. g.rho # 5
    BY <1>1, <1>5 DEF Sequencer, Counting
  <2>2. ASSUME NEW t \in {"A", "B", "C"} PROVE ~Seqr!check_desc_done(t, now)
    <3>1. PIM_req_cnt[t] = 0
      BY <1>3, <1>5
    <3>2. CASE \E k \in (g.rl + 1)..g.ld : SlotOf(k) = PIM_opcode_match_ptr
      <4>1. PICK k \in (g.rl + 1)..g.ld : SlotOf(k) = PIM_opcode_match_ptr
        BY <3>2
      <4>2. now = Content(k) /\ k \in 1..N
        BY <1>1, <1>2, <4>1 DEF SlotsMatch
      <4>3. Chain[k].beats # 0
        BY <4>2, ChainFacts
      <4> QED BY <3>1, <4>2, <4>3, ContentDone
    <3>3. CASE ~\E k \in (g.rl + 1)..g.ld : SlotOf(k) = PIM_opcode_match_ptr
      <4>1. now = Desc!EmptySlot
        BY <1>1, <1>2, <3>3 DEF SlotsMatch
      <4>2. now.info.type = {}
        BY <4>1 DEF Desc!EmptySlot, Desc!NoInfo
      <4> QED BY <4>2 DEF Seqr!check_desc_done
    <3> QED BY <3>2, <3>3
  <2> QED BY <2>1, <2>2 DEF Seqr!check_current_desc_done
<1> QED BY <1>4, <1>5

\* The beat that is presented is one of the current operand.
LEMMA PassesCurrent ==
  ASSUME DirectHost, NEW g \in Ghost, DInv(g), NEW bus \in Bus, NEW h,
         NEW s, NEW held, NEW new, NEW n, NEW r, NEW f, NEW c, NEW b, NEW e,
         Goes(g, h, bus, s, held, new, n, r, f, c, b, e)
  PROVE  Passes(held) = IF Passing(held) THEN {Chain[c].type} ELSE {}
<1>1. /\ held = Held(bus) /\ held \in BOOLEAN /\ Understood(bus) /\ Kinds(bus)
      /\ Counters(bus, held, new, f, c, b, e)
  BY DEF Goes, Tick, Moves
<1>2. CASE held
  <2>1. Advances(bus, held, new, c, b)
    BY <1>1, <1>2 DEF Counters, Pauses
  <2>2. Chain[c].type = "C"
    BY <1>2, <2>1 DEF Advances
  <2> QED BY <1>2, <2>2 DEF Passes, Passing
<1>3. CASE ~held /\ Leaves(held, "beat")
  <2>1. TagAt(0).want = Chain[cur].type /\ 0 \in Members("beat")
    BY <1>3, HeadNumbers DEF Leaves
  <2>2. c = cur
    <3>1. ~Starts(bus)
      BY <2>1, StartsReady
    <3> QED BY <3>1, Counted
  <2> QED BY <1>3, <2>1, <2>2 DEF Passes, Passing
<1>4. CASE ~held /\ ~Leaves(held, "beat")
  BY <1>4 DEF Passes, Passing
<1> QED BY <1>1, <1>2, <1>3, <1>4

\* The request counter of a type counts the beats presented.
LEMMA CountStep ==
  ASSUME DirectHost, NEW g \in Ghost, DInv(g), NEW bus \in Bus, NEW h,
         NEW s, NEW held, NEW new, NEW n, NEW r, NEW f, NEW c, NEW b, NEW e,
         Goes(g, h, bus, s, held, new, n, r, f, c, b, e), NEW t \in {"A", "B", "C"}
  PROVE  PIM_req_cnt'[t] = IF Counting(h)' /\ t = Chain[c].type THEN h.pres ELSE 0
<1>1. /\ Types /\ Bounds(g) /\ Sequencer(g) /\ Bounds(h)' /\ Seqr!TypeOK
      /\ DeviceEdge(g.ld + 1, bus, held) /\ Follows(g, h, held, c)
  BY BoundsStep DEF DInv, Goes, Types
<1>2. /\ N \in Nat /\ cur \in 0..N /\ c \in 0..N /\ c \in {cur, cur + 1} /\ g.pres \in Nat
      /\ h.pres \in Nat /\ cur' = c /\ g.rho \in 0..5 /\ h.rho \in 0..5
      /\ (c = cur + 1 <=> Starts(bus)) /\ h.pres <= b /\ b \in Nat /\ beats' = b
  BY Counted
<1>3. h.pres = (IF c = cur THEN g.pres ELSE 0) + One(Passing(held))
  BY <1>1 DEF Follows
<1>4. PICK p, q : p = Presented(g) /\ q = Presented(h)'
  OBVIOUS
<1>5. /\ p \in Nat /\ p <= cur /\ (g.rho > 0 => p = cur /\ cur > 0)
      /\ Completes(h, held, c) => c > 0 /\ p = c - 1 /\ g.rho <= 1 /\ q = c /\ h.rho = 5
      /\ ~Completes(h, held, c) => q = p /\ h.rho = (IF g.rho > 0 THEN g.rho - 1 ELSE 0)
      /\ Passing(held) => c > 0 /\ p = c - 1 /\ ~HPC_clear_sig
      /\ c = cur + 1 => p = cur
  BY <1>4, Progress
<1>6. c = cur + 1 => g.rho <= 1
  BY <1>2, StartsReady
<1>7. PICK now : now = slot[PIM_opcode_match_ptr]
  OBVIOUS
<1>8. Seqr!check_desc_done(t, now) <=> g.rho = 5 /\ t = Chain[cur].type
  BY <1>7, SequencerSees
<1>9. PICK y : y = PIM_req_cnt[t]
  OBVIOUS
<1>10. y = IF Counting(g) /\ t = Chain[cur].type THEN g.pres ELSE 0
  BY <1>1, <1>9 DEF Sequencer
<1>11. PICK z : z = PIM_req_cnt'[t]
  OBVIOUS
<1>12. PICK pass : pass = (t \in Passes(held))
  OBVIOUS
<1>13. pass <=> Passing(held) /\ t = Chain[c].type
  <2>1. Passes(held) = IF Passing(held) THEN {Chain[c].type} ELSE {}
    BY PassesCurrent
  <2>2. pass <=> t \in Passes(held)
    BY <1>12, Zenon
  <2> QED BY <2>1, <2>2
<1>14. z = IF g.rho = 5 /\ t = Chain[cur].type THEN (IF pass THEN 1 ELSE 0)
           ELSE IF HPC_clear_sig THEN 0
           ELSE IF pass THEN (y + 1) % CNT_RANGE ELSE y
  <2>1. PIM_req_cnt' =
       [u \in {"A", "B", "C"} |->
          Seqr!NextCount(u, u \in Passes(held), HPC_clear_sig,
                         slot[PIM_opcode_match_ptr])]
    BY <1>1 DEF DeviceEdge
  <2>2. z = Seqr!NextCount(t, pass, HPC_clear_sig, now)
    BY <1>7, <1>11, <1>12, <2>1, Zenon
  <2> QED BY <1>8, <1>9, <2>2, Zenon DEF Seqr!NextCount
<1>15. PICK on : on = Counting(g)
  OBVIOUS
<1>16. on <=> cur > 0 /\ (g.rho = 5 \/ p = cur - 1)
  BY <1>4, <1>15 DEF Counting
<1>17. Counting(h)' <=> c > 0 /\ (h.rho = 5 \/ q = c - 1)
  BY <1>2, <1>4 DEF Counting
<1>18. CASE Passing(held)
  <2>1. Counting(h)' /\ ~HPC_clear_sig /\ c > 0 /\ p = c - 1
    BY <1>5, <1>17, <1>18
  <2>2. g.rho # 5
    BY <1>2, <1>5, <1>6, <2>1
  <2>3. h.pres = (IF c = cur THEN g.pres ELSE 0) + 1
    BY <1>3, <1>18 DEF One
  <2>4. y = IF c = cur /\ t = Chain[c].type THEN g.pres ELSE 0
    <3>1. CASE c = cur
      <4>1. on
        BY <1>16, <2>1, <3>1
      <4> QED BY <1>10, <1>15, <3>1, <4>1
    <3>2. CASE c = cur + 1
      <4>1. ~on
        BY <1>2, <1>16, <2>1, <2>2, <3>2
      <4>2. c # cur
        BY <1>2, <3>2
      <4> QED BY <1>10, <1>15, <4>1, <4>2
    <3> QED BY <1>2, <3>1, <3>2
  <2>5. CASE t = Chain[c].type
    <3>1. y + 1 = h.pres
      BY <1>2, <2>3, <2>4, <2>5
    <3>2. pass
      BY <1>13, <1>18, <2>5
    <3>3. z = h.pres % CNT_RANGE
      BY <1>14, <2>1, <2>2, <3>1, <3>2
    <3>4. h.pres < CNT_RANGE /\ CNT_RANGE \in Nat
      <4>1. c \in 1..N
        BY <1>2, <2>1
      <4>2. b \in 1..Chain[c].beats
        BY <1>1, <1>2, <2>1 DEF Bounds
      <4>3. Chain[c].beats \in Nat /\ Chain[c].beats < CNT_RANGE /\ CNT_RANGE \in Nat
        BY <4>1, ChainFacts
      <4> QED BY <1>2, <4>2, <4>3
    <3>5. z = h.pres
      BY <1>2, <3>3, <3>4
    <3> QED BY <1>11, <2>1, <2>5, <3>5
  <2>6. CASE t # Chain[c].type
    <3>1. ~pass /\ y = 0
      BY <1>13, <2>4, <2>6
    <3>2. z = 0
      BY <1>14, <2>1, <2>2, <3>1
    <3> QED BY <1>11, <2>6, <3>2
  <2> QED BY <2>5, <2>6
<1>19. CASE ~Passing(held)
  <2>1. ~pass /\ ~Completes(h, held, c)
    BY <1>13, <1>19 DEF Completes
  <2>2. q = p /\ h.rho # 5
    BY <1>2, <1>5, <2>1
  <2>3. z = IF g.rho = 5 /\ t = Chain[cur].type THEN 0
            ELSE IF HPC_clear_sig THEN 0 ELSE y
    BY <1>14, <2>1
  <2>4. h.pres = IF c = cur THEN g.pres ELSE 0
    <3>1. One(Passing(held)) = 0
      BY <1>19 DEF One
    <3> QED BY <1>2, <1>3, <3>1
  <2>5. CASE c = cur + 1
    <3>1. g.rho <= 1 /\ p = cur /\ c # cur
      BY <1>2, <1>5, <1>6, <2>5
    <3>2. ~on
      BY <1>2, <1>16, <3>1
    <3>3. y = 0
      BY <1>10, <1>15, <3>2
    <3>4. z = 0 /\ h.pres = 0
      BY <2>3, <2>4, <3>1, <3>3
    <3> QED BY <1>11, <3>4
  <2>6. CASE c = cur /\ g.rho = 5
    <3>1. p = cur /\ cur > 0
      BY <1>5, <2>6
    <3>2. ~Counting(h)'
      BY <1>2, <1>17, <2>2, <2>6, <3>1
    <3>3. z = 0
      <4>1. CASE t = Chain[cur].type
        BY <2>3, <2>6, <4>1
      <4>2. CASE t # Chain[cur].type
        BY <1>10, <2>3, <4>2
      <4> QED BY <4>1, <4>2
    <3> QED BY <1>11, <3>2, <3>3
  <2>7. CASE c = cur /\ g.rho # 5
    <3>1. Counting(h)' <=> on
      BY <1>16, <1>17, <2>2, <2>7
    <3>2. HPC_clear_sig => ~on
      <4>1. HPC_clear_sig => cur = 0
        BY ReadyFacts DEF Clearing
      <4> QED BY <1>16, <4>1
    <3>3. y = IF on /\ t = Chain[c].type THEN h.pres ELSE 0
      BY <1>10, <1>15, <2>4, <2>7
    <3>4. z = y
      BY <2>3, <2>7, <3>2, <3>3
    <3> QED BY <1>11, <3>1, <3>3, <3>4
  <2> QED BY <1>2, <2>5, <2>6, <2>7
<1> QED BY <1>18, <1>19

\* Switched off, the device has nothing left to count.
LEMMA OffStep ==
  ASSUME DirectHost, NEW g \in Ghost, DInv(g), NEW bus \in Bus, NEW h, ~SwitchOn(bus),
         NEW s, NEW held, NEW new, NEW n, NEW r, NEW f, NEW c, NEW b, NEW e,
         Goes(g, h, bus, s, held, new, n, r, f, c, b, e), setup' = 0
  PROVE  h.rho = 0 /\ Presented(h)' = c
<1>1. /\ Types /\ Bounds(g) /\ Sequencer(g) /\ Kinds(bus) /\ Run("beat", g.pres, beats)
  BY DEF DInv, Goes, Tick, Streams
<1>2. /\ N \in Nat /\ cur \in 0..N /\ cleared \in 0..N /\ c \in {cur, cur + 1} /\ g.rho \in 0..5
      /\ g.pres \in Nat /\ beats \in Nat /\ g.pres <= beats /\ cleared <= cur /\ cur' = c
      /\ c \in 0..N
  BY Counted
<1>3. PICK p, q : p = Presented(g) /\ q = Presented(h)'
  OBVIOUS
<1>4. /\ p \in Nat /\ p <= cur
      /\ Completes(h, held, c) => p = c - 1
      /\ ~Completes(h, held, c) => q = p /\ h.rho = (IF g.rho > 0 THEN g.rho - 1 ELSE 0)
  BY <1>3, Progress
<1>5. Open => setup # 0
  BY OnWhenOpen
<1>6. c = cur
  <2>1. Starts(bus) => setup' = setup /\ Open
    BY DEF Starts
  <2> QED BY <1>2, <1>5, <2>1, Counted
<1>7. p = cur /\ g.rho <= 1
  <2>1. CASE setup = 0
    BY <1>1, <1>2, <1>3, <2>1 DEF Sequencer
  <2>2. CASE setup # 0
    <3>1. SwitchOff(bus)
      <4>1. ~Quiet(bus)
        <5>1. setup \in Nat
          BY <1>1, Numbers
        <5> QED BY <2>2, <5>1 DEF Quiet
      <4> QED BY <1>1, <2>2, <4>1 DEF Kinds, SwitchOn, Clears, Fetches, Starts, Continues, Reports
    <3>2. Settled /\ cleared = N
      BY <3>1 DEF SwitchOff, Controls
    <3>3. cleared = cur
      BY <1>2, <3>2
    <3>4. cur > 0 => beats = Chain[cur].beats /\ ~Awaits(BeatOf(cur))
      BY <1>1, <3>3 DEF Bounds
    <3>5. g.rho <= 1 /\ Members("beat") = {}
      BY <1>2, <3>2, <3>4, Quiescent
    <3>6. g.pres = beats
      <4>1. SUFFICES ASSUME g.pres < beats PROVE FALSE
        BY <1>2
      <4>2. beats \in (g.pres + 1)..beats
        BY <1>2, <4>1
      <4>3. \E i \in Members("beat") : Num(TagAt(i)) = beats
        BY <1>1, <4>2 DEF Run
      <4> QED BY <3>5, <4>3
    <3>7. Presented(g) = cur
      BY <1>2, <3>4, <3>6 DEF Presented
    <3> QED BY <1>3, <3>5, <3>7
  <2> QED BY <2>1, <2>2
<1>8. ~Completes(h, held, c)
  BY <1>2, <1>4, <1>6, <1>7
<1> QED BY <1>2, <1>3, <1>4, <1>6, <1>7, <1>8

\* The sequencer's registers follow the beats presented.
LEMMA SequencerStep ==
  ASSUME DirectHost, NEW g \in Ghost, DInv(g), NEW bus \in Bus, NEW h, ~SwitchOn(bus),
         NEW s, NEW held, NEW new, NEW n, NEW r, NEW f, NEW c, NEW b, NEW e,
         Goes(g, h, bus, s, held, new, n, r, f, c, b, e)
  PROVE  Sequencer(h)' /\ desc_done_r' \in [1..4 -> BOOLEAN]
<1>1. /\ P!Inv /\ Types /\ Bounds(g) /\ Sequencer(g) /\ Seqr!TypeOK /\ BeatsTimed
      /\ DeviceEdge(g.ld + 1, bus, held) /\ Follows(g, h, held, c) /\ Waits(held)
  BY DEF DInv, Goes, Types, Tick, Timing
<1>2. /\ N \in Nat /\ cur \in 0..N /\ c \in 0..N /\ c \in {cur, cur + 1} /\ g.pres \in Nat
      /\ h.pres \in Nat /\ cur' = c /\ g.rho \in 0..5 /\ h.rho \in 0..5
      /\ (c = cur + 1 <=> Starts(bus)) /\ h.rl <= e /\ e <= c /\ (c = cur + 1 => e <= cur)
      /\ h.rl \in Nat /\ e \in 0..N /\ g.rl \in 0..N
  BY Counted
<1>3. PICK p, q : p = Presented(g) /\ q = Presented(h)'
  OBVIOUS
<1>4. /\ p \in Nat /\ p <= cur /\ (g.rho > 0 => p = cur /\ cur > 0)
      /\ Completes(h, held, c) => /\ c > 0 /\ p = c - 1 /\ g.rho <= 1 /\ q = c /\ h.rho = 5
      /\ ~Completes(h, held, c) => q = p /\ h.rho = (IF g.rho > 0 THEN g.rho - 1 ELSE 0)
  BY <1>3, Progress
<1>5. c = cur + 1 => g.rho <= 1
  BY <1>2, StartsReady
<1>6. LATENCY \in Nat /\ idle \in Nat
  BY <1>1 DEF DirectHost, Waits
<1>7. PICK d : d = idle'
  OBVIOUS
<1>8. d \in {0, idle, idle + 1} /\ (held => d = 0)
  BY <1>1, <1>7 DEF Waits
<1>9. ASSUME Completes(h, held, c) PROVE d <= LATENCY + 1
  <2>1. CASE held
    BY <1>6, <1>8, <2>1
  <2>2. CASE Leaves(held, "beat")
    <3>1. 0 \in Members("beat") /\ ~Unanswered(0)
      BY <2>2 DEF Leaves, Unanswered
    <3>2. idle + 0 <= LATENCY
      BY <1>1, <3>1 DEF BeatsTimed
    <3> QED BY <1>6, <1>8, <3>2
  <2> QED BY <1>9, <2>1, <2>2 DEF Completes, Passing
<1>10. h.rho > 0 => c > 0 /\ q = c /\ d + h.rho <= LATENCY + 6
  <2>1. CASE Completes(h, held, c)
    <3>1. d <= LATENCY + 1 /\ d \in Nat
      BY <1>6, <1>8, <1>9, <2>1
    <3> QED BY <1>4, <1>6, <2>1, <3>1
  <2>2. CASE ~Completes(h, held, c)
    <3>1. SUFFICES ASSUME h.rho > 0 PROVE c > 0 /\ q = c /\ d + h.rho <= LATENCY + 6
      OBVIOUS
    <3>2. g.rho > 1 /\ h.rho = g.rho - 1 /\ q = p
      BY <1>2, <1>4, <2>2, <3>1
    <3>3. c = cur /\ p = cur /\ cur > 0
      BY <1>2, <1>4, <1>5, <3>2
    <3>4. idle + g.rho <= LATENCY + 6
      <4>1. g.rho > 0
        BY <1>2, <3>2
      <4> QED BY <1>1, <4>1 DEF Sequencer
    <3> QED BY <1>2, <1>6, <1>8, <3>2, <3>3, <3>4
  <2> QED BY <2>1, <2>2
<1>11. h.rho = 5 => h.rl < c
  <2> SUFFICES ASSUME h.rho = 5 PROVE h.rl < c
    OBVIOUS
  <2>1. Completes(h, held, c)
    BY <1>2, <1>4
  <2>2. CASE c = cur + 1
    BY <1>2, <2>2
  <2>3. CASE c = cur
    <3>1. ~Leaves(held, "status")
      <4>1. held => ~Leaves(held, "status")
        BY DEF Leaves
      <4>2. Leaves(held, "beat") => ~Leaves(held, "status")
        BY HeadNumbers
      <4> QED BY <2>1, <4>1, <4>2 DEF Completes, Passing
    <3>2. h.rl = g.rl
      BY <1>1, <1>2, <3>1 DEF Follows, One
    <3>3. Counting(g)
      BY <1>2, <1>3, <1>4, <2>1, <2>3 DEF Counting
    <3>4. g.rl < cur
      BY <3>3, CurrentSlot
    <3> QED BY <2>3, <3>2, <3>4
  <2> QED BY <1>2, <2>2, <2>3
<1>12. PICK x : x = Seqr!check_current_desc_done(slot[PIM_opcode_match_ptr])
  OBVIOUS
<1>13. x \in BOOLEAN /\ (x <=> g.rho = 5)
  <2>1. Seqr!check_current_desc_done(slot[PIM_opcode_match_ptr]) <=> g.rho = 5
    BY SequencerSees
  <2>2. x \in BOOLEAN
    BY <1>12, Zenon DEF Seqr!check_current_desc_done
  <2> QED BY <1>12, <2>1, <2>2
<1>14. desc_done_r' \in [1..4 -> BOOLEAN]
      /\ desc_done_r'[1] = x /\ \A i \in 2..4 : desc_done_r'[i] = desc_done_r[i - 1]
  <2>1. PICK y, z : y = desc_done_r /\ z = desc_done_r'
    OBVIOUS
  <2>2. y \in [1..4 -> BOOLEAN]
    BY <1>1, <2>1 DEF Seqr!TypeOK
  <2>3. Delayed(y, x, z)
    BY <1>1, <1>12, <2>1, Zenon DEF DeviceEdge, Delayed
  <2>4. /\ z \in [1..4 -> BOOLEAN]
        /\ z[1] = x /\ z[2] = y[1] /\ z[3] = y[2] /\ z[4] = y[3]
    <3>1. x \in BOOLEAN
      BY <1>13
    <3>2. PICK S : S = BOOLEAN
      OBVIOUS
    <3>3. y \in [1..4 -> S] /\ x \in S
      BY <2>2, <3>1, <3>2
    <3>4. /\ z \in [1..4 -> S]
          /\ z[1] = x /\ z[2] = y[1] /\ z[3] = y[2] /\ z[4] = y[3]
      BY <2>3, <3>3, DelayLine
    <3> QED BY <3>2, <3>4
  <2> QED BY <2>1, <2>4
<1>15. \A i \in 1..4 : desc_done_r'[i] <=> h.rho = 5 - i
  <2>1. \A i \in 1..4 : desc_done_r[i] <=> g.rho = 5 - i
    BY <1>1 DEF Sequencer
  <2>2. desc_done_r'[1] <=> g.rho = 5
    BY <1>13, <1>14
  <2>3. \A i \in 2..4 : desc_done_r'[i] <=> g.rho = 6 - i
    BY <1>14, <2>1
  <2>4. \A i \in 1..4 : g.rho = 6 - i <=> h.rho = 5 - i
    <3>1. CASE Completes(h, held, c)
      BY <1>2, <1>4, <3>1
    <3>2. CASE ~Completes(h, held, c)
      BY <1>2, <1>4, <3>2
    <3> QED BY <3>1, <3>2
  <2>5. TAKE i \in 1..4
  <2>6. CASE i = 1
    BY <2>2, <2>4, <2>6
  <2>7. CASE i \in 2..4
    BY <2>3, <2>4, <2>7
  <2> QED BY <2>6, <2>7
<1>16. \A t \in {"A", "B", "C"} :
        PIM_req_cnt'[t] = IF Counting(h)' /\ t = Chain[c].type THEN h.pres ELSE 0
  BY CountStep
<1>17. setup' = 0 => h.rho = 0 /\ q = c
  BY <1>3, OffStep
<1> QED BY <1>2, <1>3, <1>7, <1>10, <1>11, <1>14, <1>15, <1>16, <1>17 DEF Sequencer

-----------------------------------------------------------------------------
(***************************************************************************)
(* The types of the registers.                                             *)
(***************************************************************************)
\* The types of the descriptor unit's registers.
LEMMA DeviceTypes ==
  ASSUME DirectHost, NEW g \in Ghost, DInv(g), NEW bus \in Bus,
         NEW reply \in BOOLEAN, Drives(bus, reply), NEW k, NEW held,
         DeviceEdge(k, bus, held)
  PROVE  Desc!TypeOK'
<1>1. Desc!TypeOK
  BY DEF DInv, Types
<1>2. /\ HPC_clear_sig' \in BOOLEAN /\ AIM_working' \in BOOLEAN
  <2>1. /\ HPC_clear_sig' = Written(held, Desc!HPC_CLR_SIG)
        /\ AIM_working' = IF Written(held, Desc!AIM_WORK_SIG) THEN ~AIM_working
                          ELSE AIM_working
    BY DEF DeviceEdge
  <2>2. AIM_working \in BOOLEAN
    BY <1>1 DEF Desc!TypeOK
  <2>3. PICK p : p = Written(held, Desc!HPC_CLR_SIG)
    OBVIOUS
  <2>4. p \in BOOLEAN
    BY <2>3, Zenon DEF Written
  <2>5. HPC_clear_sig' \in BOOLEAN
    BY <2>1, <2>3, <2>4
  <2>6. AIM_working' \in BOOLEAN
    BY <2>1, <2>2
  <2> QED BY <2>5, <2>6
<1>3. next_desc_addr' \in Desc!Addr
  <2>1. next_desc_addr' \in {0, DescAddr(2), (bus.addr + 64) % ADDR_SPACE, next_desc_addr}
    BY DEF DeviceEdge
  <2>2. DescAddr(2) \in Desc!Addr /\ 0 \in Desc!Addr
    BY AddrAssumption DEF DescAddr, Desc!RSV_DESC_MEM_BASE, Desc!DESC_STRIDE, Desc!Addr
  <2>3. (bus.addr + 64) % ADDR_SPACE \in Desc!Addr
    <3>1. bus.addr \in Nat /\ ADDR_SPACE \in Nat /\ ADDR_SPACE > 0
      BY AddrAssumption DEF Bus, Desc!Addr
    <3> QED BY <3>1 DEF Desc!Addr
  <2>4. next_desc_addr \in Desc!Addr
    BY <1>1 DEF Desc!TypeOK
  <2> QED BY <2>1, <2>2, <2>3, <2>4
<1>4. args_reg' \in [A: Desc!Addr, B: Desc!Addr, C: Desc!Addr]
  <2>1. args_reg' \in {Desc!NoArgs, bus.args, args_reg}
    <3>1. PICK w1, w2 : args_reg' = IF w1 THEN Desc!NoArgs ELSE IF w2 THEN bus.args ELSE args_reg
      BY Zenon DEF Drives, Clock, Desc!Clock
    <3> QED BY <3>1
  <2>2. Desc!NoArgs \in Args /\ bus.args \in Args
    BY Addresses DEF Desc!NoArgs, Args, Bus
  <2>3. args_reg \in Args
    BY <1>1 DEF Desc!TypeOK, Args
  <2> QED BY <2>1, <2>2, <2>3 DEF Args
<1>5. /\ indirect_r' \in [valid: BOOLEAN, addr: Desc!Addr]
      /\ indirect_rr' \in [valid: BOOLEAN, addr: Desc!Addr]
  BY PlainStep
<1>6. DOMAIN slot' = 0..(SLOTS - 1)
  BY DEF DeviceEdge
<1>7. wr_ptr' \in 0..(SLOTS - 1) /\ clr_ptr' \in 0..(SLOTS - 1)
  <2>1. wr_ptr \in 0..(SLOTS - 1) /\ clr_ptr \in 0..(SLOTS - 1)
    BY <1>1 DEF Desc!TypeOK
  <2>2. \A p \in 0..(SLOTS - 1) : (p + 1) % SLOTS \in 0..(SLOTS - 1) /\ 0 \in 0..(SLOTS - 1)
    BY SlotsAssumption
  <2>3. wr_ptr' \in {0, (wr_ptr + 1) % SLOTS, wr_ptr}
    BY DEF DeviceEdge, Desc!NextPtr
  <2>4. clr_ptr' \in {0, (clr_ptr + 1) % SLOTS, clr_ptr}
    BY DEF DeviceEdge, Desc!NextPtr
  <2> QED BY <2>1, <2>2, <2>3, <2>4
<1> QED BY <1>2, <1>3, <1>4, <1>5, <1>6, <1>7 DEF Desc!TypeOK

\* The types of the sequencer's registers: no counter overflows.
LEMMA SequencerTypes ==
  ASSUME DirectHost, NEW g \in Ghost, DInv(g), NEW bus, NEW k, NEW held,
         DeviceEdge(k, bus, held)
  PROVE  Seqr!TypeOK'
<1>1. Types /\ Bounds(g) /\ Sequencer(g) /\ Seqr!TypeOK /\ CNT_RANGE \in Nat \ {0}
  BY DEF DInv, Types, DirectHost
<1>2. PICK now : now = slot[PIM_opcode_match_ptr]
  OBVIOUS
<1>3. ASSUME NEW t \in {"A", "B", "C"}
      PROVE  Seqr!NextCount(t, t \in Passes(held), HPC_clear_sig, now) \in 0..(CNT_RANGE - 1)
  <2>1. PICK z, y : /\ z = Seqr!NextCount(t, t \in Passes(held), HPC_clear_sig, now)
                    /\ y = PIM_req_cnt[t]
    OBVIOUS
  <2>2. z \in {0, (y + 1) % CNT_RANGE, y} \/ (z = 1 /\ Seqr!check_desc_done(t, now))
    <3>1. z = IF Seqr!check_desc_done(t, now) THEN (IF t \in Passes(held) THEN 1 ELSE 0)
              ELSE IF HPC_clear_sig THEN 0
              ELSE IF t \in Passes(held) THEN (y + 1) % CNT_RANGE
              ELSE y
      BY <2>1, Zenon DEF Seqr!NextCount
    <3> QED BY <3>1
  <2>3. y \in 0..(CNT_RANGE - 1)
    BY <1>1, <2>1 DEF Seqr!TypeOK, Seqr!Type
  <2>4. (y + 1) % CNT_RANGE \in 0..(CNT_RANGE - 1) /\ 0 \in 0..(CNT_RANGE - 1)
    BY <1>1, <2>3
  <2>5. Seqr!check_desc_done(t, now) => 1 \in 0..(CNT_RANGE - 1)
    <3> SUFFICES ASSUME Seqr!check_desc_done(t, now) PROVE 1 \in 0..(CNT_RANGE - 1)
      OBVIOUS
    <3>1. g.rho = 5
      BY <1>2, SequencerSees
    <3>2. cur \in 1..N
      <4>1. cur > 0 /\ cur \in 0..N
        BY <1>1, <3>1, Numbers DEF Sequencer
      <4> QED BY <4>1
    <3>3. Chain[cur].beats \in Nat /\ 1 <= Chain[cur].beats /\ Chain[cur].beats < CNT_RANGE
      BY <3>2, ChainFacts
    <3> QED BY <1>1, <3>3
  <2> QED BY <2>1, <2>2, <2>3, <2>4, <2>5
<1>4. PIM_req_cnt' \in [Seqr!Type -> 0..(CNT_RANGE - 1)]
  <2>1. PIM_req_cnt' =
       [t \in {"A", "B", "C"} |->
          Seqr!NextCount(t, t \in Passes(held), HPC_clear_sig, now)]
    BY <1>2, Zenon DEF DeviceEdge
  <2> QED BY <1>3, <2>1, Zenon DEF Seqr!Type
<1>5. desc_done_r' \in [1..4 -> BOOLEAN]
  <2>1. PICK x, y, z, S : /\ x = Seqr!check_current_desc_done(now) /\ y = desc_done_r
                          /\ z = desc_done_r' /\ S = BOOLEAN
    OBVIOUS
  <2>2. y \in [1..4 -> S] /\ x \in S
    BY <1>1, <2>1, Zenon DEF Seqr!TypeOK, Seqr!check_current_desc_done
  <2>3. Delayed(y, x, z)
    BY <1>2, <2>1, Zenon DEF DeviceEdge, Delayed
  <2>4. z \in [1..4 -> S]
    BY <2>2, <2>3, DelayLine
  <2> QED BY <2>1, <2>4
<1>6. PIM_opcode_match_ptr' \in 0..(SLOTS - 1)
  <2>1. PIM_opcode_match_ptr \in 0..(SLOTS - 1)
    BY <1>1 DEF Seqr!TypeOK
  <2>2. \A p \in 0..(SLOTS - 1) : (p + 1) % SLOTS \in 0..(SLOTS - 1) /\ 0 \in 0..(SLOTS - 1)
    BY SlotsAssumption
  <2>3. PIM_opcode_match_ptr' \in {0, (PIM_opcode_match_ptr + 1) % SLOTS, PIM_opcode_match_ptr}
    BY DEF DeviceEdge
  <2> QED BY <2>1, <2>2, <2>3
<1> QED BY <1>4, <1>5, <1>6 DEF Seqr!TypeOK

\* The types of all registers.
LEMMA TypesStep ==
  ASSUME DirectHost, NEW g \in Ghost, DInv(g), NEW bus \in Bus,
         NEW reply \in BOOLEAN, Drives(bus, reply), NEW k,
         NEW s, NEW held, NEW new, NEW n, NEW r, Tick(bus, s, held, new, n, r),
         DeviceEdge(k, bus, held)
  PROVE  Types'
<1>1. Types /\ Bounds(g) /\ Kinds(bus) /\ AwaitingMoves(bus, r)
      /\ (idle' = idle + 1 => ~Settled)
  BY DEF DInv, Tick
<1>2. Desc!TypeOK' /\ Seqr!TypeOK'
  BY DeviceTypes, SequencerTypes
<1>3. PICK l : l = Len(Setup)
  OBVIOUS
<1>4. /\ l \in Nat /\ l >= 2 /\ setup \in 0..l /\ idle \in 0..SETTLE /\ SETTLE \in Nat
      /\ fetched \in Nat /\ cur \in Nat /\ beats \in Nat /\ cleared \in Nat
  BY <1>1, <1>3, Numbers
<1>5. setup' \in 0..l
  <2>1. setup' \in {setup, 0, 1, 2} \/ (setup < l /\ setup' = setup + 1)
    BY <1>1, <1>3 DEF Kinds, Quiet, SwitchOn, Clears, SwitchOff, Fetches, Starts, Continues, Reports
  <2> QED BY <1>4, <2>1
<1>6. idle' \in 0..SETTLE
  <2>1. idle' = 0 \/ idle' = idle \/ idle' = idle + 1
    BY DEF Drives
  <2>2. idle' = idle + 1 => idle < SETTLE
    BY <1>1, <1>4 DEF Settled
  <2> QED BY <1>4, <2>1, <2>2
<1>7. fetched' \in Nat /\ cur' \in Nat /\ beats' \in Nat /\ cleared' \in Nat
  BY <1>1, <1>4 DEF Kinds, Quiet, SwitchOn, Clears, SwitchOff, Fetches, Starts, Continues, Reports
<1>8. awaiting' \in Seq([want: Want, k: 0..N])
  BY <1>1 DEF AwaitingMoves
<1> QED BY <1>2, <1>3, <1>5, <1>6, <1>7, <1>8 DEF Types

-----------------------------------------------------------------------------
(***************************************************************************)
(* Steps that begin anew: the first write of a session, and the reset.     *)
(***************************************************************************)
Zero == [ld |-> 0, rl |-> 0, pres |-> 0, rho |-> 0]

\* The ghost of a device that has nothing to do.
LEMMA ZeroTyped ==
  ASSUME DirectHost
  PROVE  /\ Zero \in Ghost /\ Zero.ld = 0 /\ Zero.rl = 0 /\ Zero.pres = 0 /\ Zero.rho = 0
  BY DEF Zero, Ghost, DirectHost

\* Between two sessions nothing is under way.
LEMMA NothingLeft ==
  ASSUME DirectHost, NEW g \in Ghost, DInv(g), setup = 0, Settled
  PROVE  /\ \A c \in {"descriptor", "status", "beat"} : Members(c) = {}
         /\ g.rho = 0 /\ ~Counting(g)
         /\ \A i \in 0..(SLOTS - 1) : slot[i] = Desc!EmptySlot
<1>1. /\ Types /\ Bounds(g) /\ Control /\ Sequencer(g) /\ SlotsMatch(g)
      /\ Run("descriptor", g.ld, fetched) /\ Run("status", g.rl, cleared)
  BY DEF DInv, Streams
<1>2. /\ N \in Nat /\ cur \in 0..N /\ cleared \in 0..N /\ fetched \in 0..N /\ g.ld \in 0..N
      /\ g.rl \in 0..N /\ g.rho \in 0..5
      /\ g.rl <= cleared /\ cleared <= cur /\ cur <= g.ld /\ g.ld <= fetched
  BY <1>1, Numbers
<1>3. cleared = fetched
  BY <1>1 DEF Control
<1>4. g.ld = fetched /\ cur = fetched
  BY <1>2, <1>3
<1>5. Members("status") = {}
  BY Quiescent
<1>6. g.rl = cleared
  <2>1. SUFFICES ASSUME g.rl < cleared PROVE FALSE
    BY <1>2
  <2>2. cleared \in (g.rl + 1)..cleared
    BY <1>2, <2>1
  <2> QED BY <1>1, <1>5, <2>2 DEF Run
<1>7. Members("descriptor") = {}
  <2>1. (g.ld + 1)..fetched = {}
    BY <1>2, <1>4
  <2> QED BY <1>1, <2>1 DEF Run
<1>8. Members("beat") = {}
  <2>1. cur > 0 => ~Awaits(BeatOf(cur))
    BY <1>1, <1>3, <1>4 DEF Bounds
  <2>2. cur = 0 \/ ~Awaits(BeatOf(cur))
    BY <1>2, <2>1
  <2> QED BY <2>2, Quiescent
<1>9. g.rho = 0 /\ Presented(g) = cur
  BY <1>1 DEF Sequencer
<1>10. ~Counting(g)
  BY <1>2, <1>9 DEF Counting
<1>11. \A i \in 0..(SLOTS - 1) : slot[i] = Desc!EmptySlot
  <2>1. (g.rl + 1)..g.ld = {}
    BY <1>2, <1>3, <1>4, <1>6
  <2> QED BY <1>1, <2>1 DEF SlotsMatch
<1> QED BY <1>5, <1>7, <1>8, <1>9, <1>10, <1>11

\* The first write of a session starts from an idle device.
LEMMA SwitchOnStep ==
  ASSUME DirectHost, NEW g \in Ghost, DInv(g), NEW bus \in Bus,
         NEW reply \in BOOLEAN, Drives(bus, reply), SwitchOn(bus),
         NEW s, NEW held, NEW new, NEW n, NEW r, Tick(bus, s, held, new, n, r),
         DeviceEdge(g.ld + 1, bus, held)
  PROVE  DInv(Zero)'
<1>1. /\ Types /\ Bounds(g) /\ Sequencer(g) /\ Seqr!TypeOK /\ held \in BOOLEAN
      /\ Moves(s, held, new, n) /\ held = Held(bus) /\ Understood(bus) /\ Kinds(bus)
      /\ new = Command(bus) /\ P!Inv'
  BY DEF DInv, Tick, Types, Moves
<1>2. /\ setup = 0 /\ setup' = 1 /\ Settled /\ bus.want = "other"
      /\ fetched' = 0 /\ cur' = 0 /\ beats' = 0 /\ cleared' = 0
  BY DEF SwitchOn, Controls
<1>3. /\ \A c \in {"descriptor", "status", "beat"} : Members(c) = {}
      /\ g.rho = 0 /\ ~Counting(g)
      /\ \A i \in 0..(SLOTS - 1) : slot[i] = Desc!EmptySlot
  BY <1>2, NothingLeft
<1>4. /\ N \in Nat /\ SLOTS \in Nat /\ SLOTS > 0
  BY <1>1, Numbers
<1>5. /\ Zero.ld = 0 /\ Zero.rl = 0 /\ Zero.pres = 0 /\ Zero.rho = 0
  BY ZeroTyped
<1>6. Joining(bus, new)
  BY <1>1, JoiningStep
<1>7. Types'
  BY TypesStep
<1>8. Tags' /\ Paired' /\ Awaited' /\ Timing'
  BY CommonStep
<1>9. Control'
  BY <1>6, ControlStep
<1>10. Plain' /\ LastRequest'
  BY <1>1, PlainStep, RequestStep
<1>11. \A c \in {"descriptor", "status", "beat"} : Members(c)' = {}
  <2>1. ~Joins(new, "descriptor") /\ ~Joins(new, "status") /\ ~Joins(new, "beat")
    BY <1>2, <1>6 DEF Joining, Operand
  <2>2. ASSUME NEW c \in {"descriptor", "status", "beat"}, NEW i \in Members(c)' PROVE FALSE
    <3>1. Joins(new, c) \/ i + s \in Members(c)
      BY <1>1, <2>2, MembersMove
    <3> QED BY <1>3, <2>1, <3>1
  <2> QED BY <2>2
<1>12. Streams(Zero)' /\ Order'
  <2>1. \A c \in {"descriptor", "status", "beat"} : Run(c, 0, 0)'
    <3> SUFFICES ASSUME NEW c \in {"descriptor", "status", "beat"} PROVE Run(c, 0, 0)'
      OBVIOUS
    <3>1. Members(c)' = {} /\ (0 + 1)..0 = {}
      BY <1>11
    <3> QED BY <3>1 DEF Run
  <2>2. /\ Run("descriptor", Zero.ld, fetched)' /\ Run("status", Zero.rl, cleared)'
        /\ Run("beat", Zero.pres, beats)'
    BY <1>2, <1>5, <2>1 DEF Run
  <2>3. BeatsCurrent' /\ Order'
    BY <1>11 DEF BeatsCurrent, Order
  <2> QED BY <2>2, <2>3 DEF Streams
<1>13. Bounds(Zero)'
  BY <1>2, <1>4, <1>5 DEF Bounds
<1>14. SlotsMatch(Zero)'
  <2>1. \A i \in 0..(SLOTS - 1) : slot'[i] = Desc!EmptySlot
    <3>1. ~Leaves(held, "descriptor")
      BY <1>3 DEF Leaves
    <3> QED BY <1>3, <3>1 DEF DeviceEdge
  <2>2. (0 + 1)..0 = {}
    OBVIOUS
  <2> QED BY <1>5, <2>1, <2>2 DEF SlotsMatch
<1>15. Rings(Zero)'
  <2>1. ~Ready'
    BY <1>2 DEF Ready
  <2> QED BY <2>1 DEF Rings
<1>16. Sequencer(Zero)'
  <2>1. Presented(Zero)' = 0 /\ ~Counting(Zero)'
    BY <1>2 DEF Presented, Counting
  <2>2. PICK now : now = slot[PIM_opcode_match_ptr]
    OBVIOUS
  <2>3. /\ \A t \in {"A", "B", "C"} : ~Seqr!check_desc_done(t, now)
        /\ ~Seqr!check_current_desc_done(now)
    BY <1>3, <2>2, SequencerSees
  <2>4. ASSUME NEW i \in 1..4 PROVE ~desc_done_r'[i]
    <3>1. PICK x, y, z : /\ x = Seqr!check_current_desc_done(now) /\ y = desc_done_r
                         /\ z = desc_done_r'
      OBVIOUS
    <3>2. y \in [1..4 -> BOOLEAN] /\ x \in BOOLEAN
      BY <1>1, <3>1, Zenon DEF Seqr!TypeOK, Seqr!check_current_desc_done
    <3>3. Delayed(y, x, z)
      BY <2>2, <3>1, Zenon DEF DeviceEdge, Delayed
    <3>4. z[1] = x /\ z[2] = y[1] /\ z[3] = y[2] /\ z[4] = y[3]
      BY <3>2, <3>3, DelayLine
    <3>5. ~x
      BY <2>3, <3>1, Zenon
    <3>6. \A q \in 1..4 : ~y[q]
      BY <1>1, <1>3, <3>1 DEF Sequencer
    <3>7. ~z[1] /\ ~z[2] /\ ~z[3] /\ ~z[4]
      BY <3>4, <3>5, <3>6
    <3> QED BY <3>1, <3>7
  <2>5. ASSUME NEW t \in {"A", "B", "C"} PROVE PIM_req_cnt'[t] = 0
    <3>1. PIM_req_cnt[t] = 0
      BY <1>1, <1>3 DEF Sequencer
    <3>2. Passes(held) = {}
      <4>1. ~held
        BY <1>1, <1>2 DEF Understood
      <4>2. ~Leaves(held, "beat")
        BY <1>3 DEF Leaves
      <4> QED BY <4>1, <4>2 DEF Passes
    <3>3. PIM_req_cnt' = [u \in {"A", "B", "C"} |->
             Seqr!NextCount(u, u \in Passes(held), HPC_clear_sig, now)]
      BY <2>2, Zenon DEF DeviceEdge
    <3>4. PIM_req_cnt'[t] = Seqr!NextCount(t, t \in Passes(held), HPC_clear_sig, now)
      BY <3>3, Zenon
    <3>5. PICK p : p = (t \in Passes(held))
      OBVIOUS
    <3>6. ~p
      BY <3>2, <3>5, Zenon
    <3>7. PIM_req_cnt'[t] = Seqr!NextCount(t, p, HPC_clear_sig, now)
      BY <3>4, <3>5, Zenon
    <3> QED BY <2>3, <3>1, <3>6, <3>7 DEF Seqr!NextCount
  <2>6. \A q \in 1..4 : ~(0 = 5 - q)
    OBVIOUS
  <2> QED BY <1>2, <1>5, <2>1, <2>4, <2>5, <2>6 DEF Sequencer
<1> QED BY <1>1, <1>7, <1>8, <1>9, <1>10, <1>12, <1>13, <1>14, <1>15, <1>16 DEF DInv

\* The invariant holds at the start.
LEMMA InitInv == DirectHost => (Init => DInv(Zero))
<1> SUFFICES ASSUME DirectHost, Init PROVE DInv(Zero)
  OBVIOUS
<1>1. /\ setup = 0 /\ fetched = 0 /\ cur = 0 /\ beats = 0 /\ cleared = 0 /\ idle = 0
      /\ awaiting = <<>>
  BY DEF Init
<1>2. /\ rw_queue = <<>> /\ read_data_queue = <<>> /\ CAS_queue_head_r = <<>>
      /\ DRAM_data = Desc!ZeroWord /\ req_r = <<>> /\ in_flight = <<>>
  BY DEF Init, Path!Init
<1>3. /\ HPC_clear_sig = FALSE /\ AIM_working = FALSE /\ next_desc_addr = 0
      /\ args_reg = Desc!NoArgs
      /\ indirect_r = Desc!NotIndirect /\ indirect_rr = Desc!NotIndirect
      /\ slot = [i \in 0..(SLOTS - 1) |-> Desc!EmptySlot]
      /\ wr_ptr = 0 /\ clr_ptr = 0
  BY DEF Init, Desc!Init
<1>4. /\ PIM_req_cnt = [t \in {"A", "B", "C"} |-> 0]
      /\ desc_done_r = <<FALSE, FALSE, FALSE, FALSE>>
      /\ PIM_opcode_match_ptr = 0
  BY DEF Init, Seqr!Init, Seqr!Type
<1>5. /\ N \in Nat /\ SLOTS \in Nat /\ SLOTS > 0 /\ LATENCY \in Nat /\ SETTLE \in Nat
      /\ CNT_RANGE \in Nat /\ CNT_RANGE > 0 /\ Len(Setup) \in Nat /\ Len(Setup) >= 2
  BY SlotsAssumption DEF DirectHost
<1>6. /\ Zero.ld = 0 /\ Zero.rl = 0 /\ Zero.pres = 0 /\ Zero.rho = 0
  BY ZeroTyped
<1>7. P!Inv
  <2>1. P!Init
    BY <1>2 DEF P!Init
  <2> QED BY <2>1, PathConstants, P!InvInit
<1>8. Pos = {}
  <2>1. Len(rw_queue) = 0
    BY <1>2
  <2>2. \A i \in 0..0 : i = 0
    OBVIOUS
  <2> QED BY <1>2, <2>1, <2>2 DEF Pos
<1>9. \A c : Members(c) = {}
  BY <1>8 DEF Members
<1>10. \A a : Writing(a) = {}
  BY <1>8 DEF Writing
<1>21. /\ desc_done_r \in [1..4 -> BOOLEAN]
       /\ \A q \in 1..4 : desc_done_r[q] = FALSE
  <2>1. desc_done_r \in Seq(BOOLEAN) /\ Len(desc_done_r) = 4
    BY <1>4
  <2>2. /\ desc_done_r[1] = FALSE /\ desc_done_r[2] = FALSE
        /\ desc_done_r[3] = FALSE /\ desc_done_r[4] = FALSE
    BY <1>4
  <2>3. \A q \in 1..4 : q = 1 \/ q = 2 \/ q = 3 \/ q = 4
    OBVIOUS
  <2>4. desc_done_r \in [1..Len(desc_done_r) -> BOOLEAN]
    BY <2>1, LenProperties, Zenon
  <2>5. desc_done_r \in [1..4 -> BOOLEAN]
    BY <2>1, <2>4, Zenon
  <2> QED BY <2>2, <2>3, <2>5
<1>11. Types
  <2>1. Desc!NoArgs \in [A: Desc!Addr, B: Desc!Addr, C: Desc!Addr]
    BY Addresses DEF Desc!NoArgs
  <2>2. Desc!NotIndirect \in [valid: BOOLEAN, addr: Desc!Addr]
    BY Addresses DEF Desc!NotIndirect
  <2>3. 0 \in Desc!Addr /\ 0 \in 0..(SLOTS - 1) /\ 0 \in 0..(CNT_RANGE - 1)
    BY <1>5, Addresses
  <2>4. Desc!TypeOK
    <3>1. DOMAIN slot = 0..(SLOTS - 1)
      BY <1>3
    <3> QED BY <1>3, <2>1, <2>2, <2>3, <3>1 DEF Desc!TypeOK
  <2>5. desc_done_r \in [1..4 -> BOOLEAN]
    BY <1>21
  <2>6. Seqr!TypeOK
    BY <1>4, <2>3, <2>5 DEF Seqr!TypeOK, Seqr!Type
  <2>7. awaiting \in Seq([want: Want, k: 0..N])
    BY <1>1
  <2>8. 0 \in 0..Len(Setup) /\ 0 \in 0..SETTLE
    BY <1>5
  <2> QED BY <1>1, <2>4, <2>6, <2>7, <2>8 DEF Types
<1>12. Bounds(Zero)
  BY <1>1, <1>5, <1>6 DEF Bounds
<1>13. Control
  <2>1. ~Open
    <3>1. PICK l : l = Len(Setup)
      OBVIOUS
    <3> QED BY <1>1, <1>5, <3>1 DEF Open
  <2>2. ~Clearing
    BY <1>3, <1>10 DEF Clearing
  <2> QED BY <1>1, <1>3, <1>10, <2>1, <2>2 DEF Control
<1>14. Tags /\ Paired /\ Awaited /\ Timing
  <2>1. Tags /\ Paired
    BY <1>8 DEF Tags, Paired
  <2>2. Awaited
    <3>1. Len(awaiting) = Len(in_flight)
      BY <1>1, <1>2
    <3> QED BY <1>8, <3>1 DEF Awaited
  <2>3. Timing
    BY <1>8, <1>9 DEF Timing, PendingTimed, BeatsTimed, DescriptorsTimed, Pending
  <2> QED BY <2>1, <2>2, <2>3
<1>15. Streams(Zero) /\ Order
  <2>1. \A c : Run(c, 0, 0)
    <3> SUFFICES ASSUME NEW c PROVE Run(c, 0, 0)
      OBVIOUS
    <3>1. Members(c) = {} /\ (0 + 1)..0 = {}
      BY <1>9
    <3> QED BY <3>1 DEF Run
  <2> QED BY <1>1, <1>6, <1>9, <2>1 DEF Streams, Order, BeatsCurrent
<1>16. SlotsMatch(Zero)
  <2>1. (0 + 1)..0 = {}
    OBVIOUS
  <2> QED BY <1>3, <1>6, <2>1 DEF SlotsMatch
<1>17. Presented(Zero) = 0 /\ Behind(Zero) = 0
  BY <1>1, <1>6 DEF Presented, Behind
<1>18. Rings(Zero)
  <2>1. 0 % SLOTS = 0 /\ 0 - 0 = 0
    BY Ring
  <2> QED BY <1>1, <1>3, <1>4, <1>6, <1>17, <2>1 DEF Rings
<1>19. Sequencer(Zero)
  <2>1. \A q \in 1..4 : ~desc_done_r[q] /\ ~(0 = 5 - q)
    BY <1>21
  <2>2. \A t \in {"A", "B", "C"} : PIM_req_cnt[t] = 0
    BY <1>4
  <2> QED BY <1>1, <1>6, <1>17, <2>1, <2>2 DEF Sequencer
<1>20. Plain /\ LastRequest
  BY <1>2, <1>3 DEF Plain, LastRequest, Desc!NotIndirect
<1> QED BY <1>7, <1>11, <1>12, <1>13, <1>14, <1>15, <1>16, <1>18, <1>19, <1>20 DEF DInv

\* Reset is a start.
LEMMA ResetStarts == Reset => Init'
<1> SUFFICES ASSUME Reset PROVE Init'
  OBVIOUS
<1>1. Path!Init'
  BY DEF Reset, Path!Reset, Path!Init
<1>2. Desc!Init'
  BY DEF Reset, Desc!Reset, Desc!Init
<1>3. Seqr!Init'
  BY DEF Reset, Seqr!Reset, Seqr!Init
<1> QED BY <1>1, <1>2, <1>3 DEF Reset, Init

\* So the invariant holds after it.
LEMMA ResetStep == DirectHost => (Reset => DInv(Zero)')
<1> SUFFICES ASSUME DirectHost PROVE Reset => DInv(Zero)'
  OBVIOUS
<1>1. Init => DInv(Zero)
  BY InitInv
<1>2. Init' => DInv(Zero)'
  BY <1>1, PTL
<1> QED BY <1>2, ResetStarts

-----------------------------------------------------------------------------
(***************************************************************************)
(* The invariant is inductive: some values of the ghost always satisfy it. *)
(***************************************************************************)
\* Every step of the host keeps the invariant, for some ghost.
LEMMA CycleStep ==
  ASSUME DirectHost, NEW g \in Ghost, DInv(g), NEW bus \in Bus,
         NEW reply \in BOOLEAN, Drives(bus, reply), Kinds(bus)
  PROVE  \E h \in Ghost : DInv(h)'
<1>1. PICK s, held, new, n, r :
        Tick(bus, s, held, new, n, r) /\ DeviceEdge(g.ld + 1, bus, held)
  BY TickStep
<1>2. /\ held = Held(bus) /\ new = Command(bus) /\ Understood(bus) /\ P!Inv' /\ N \in Nat
  BY <1>1 DEF Tick, DirectHost
<1>3. CASE SwitchOn(bus)
  <2>1. Zero \in Ghost /\ DInv(Zero)'
    BY <1>1, <1>3, SwitchOnStep, ZeroTyped
  <2> QED BY <2>1
<1>4. CASE ~SwitchOn(bus)
  <2>1. PICK f, c, b, e : Counters(bus, held, new, f, c, b, e)
    BY <1>2, <1>4, CountersStep
  <2>2. PICK h : Follows(g, h, held, c)
    BY <1>2, FollowsExists
  <2>3. Joining(bus, new)
    BY <1>2, JoiningStep
  <2>4. Goes(g, h, bus, s, held, new, n, r, f, c, b, e)
    BY <1>1, <2>1, <2>2, <2>3 DEF Goes
  <2>5. h \in Ghost /\ Bounds(h)'
    BY <2>4, BoundsStep
  <2>6. Types'
    BY <1>1, TypesStep
  <2>7. Tags' /\ Paired' /\ Awaited' /\ Timing'
    BY <1>1, CommonStep
  <2>8. Control'
    BY <1>1, <2>3, ControlStep
  <2>9. Plain' /\ LastRequest'
    BY <1>2, PlainStep, RequestStep
  <2>10. Streams(h)' /\ Order'
    BY <2>4, StreamsStep, OrderKept
  <2>11. SlotsMatch(h)' /\ Rings(h)' /\ Sequencer(h)'
    BY <1>4, <2>4, SlotsStep, RingsStep, SequencerStep
  <2>12. DInv(h)'
    BY <1>2, <2>5, <2>6, <2>7, <2>8, <2>9, <2>10, <2>11 DEF DInv
  <2> QED BY <2>5, <2>12
<1> QED BY <1>3, <1>4

\* A step that changes nothing.
LEMMA Stutter ==
  ASSUME NEW g, DInv(g), UNCHANGED vars
  PROVE  DInv(g)'
<1>1. UNCHANGED <<rw_queue, read_data_queue, CAS_queue_head_r, DRAM_data, req_r, in_flight,
                  HPC_clear_sig, AIM_working, next_desc_addr, args_reg, indirect_r,
                  indirect_rr, slot, wr_ptr, clr_ptr, PIM_req_cnt, desc_done_r,
                  PIM_opcode_match_ptr, setup, fetched, cur, beats, cleared, idle, awaiting>>
  BY DEF vars, path_vars, desc_vars, seq_vars, host_vars
<1>2. /\ Pos' = Pos
      /\ \A i : Ent(i)' = Ent(i) /\ TagAt(i)' = TagAt(i)
      /\ \A i : DataAt(i)' = DataAt(i) /\ Turn(i)' = Turn(i)
      /\ \A i : Unanswered(i)' <=> Unanswered(i)
  BY <1>1, Zenon DEF Pos, Ent, TagAt, DataAt, Turn, Unanswered, P!Replies
<1>3. /\ \A c : Members(c)' = Members(c)
      /\ \A a : Writing(a)' = Writing(a)
      /\ \A S : Awaits(S)' <=> Awaits(S)
      /\ (Open' <=> Open)
  BY <1>1, <1>2, Zenon DEF Members, Writing, Awaits, Open
<1>4. P!Inv'
  BY <1>1 DEF DInv, P!Inv, P!TypeOK, P!AgesDecrease, P!QueuesInStep, P!BacklogYoungerThanRead,
     P!OccupancyBounded
<1>5. Types'
  BY <1>1 DEF DInv, Types, Desc!TypeOK, Seqr!TypeOK
<1>6. Bounds(g)'
  BY <1>1, <1>3 DEF DInv, Bounds, BeatOf
<1>7. Control'
  BY <1>1, <1>3 DEF DInv, Control, Clearing
<1>8. Tags' /\ Paired' /\ Awaited'
  BY <1>1, <1>2 DEF DInv, Tags, Paired, Awaited
<1>9. Streams(g)' /\ Order'
  BY <1>1, <1>2, <1>3 DEF DInv, Streams, Run, BeatsCurrent, Order
<1>10. SlotsMatch(g)'
  BY <1>1 DEF DInv, SlotsMatch
<1>11. Presented(g)' = Presented(g) /\ (Counting(g)' <=> Counting(g)) /\ (Ready' <=> Ready)
  BY <1>1, <1>3 DEF Presented, Counting, Ready, Clearing
<1>12. Rings(g)'
  BY <1>1, <1>11 DEF DInv, Rings
<1>13. Sequencer(g)'
  BY <1>1, <1>11 DEF DInv, Sequencer
<1>14. Timing'
  BY <1>1, <1>2, <1>3 DEF DInv, Timing, PendingTimed, Pending, BeatsTimed, DescriptorsTimed, BeatOf
<1>15. Plain' /\ LastRequest'
  BY <1>1 DEF DInv, Plain, LastRequest
<1> QED BY <1>4, <1>5, <1>6, <1>7, <1>8, <1>9, <1>10, <1>12, <1>13, <1>14, <1>15 DEF DInv

\* The invariant of the device.
Safe == \E g \in Ghost : DInv(g)

\* Every step keeps it.
LEMMA SafeStep == DirectHost => (Safe /\ [Next]_vars => Safe')
<1> SUFFICES ASSUME DirectHost, Safe, [Next]_vars PROVE Safe'
  OBVIOUS
<1>1. PICK g \in Ghost : DInv(g)
  BY DEF Safe
<1>2. CASE UNCHANGED vars
  BY <1>1, <1>2, Stutter DEF Safe
<1>3. CASE Reset
  BY <1>3, ResetStep, ZeroTyped DEF Safe
<1>4. CASE Next /\ ~Reset
  <2>1. Types /\ Bounds(g)
    BY <1>1 DEF DInv
  <2>2. cur \in 0..N /\ beats \in Nat /\ cleared \in Nat /\ fetched \in 0..N
    BY <2>1, Numbers
  <2>3. PICK bus \in Bus, reply \in BOOLEAN : Drives(bus, reply) /\ Kinds(bus)
    BY <1>4, <2>1, <2>2, HostKinds
  <2> QED BY <1>1, <2>3, CycleStep DEF Safe
<1> QED BY <1>2, <1>3, <1>4

\* The invariant of the device holds in every state: it is what the four
\* theorems about Device_top (bank_top_GDDR6.v) at the end rest on.
THEOREM Safety == DirectHost => (Spec => []Safe)
<1> SUFFICES ASSUME DirectHost PROVE Spec => []Safe
  OBVIOUS
<1>1. Init => Safe
  BY InitInv, ZeroTyped DEF Safe
<1>2. Safe /\ [Next]_vars => Safe'
  BY SafeStep
<1> QED BY <1>1, <1>2, PTL DEF Spec

-----------------------------------------------------------------------------
(***************************************************************************)
(* The numbers of the invariant are the ones that can be read off the      *)
(* queue.                                                                  *)
(***************************************************************************)
\* The i-th entry is the command at position i less the length of the head
\* register.
LEMMA EntriesAre ==
  ASSUME DirectHost, P!Inv
  PROVE  \E q \in {0, 1} : /\ Len(Entries) = q + Len(rw_queue) /\ Len(rw_queue) \in Nat
                           /\ \A i \in 1..Len(Entries) : i - q \in Pos /\ Entries[i] = Ent(i - q)
                           /\ \A j \in Pos : j + q \in 1..Len(Entries)
<1>1. /\ rw_queue \in Seq(P!Command) /\ Len(rw_queue) \in Nat
      /\ CAS_queue_head_r \in {<<>>} \cup {<<c>> : c \in P!Command}
  BY DEF P!Inv, P!TypeOK
<1>2. CAS_queue_head_r \in Seq(P!Command) /\ Len(CAS_queue_head_r) \in {0, 1}
      /\ (Len(CAS_queue_head_r) = 1 <=> CAS_queue_head_r # <<>>)
  <2>1. CASE CAS_queue_head_r = <<>>
    BY <2>1
  <2>2. ASSUME NEW c \in P!Command, CAS_queue_head_r = <<c>>
        PROVE  CAS_queue_head_r \in Seq(P!Command) /\ Len(CAS_queue_head_r) = 1
               /\ CAS_queue_head_r # <<>>
    BY <2>2
  <2> QED BY <1>1, <2>1, <2>2
<1>3. PICK q : q = Len(CAS_queue_head_r)
  OBVIOUS
<1>4. PICK l : l = Len(rw_queue)
  OBVIOUS
<1>5. /\ Len(Entries) = q + l
      /\ \A i \in 1..(q + l) :
           Entries[i] = IF i <= q THEN CAS_queue_head_r[i] ELSE rw_queue[i - q]
  BY <1>1, <1>2, <1>3, <1>4, ConcatProperties DEF Entries
<1>6. q \in {0, 1} /\ l \in Nat /\ (q = 1 <=> CAS_queue_head_r # <<>>)
  BY <1>1, <1>2, <1>3, <1>4
<1>7. ASSUME NEW i \in 1..(q + l) PROVE i - q \in Pos /\ Entries[i] = Ent(i - q)
  <2>1. CASE i <= q
    <3>1. i = 1 /\ q = 1 /\ i - q = 0
      BY <1>6, <2>1
    <3>2. 0 \in Pos
      BY <1>4, <1>6, <3>1 DEF Pos
    <3>3. Entries[i] = CAS_queue_head_r[1]
      BY <1>5, <2>1, <3>1
    <3> QED BY <3>1, <3>2, <3>3 DEF Ent
  <2>2. CASE ~(i <= q)
    <3>1. i - q \in 1..l /\ i - q # 0
      BY <1>6, <2>2
    <3>2. i - q \in Pos
      BY <1>4, <1>6, <3>1 DEF Pos
    <3>3. Entries[i] = rw_queue[i - q]
      BY <1>5, <2>2
    <3> QED BY <3>1, <3>2, <3>3 DEF Ent
  <2> QED BY <2>1, <2>2
<1>8. ASSUME NEW j \in Pos PROVE j + q \in 1..(q + l)
  <2>1. j \in 0..l /\ (j = 0 => q = 1)
    BY <1>4, <1>6 DEF Pos
  <2> QED BY <1>6, <2>1
<1> QED BY <1>4, <1>5, <1>6, <1>7, <1>8

\* As many commands of a class are under way as there are numbers in its run.
LEMMA QueuedRun ==
  ASSUME DirectHost, P!Inv, NEW c, NEW want,
         \A i \in Pos : TagAt(i).want = want <=> i \in Members(c),
         NEW lo \in Nat, NEW hi \in Nat, lo <= hi, Run(c, lo, hi)
  PROVE  Queued(want) = hi - lo
<1> DEFINE S == {i \in 1..Len(Entries) : Entries[i].tag.want = want}
           T == (lo + 1)..hi
<1>1. PICK q \in {0, 1} :
        /\ Len(Entries) = q + Len(rw_queue) /\ Len(rw_queue) \in Nat
        /\ \A i \in 1..Len(Entries) : i - q \in Pos /\ Entries[i] = Ent(i - q)
        /\ \A j \in Pos : j + q \in 1..Len(Entries)
  BY EntriesAre
<1>2. \A i \in Pos : i \in Nat
  BY PosRange
<1>3. \A i \in S : i \in Nat /\ i - q \in Members(c)
  BY <1>1 DEF TagAt
<1>4. \A j \in Members(c) : j + q \in S /\ (j + q) - q = j /\ j \in Nat
  <2> SUFFICES ASSUME NEW j \in Members(c) PROVE j + q \in S /\ (j + q) - q = j /\ j \in Nat
    OBVIOUS
  <2>1. j \in Pos /\ j \in Nat
    BY <1>2 DEF Members
  <2>2. (j + q) - q = j /\ j + q \in 1..Len(Entries)
    BY <1>1, <2>1
  <2>3. Entries[j + q] = Ent(j)
    BY <1>1, <2>2
  <2> QED BY <2>1, <2>2, <2>3 DEF TagAt
<1> DEFINE F == [i \in S |-> Num(TagAt(i - q))]
<1>5. F \in [S -> T]
  BY <1>3 DEF Run
<1>6. \A i, j \in S : F[i] = F[j] => i = j
  <2> SUFFICES ASSUME NEW i \in S, NEW j \in S, F[i] = F[j] PROVE i = j
    OBVIOUS
  <2>1. /\ i \in Nat /\ j \in Nat /\ i - q \in Members(c) /\ j - q \in Members(c)
        /\ Num(TagAt(i - q)) = Num(TagAt(j - q))
        /\ Num(TagAt(i - q)) \in T /\ Num(TagAt(j - q)) \in T
    BY <1>3, <1>5
  <2>2. ~(i - q < j - q) /\ ~(j - q < i - q)
    BY <2>1 DEF Run
  <2> QED BY <2>1, <2>2
<1>7. \A k \in T : \E i \in S : F[i] = k
  <2> SUFFICES ASSUME NEW k \in T PROVE \E i \in S : F[i] = k
    OBVIOUS
  <2>1. PICK j \in Members(c) : Num(TagAt(j)) = k
    BY DEF Run
  <2>2. j + q \in S /\ F[j + q] = Num(TagAt(j))
    BY <1>4
  <2> QED BY <2>1, <2>2
<1> HIDE DEF F, S, T
<1>8. ExistsBijection(S, T)
  <2>1. F \in Bijection(S, T)
    BY <1>5, <1>6, <1>7 DEF Bijection, Injection, Surjection, IsInjective
  <2> QED BY <2>1 DEF ExistsBijection
<1>9. IsFiniteSet(S)
  <2>1. IsFiniteSet(1..Len(Entries))
    <3>1. Len(Entries) \in Int
      BY <1>1
    <3> QED BY <3>1, FS_Interval
  <2> QED BY <2>1, FS_Subset DEF S
<1>10. Cardinality(T) = Cardinality(S)
  BY <1>8, <1>9, FS_Bijection
<1>11. Cardinality(T) = hi - lo
  <2>1. lo + 1 \in Int /\ hi \in Int
    OBVIOUS
  <2>2. Cardinality((lo + 1)..hi) = IF lo + 1 > hi THEN 0 ELSE hi - (lo + 1) + 1
    BY <2>1, FS_Interval
  <2>3. (IF lo + 1 > hi THEN 0 ELSE hi - (lo + 1) + 1) = hi - lo
    OBVIOUS
  <2> QED BY <2>2, <2>3 DEF T
<1> QED BY <1>10, <1>11 DEF Queued, S

\* How many commands of each kind are under way.
LEMMA QueuedCounts ==
  ASSUME DirectHost, NEW g \in Ghost, DInv(g)
  PROVE  /\ LoadedCount = g.ld /\ ReleasedCount = g.rl
         /\ cur > 0 => Queued(Chain[cur].type) = beats - g.pres
<1>1. /\ P!Inv /\ Types /\ Bounds(g) /\ Tags /\ BeatsCurrent
      /\ Run("descriptor", g.ld, fetched) /\ Run("status", g.rl, cleared)
      /\ Run("beat", g.pres, beats)
  BY DEF DInv, Streams
<1>2. /\ g.ld \in 0..N /\ g.rl \in 0..N /\ g.pres \in Nat /\ fetched \in 0..N /\ cleared \in 0..N
      /\ N \in Nat /\ cur \in 0..N /\ beats \in Nat
      /\ g.rl <= cleared /\ g.ld <= fetched /\ g.pres <= beats
  BY <1>1, Numbers DEF Bounds
<1>3. \A i \in Pos : TagAt(i).want \in Want /\ TagAt(i).want # "C"
  BY <1>1 DEF Tags, Exact, TagAt
<1>4. Queued("descriptor") = fetched - g.ld
  <2>1. \A i \in Pos : TagAt(i).want = "descriptor" <=> i \in Members("descriptor")
    BY <1>3 DEF Members, Class, Operand, Want
  <2>2. g.ld \in Nat /\ fetched \in Nat /\ g.ld <= fetched
    BY <1>2
  <2> QED BY <1>1, <2>1, <2>2, QueuedRun
<1>5. Queued("status") = cleared - g.rl
  <2>1. \A i \in Pos : TagAt(i).want = "status" <=> i \in Members("status")
    BY <1>3 DEF Members, Class, Operand, Want
  <2>2. g.rl \in Nat /\ cleared \in Nat /\ g.rl <= cleared
    BY <1>2
  <2> QED BY <1>1, <2>1, <2>2, QueuedRun
<1>6. ASSUME cur > 0 PROVE Queued(Chain[cur].type) = beats - g.pres
  <2>1. cur \in 1..N
    BY <1>2, <1>6
  <2>2. Chain[cur].type \in {"A", "B", "C"}
    BY <2>1, ChainFacts
  <2>3. \A i \in Pos : TagAt(i).want = Chain[cur].type <=> i \in Members("beat")
    <3> SUFFICES ASSUME NEW i \in Pos
                 PROVE  TagAt(i).want = Chain[cur].type <=> i \in Members("beat")
      OBVIOUS
    <3>1. i \in Members("beat") <=> TagAt(i).want \in Operand
      BY <1>3 DEF Members, Class, Operand, Want
    <3>2. TagAt(i).want \in Want /\ TagAt(i).want # "C"
      BY <1>3
    <3>3. i \in Members("beat") => TagAt(i).want = Chain[cur].type
      BY <1>1 DEF BeatsCurrent
    <3> QED BY <2>2, <3>1, <3>2, <3>3 DEF Operand
  <2> QED BY <1>1, <1>2, <2>3, QueuedRun
<1> QED BY <1>2, <1>4, <1>5, <1>6 DEF LoadedCount, ReleasedCount

\* The operands presented.
LEMMA PresentedCounts ==
  ASSUME DirectHost, NEW g \in Ghost, DInv(g)
  PROVE  PresentedCount = Presented(g)
<1>1. Types /\ Bounds(g)
  BY DEF DInv
<1>2. cur \in 0..N /\ N \in Nat /\ beats \in Nat /\ g.pres \in Nat
  BY <1>1, Numbers
<1>3. CASE cur = 0
  BY <1>3 DEF PresentedCount, Presented
<1>4. CASE cur > 0
  <2>1. Queued(Chain[cur].type) = beats - g.pres
    BY <1>4, QueuedCounts
  <2>2. PICK m, x : m = Chain[cur].beats /\ x = Queued(Chain[cur].type)
    OBVIOUS
  <2>3. m \in Nat
    <3>1. cur \in 1..N
      BY <1>2, <1>4
    <3> QED BY <2>2, <3>1, ChainFacts
  <2>4. g.pres <= beats /\ beats <= m
    BY <1>1, <1>4, <2>2, <2>3 DEF Bounds
  <2>5. beats = m /\ x = 0 <=> g.pres = m
    BY <1>2, <2>1, <2>2, <2>3, <2>4
  <2>6. PresentedCount = IF beats = m /\ x = 0 THEN cur ELSE cur - 1
    BY <1>2, <1>4, <2>2 DEF PresentedCount
  <2>7. Presented(g) = IF g.pres = m THEN cur ELSE cur - 1
    BY <1>2, <1>4, <2>2 DEF Presented
  <2> QED BY <2>5, <2>6, <2>7
<1> QED BY <1>2, <1>3, <1>4

-----------------------------------------------------------------------------
(***************************************************************************)
(* What the invariant says of the device.                                  *)
(***************************************************************************)
\* A command in the queue carries the tags that the host means.
LEMMA SafeTags == DirectHost => (Safe => TagsExact)
<1> SUFFICES ASSUME DirectHost, Safe PROVE TagsExact
  OBVIOUS
<1>1. PICK g \in Ghost : DInv(g)
  BY DEF Safe
<1>2. P!Inv /\ Tags /\ LastRequest
  BY <1>1 DEF DInv
<1>3. ASSUME NEW i \in 1..Len(rw_queue) PROVE i \in Pos /\ Ent(i) = rw_queue[i]
  <2>1. Len(rw_queue) \in Nat
    BY <1>2 DEF P!Inv, P!TypeOK
  <2>2. i \in 0..Len(rw_queue) /\ i # 0
    BY <2>1
  <2> QED BY <2>2 DEF Pos, Ent
<1>4. \A i \in 1..Len(rw_queue) : Exact(rw_queue[i])
  BY <1>2, <1>3 DEF Tags
<1> QED BY <1>2, <1>4 DEF TagsExact, Exact, LastRequest

\* The slots hold the descriptors read and not yet released.
LEMMA SafeSlots == DirectHost => (Safe => SlotsHoldChain)
<1> SUFFICES ASSUME DirectHost, Safe PROVE SlotsHoldChain
  OBVIOUS
<1>1. PICK g \in Ghost : DInv(g)
  BY DEF Safe
<1>2. LoadedCount = g.ld /\ ReleasedCount = g.rl
  BY <1>1, QueuedCounts
<1>3. SlotsMatch(g)
  BY <1>1 DEF DInv
<1>4. SUFFICES ASSUME NEW i \in 0..(SLOTS - 1)
               PROVE  slot[i] = IF \E k \in (g.rl + 1)..g.ld : SlotOf(k) = i
                                THEN Content(CHOOSE k \in (g.rl + 1)..g.ld : SlotOf(k) = i)
                                ELSE Desc!EmptySlot
  BY <1>2 DEF SlotsHoldChain
<1>5. CASE \E k \in (g.rl + 1)..g.ld : SlotOf(k) = i
  <2>1. PICK k : k = CHOOSE j \in (g.rl + 1)..g.ld : SlotOf(j) = i
    OBVIOUS
  <2>2. k \in (g.rl + 1)..g.ld /\ SlotOf(k) = i
    BY <1>5, <2>1
  <2>3. slot[SlotOf(k)] = Content(k)
    BY <1>3, <2>2 DEF SlotsMatch
  <2> QED BY <1>5, <2>1, <2>2, <2>3
<1>6. CASE ~\E k \in (g.rl + 1)..g.ld : SlotOf(k) = i
  <2>1. slot[i] = Desc!EmptySlot
    BY <1>3, <1>6 DEF SlotsMatch
  <2> QED BY <1>6, <2>1
<1> QED BY <1>5, <1>6

\* A beat that is presented is the current operand's, as is the pointer.
LEMMA SafeBeats == DirectHost => (Safe => BeatUnderItsOpcode)
<1> SUFFICES ASSUME DirectHost, Safe, NEW i \in 1..Len(CAS_queue_head_r),
                    CAS_queue_head_r[i].tag.want \in {"A", "B"}
             PROVE  /\ PIM_opcode_match_ptr = SlotOf(CAS_queue_head_r[i].tag.k)
                    /\ slot[PIM_opcode_match_ptr] = Content(CAS_queue_head_r[i].tag.k)
  BY DEF BeatUnderItsOpcode
<1>1. PICK g \in Ghost : DInv(g)
  BY DEF Safe
<1>2. P!Inv /\ Tags /\ Types /\ Bounds(g)
  BY <1>1 DEF DInv
<1>3. CAS_queue_head_r # <<>> /\ i = 1
  <2>1. CAS_queue_head_r \in {<<>>} \cup {<<c>> : c \in P!Command}
    BY <1>2 DEF P!Inv, P!TypeOK
  <2>2. CASE CAS_queue_head_r = <<>>
    <3>1. Len(CAS_queue_head_r) = 0
      BY <2>2
    <3> QED BY <3>1
  <2>3. ASSUME NEW c, CAS_queue_head_r = <<c>>
        PROVE  CAS_queue_head_r # <<>> /\ i = 1
    <3>1. Len(CAS_queue_head_r) = 1
      BY <2>3
    <3> QED BY <2>3, <3>1
  <2> QED BY <2>1, <2>2, <2>3
<1>4. 0 \in Pos /\ TagAt(0) = CAS_queue_head_r[i].tag
  <2>1. 0 \in 0..Len(rw_queue)
    BY <1>2 DEF P!Inv, P!TypeOK
  <2> QED BY <1>3, <2>1 DEF Pos, TagAt, Ent
<1>5. Leaves(FALSE, "beat")
  BY <1>4 DEF Leaves, Members, Class, Operand
<1>6. g.pres < beats /\ cur \in 1..N /\ TagAt(0).k = cur
  BY <1>1, <1>5, HeadNumbers
<1>7. Counting(g)
  <2>1. beats \in 1..Chain[cur].beats /\ Chain[cur].beats \in Nat /\ g.pres \in Nat /\ N \in Nat
    <3>1. N \in Nat /\ g.pres \in Nat
      BY <1>2, Numbers
    <3>2. cur > 0
      BY <1>6, <3>1
    <3>3. beats \in 1..Chain[cur].beats
      BY <1>2, <3>2 DEF Bounds
    <3> QED BY <1>6, <3>1, <3>3, ChainFacts
  <2>2. g.pres # Chain[cur].beats
    BY <1>6, <2>1
  <2>3. Presented(g) = cur - 1
    BY <1>6, <2>1, <2>2 DEF Presented
  <2> QED BY <1>6, <2>3 DEF Counting
<1> QED BY <1>1, <1>4, <1>6, <1>7, CurrentSlot

\* The types of all registers.
LEMMA SafeTypes == DirectHost => (Safe => TypeOK)
<1> SUFFICES ASSUME DirectHost, Safe PROVE TypeOK
  OBVIOUS
<1>1. PICK g \in Ghost : DInv(g)
  BY DEF Safe
<1>2. P!Inv /\ Types /\ Bounds(g) /\ Awaited
  BY <1>1 DEF DInv
<1>3. P!Command = Path!Command
  BY DEF P!Command, Path!Command
<1>4. /\ rw_queue \in Seq(P!Command) /\ read_data_queue \in Seq(Data) /\ DRAM_data \in Data
      /\ CAS_queue_head_r \in {<<>>} \cup {<<c>> : c \in P!Command}
  BY <1>2 DEF P!Inv, P!TypeOK
<1>5. CAS_queue_head_r \in Seq(P!Command)
  <2>1. ASSUME NEW c \in P!Command PROVE <<c>> \in Seq(P!Command)
    OBVIOUS
  <2>2. <<>> \in Seq(P!Command)
    OBVIOUS
  <2> QED BY <1>4, <2>1, <2>2
<1>6. cleared <= cur /\ cur <= fetched /\ fetched <= N
  BY <1>2, Numbers, SMTT(30)
<1> QED BY <1>2, <1>3, <1>4, <1>5, <1>6 DEF TypeOK, Types, Awaited

-----------------------------------------------------------------------------
(***************************************************************************)
(* The pointer and the completions under way.                              *)
(***************************************************************************)
\* Without a count that is reached no descriptor is done.
LEMMA NothingDone ==
  ASSUME DirectHost, NEW g \in Ghost, DInv(g), g.rho # 5, ~Counting(g),
         NEW i \in 0..(SLOTS - 1)
  PROVE  ~Seqr!check_current_desc_done(slot[i])
<1>1. Types /\ Bounds(g) /\ SlotsMatch(g) /\ Sequencer(g)
  BY DEF DInv
<1>2. N \in Nat /\ g.ld \in 0..N /\ g.rl \in 0..N
  BY <1>1, Numbers
<1>3. ASSUME NEW t \in {"A", "B", "C"} PROVE ~Seqr!check_desc_done(t, slot[i])
  <2>1. PIM_req_cnt[t] = 0
    BY <1>1 DEF Sequencer
  <2>2. CASE \E k \in (g.rl + 1)..g.ld : SlotOf(k) = i
    <3>1. PICK k \in (g.rl + 1)..g.ld : SlotOf(k) = i
      BY <2>2
    <3>2. slot[i] = Content(k) /\ k \in 1..N
      BY <1>1, <1>2, <3>1 DEF SlotsMatch
    <3>3. Chain[k].beats # 0
      BY <3>2, ChainFacts
    <3> QED BY <2>1, <3>2, <3>3, ContentDone
  <2>3. CASE ~\E k \in (g.rl + 1)..g.ld : SlotOf(k) = i
    <3>1. slot[i] = Desc!EmptySlot
      BY <1>1, <2>3 DEF SlotsMatch
    <3>2. slot[i].info.type = {}
      BY <3>1 DEF Desc!EmptySlot, Desc!NoInfo
    <3> QED BY <3>2 DEF Seqr!check_desc_done
  <2> QED BY <2>2, <2>3
<1> QED BY <1>3 DEF Seqr!check_current_desc_done

\* At most one completion is in the delay line.
LEMMA Delayed1 ==
  ASSUME NEW v \in 0..5, \A q \in 1..4 : desc_done_r[q] <=> v = 5 - q
  PROVE  Cardinality({i \in 1..4 : desc_done_r[i]}) = IF v \in 1..4 THEN 1 ELSE 0
<1>1. CASE v \in 1..4
  <2>1. PICK j : j = 5 - v
    OBVIOUS
  <2>2. {i \in 1..4 : desc_done_r[i]} = {j}
    BY <1>1, <2>1
  <2> QED BY <1>1, <2>2, FS_Singleton
<1>2. CASE v \notin 1..4
  <2>1. {i \in 1..4 : desc_done_r[i]} = {}
    BY <1>2
  <2> QED BY <1>2, <2>1, FS_EmptySet
<1> QED BY <1>1, <1>2

\* The pointer is one behind as long as a completion is on its way.
LEMMA SafePointer == DirectHost => (Safe => PointerInStep)
<1> SUFFICES ASSUME DirectHost, Safe, Open, fetched > 0
             PROVE  (PIM_opcode_match_ptr + Completions) % SLOTS = PresentedCount % SLOTS
  BY SafeTypes DEF PointerInStep
<1>1. PICK g \in Ghost : DInv(g)
  BY DEF Safe
<1>2. Types /\ Bounds(g) /\ Rings(g) /\ Sequencer(g)
  BY <1>1 DEF DInv
<1>3. /\ N \in Nat /\ SLOTS \in Nat /\ SLOTS > 0 /\ cur \in 0..N /\ g.rho \in 0..5 /\ g.pres \in Nat
  BY <1>2, Numbers
<1>4. PICK p, m, v : p = Presented(g) /\ m = PIM_opcode_match_ptr /\ v = g.rho
  OBVIOUS
<1>5. p \in Nat /\ PresentedCount = p /\ v \in 0..5
  <2>1. p \in Nat
    BY <1>3, <1>4 DEF Presented
  <2> QED BY <1>1, <1>3, <1>4, <2>1, PresentedCounts
<1>6. v > 0 => p = cur /\ cur > 0
  BY <1>2, <1>4 DEF Sequencer
<1>7. m = (p - (IF v > 0 THEN 1 ELSE 0)) % SLOTS
  <2>1. Ready
    BY <1>1, ReadyFacts
  <2> QED BY <1>2, <1>4, <2>1 DEF Rings, Behind
<1>8. PICK d, nx : /\ d = Cardinality({i \in 1..4 : desc_done_r[i]})
                   /\ nx = (m + d) % SLOTS
  OBVIOUS
<1>9. d = IF v \in 1..4 THEN 1 ELSE 0
  <2>1. \A q \in 1..4 : desc_done_r[q] <=> v = 5 - q
    BY <1>2, <1>4 DEF Sequencer
  <2> QED BY <1>5, <1>8, <2>1, Delayed1
<1>10. Completions = d + IF Seqr!check_current_desc_done(slot[nx]) THEN 1 ELSE 0
  BY <1>4, <1>8, Zenon DEF Completions
<1>11. m \in 0..(SLOTS - 1)
  BY <1>2, <1>4 DEF Types, Seqr!TypeOK
<1>12. m % SLOTS = m /\ (m + 0) % SLOTS = m
  BY <1>3, <1>11
<1>13. p > 0 => (((p - 1) % SLOTS) + 1) % SLOTS = p % SLOTS
  <2> SUFFICES ASSUME p > 0 PROVE (((p - 1) % SLOTS) + 1) % SLOTS = p % SLOTS
    OBVIOUS
  <2>1. PICK x : x = p - 1
    OBVIOUS
  <2>2. x \in Nat /\ x + 1 = p
    BY <1>5, <2>1
  <2>3. ((x % SLOTS) + 1) % SLOTS = (x + 1) % SLOTS
    BY <2>2, Ring
  <2> QED BY <2>1, <2>2, <2>3
<1>14. CASE v = 0
  <2>1. d = 0 /\ nx = m /\ m = p % SLOTS
    <3>1. p - 0 = p
      BY <1>5
    <3> QED BY <1>7, <1>8, <1>9, <1>12, <1>14, <3>1
  <2>2. ~Seqr!check_current_desc_done(slot[nx])
    <3>1. ~(g.rho = 5)
      BY <1>4, <1>14
    <3>2. PICK now : now = slot[PIM_opcode_match_ptr]
      OBVIOUS
    <3>3. Seqr!check_current_desc_done(now) <=> g.rho = 5
      BY <1>1, <3>2, SequencerSees
    <3>4. now = slot[nx]
      BY <1>4, <2>1, <3>2
    <3> QED BY <3>1, <3>3, <3>4
  <2>3. Completions = 0
    BY <1>10, <2>1, <2>2
  <2> QED BY <1>4, <1>5, <1>12, <2>1, <2>3
<1>15. CASE v = 5
  <2>1. d = 0 /\ nx = m /\ m = (p - 1) % SLOTS /\ p > 0
    BY <1>3, <1>6, <1>7, <1>8, <1>9, <1>12, <1>15
  <2>2. Seqr!check_current_desc_done(slot[nx])
    BY <1>1, <1>4, <1>15, <2>1, SequencerSees
  <2>3. Completions = 1
    BY <1>10, <2>1, <2>2
  <2> QED BY <1>4, <1>5, <1>13, <2>1, <2>3
<1>16. CASE v \in 1..4
  <2>1. d = 1 /\ m = (p - 1) % SLOTS /\ p > 0 /\ p = cur
    BY <1>3, <1>6, <1>7, <1>9, <1>16
  <2>2. nx \in 0..(SLOTS - 1)
    BY <1>3, <1>8, <1>11, <2>1
  <2>3. g.rho # 5 /\ ~Counting(g)
    BY <1>3, <1>4, <1>16, <2>1 DEF Counting
  <2>4. ~Seqr!check_current_desc_done(slot[nx])
    BY <1>1, <2>2, <2>3, NothingDone
  <2>5. Completions = 1
    BY <1>10, <2>1, <2>4
  <2> QED BY <1>4, <1>5, <1>13, <2>1, <2>5
<1> QED BY <1>5, <1>14, <1>15, <1>16

-----------------------------------------------------------------------------
\* The device takes every command for what the host means it to be, whatever
\* the chain, the number of slots and the latency of the memory: no operand
\* beat is missed or taken for another, no result write is queued
\* (bank_top_GDDR6.v, srcA_pass, srcB_pass, dstC_pass, is_desc_range_incr and
\* is_desc_clr).
THEOREM TagsStayExact == DirectHost => (Spec => []TagsExact)
<1> SUFFICES ASSUME DirectHost PROVE Spec => []TagsExact
  OBVIOUS
<1>1. Spec => []Safe
  BY Safety
<1>2. Safe => TagsExact
  BY SafeTags
<1> QED BY <1>1, <1>2, PTL

\* The slots hold exactly the descriptors read and not yet reported done, in
\* ring order, each with its operand's address: wr_ptr and clr_ptr never
\* overtake each other, and every descriptor comes with its own data.
THEOREM SlotsStayInOrder == DirectHost => (Spec => []SlotsHoldChain)
<1> SUFFICES ASSUME DirectHost PROVE Spec => []SlotsHoldChain
  OBVIOUS
<1>1. Spec => []Safe
  BY Safety
<1>2. Safe => SlotsHoldChain
  BY SafeSlots
<1> QED BY <1>1, <1>2, PTL

\* PIM_opcode_match_ptr, with the completions in its four-cycle delay line,
\* counts the operands streamed: none is missed, none is counted twice; and
\* all registers keep their types, the beat counters without overflow.
THEOREM PointerStaysInStep == DirectHost => (Spec => []PointerInStep)
<1> SUFFICES ASSUME DirectHost PROVE Spec => []PointerInStep
  OBVIOUS
<1>1. Spec => []Safe
  BY Safety
<1>2. Safe => PointerInStep
  BY SafePointer
<1> QED BY <1>1, <1>2, PTL

\* An operand beat is presented while PIM_opcode_match_ptr points at the slot
\* of its own descriptor: the delay of the pointer never outlasts the pause
\* that the host makes between two operands.
THEOREM BeatsUnderTheirOpcode == DirectHost => (Spec => []BeatUnderItsOpcode)
<1> SUFFICES ASSUME DirectHost PROVE Spec => []BeatUnderItsOpcode
  OBVIOUS
<1>1. Spec => []Safe
  BY Safety
<1>2. Safe => BeatUnderItsOpcode
  BY SafeBeats
<1> QED BY <1>1, <1>2, PTL
-----------------------------------------------------------------------------
(***************************************************************************)
(* Each of the two queues is a shift-register FIFO (AxiFifo), and that is  *)
(* a queue for every depth and every set of words.  The invariant needed   *)
(* is FifoTypeOK: it keeps the counter inside the array or at "empty",     *)
(* where the modular counter arithmetic is exact.                          *)
(***************************************************************************)
\* The counter's increment and decrement, where the client uses them.
LEMMA CounterArithmetic ==
  ASSUME FifoTypeOK
  PROVE  /\ ~full => cnt_read_plus1 \in Slots
         /\ ~full /\ ~empty => cnt_read_plus1 = cnt_read + 1
         /\ empty => cnt_read_plus1 = 0
         /\ ~empty => cnt_read_minus1 \in Slots \cup {C_EMPTY}
         /\ ~empty /\ cnt_read > 0 => cnt_read_minus1 = cnt_read - 1
         /\ ~empty /\ cnt_read = 0 => cnt_read_minus1 = C_EMPTY
  BY FifoAssumption, SMTT(30)
  DEF FifoTypeOK, full, empty, cnt_read_plus1, cnt_read_minus1, Slots, Wrap,
      C_EMPTY, C_FULL

\* A queue that is not empty shows the word the counter points at.
LEMMA OldestWord ==
  ASSUME FifoTypeOK, ~empty
  PROVE  /\ cnt_read \in Slots
         /\ read_addr = cnt_read
         /\ dout = memory[cnt_read]
         /\ dout \in Word
  BY FifoAssumption, SMTT(30) DEF FifoTypeOK, empty, read_addr, dout, Slots

\* One clock edge keeps the types.
LEMMA FifoTypeStep == FifoTypeOK /\ [FifoNext]_fifo_vars => FifoTypeOK'
<1> SUFFICES ASSUME FifoTypeOK, [FifoNext]_fifo_vars PROVE FifoTypeOK'
  OBVIOUS
<1> USE DEF FifoTypeOK
<1>0. \A din \in Word : Shifted(din) \in [Slots -> Word]
  BY FifoAssumption DEF Shifted, Slots
<1>1. CASE \E din \in Word : FifoWrite(din)
  BY <1>0, <1>1, CounterArithmetic DEF FifoWrite, FifoClock, next_cnt_read
<1>2. CASE FifoRead
  BY <1>2, CounterArithmetic, OldestWord DEF FifoRead, FifoClock, next_cnt_read
<1>3. CASE \E din \in Word : FifoReadWrite(din)
  BY <1>0, <1>3, OldestWord DEF FifoReadWrite, FifoClock, next_cnt_read
<1>4. CASE \E wr_en \in BOOLEAN, din \in Word : FifoReset(wr_en, din)
  BY <1>0, <1>4 DEF FifoReset, FifoClock
<1>5. CASE UNCHANGED fifo_vars
  BY <1>5 DEF fifo_vars
<1> QED BY <1>1, <1>2, <1>3, <1>4, <1>5 DEF FifoNext

\* The counter never leaves the array for a value that is not "empty".
THEOREM FifoTypeCorrect == FifoSpec => []FifoTypeOK
<1>1. FifoInit => FifoTypeOK
  BY DEF FifoInit, FifoTypeOK
<1> QED BY <1>1, FifoTypeStep, PTL DEF FifoSpec

-----------------------------------------------------------------------------
(***************************************************************************)
(* Refinement.  Contents is the abstract queue; each kind of clock edge    *)
(* does to it what the abstract action does.                               *)
(***************************************************************************)
\* The first n words of an array, read backwards, as a sequence.
LEMMA Backwards ==
  ASSUME NEW m \in [Slots -> Word], NEW n \in 0..C_DEPTH
  PROVE  /\ [k \in 1..n |-> m[n - k]] \in Seq(Word)
         /\ Len([k \in 1..n |-> m[n - k]]) = n
         /\ \A i \in 1..n : [k \in 1..n |-> m[n - k]][i] = m[n - i]
<1>1. n \in Nat
  BY FifoAssumption
<1>2. \A k \in 1..n : m[n - k] \in Word
  BY FifoAssumption DEF Slots
<1>3. [k \in 1..n |-> m[n - k]] \in [1..n -> Word]
  BY <1>2
<1> QED BY <1>1, <1>3

\* How many words the queue holds, and what the flags say about it.
LEMMA CountRange ==
  ASSUME FifoTypeOK
  PROVE  /\ Count \in 0..C_DEPTH
         /\ empty <=> Count = 0
         /\ full <=> Count = C_DEPTH
         /\ ~empty => Count = cnt_read + 1
  BY FifoAssumption, SMTT(30)
  DEF FifoTypeOK, Count, empty, full, Slots, C_EMPTY, C_FULL, Wrap

\* The words held are a sequence, oldest first.
LEMMA ContentsType ==
  ASSUME FifoTypeOK
  PROVE  /\ Contents \in Seq(Word)
         /\ Len(Contents) = Count
         /\ \A k \in 1..Count : Contents[k] = memory[Count - k]
  BY CountRange, Backwards DEF FifoTypeOK, Contents

\* A write appends.
LEMMA WriteAppends ==
  ASSUME FifoTypeOK, NEW din \in Word, FifoWrite(din)
  PROVE  Contents' = Append(Contents, din)
<1>1. Count' = Count + 1
  BY CounterArithmetic, FifoAssumption, SMTT(30)
  DEF FifoWrite, FifoClock, next_cnt_read, Count, empty, C_EMPTY, Wrap, Slots
<1>2. memory' = Shifted(din) /\ memory' \in [Slots -> Word]
  BY FifoAssumption DEF FifoWrite, FifoClock, FifoTypeOK, Shifted, Slots
<1>3. Count < C_DEPTH /\ Count \in Nat
  BY CountRange, FifoAssumption DEF FifoWrite
<1>4. Count + 1 \in 0..C_DEPTH
  BY <1>3, FifoAssumption
<1>5. Contents' = [k \in 1..(Count + 1) |-> memory'[(Count + 1) - k]]
  BY <1>1, Zenon DEF Contents
<1>6. /\ Contents' \in Seq(Word)
      /\ Len(Contents') = Count + 1
      /\ \A k \in 1..(Count + 1) : Contents'[k] = memory'[(Count + 1) - k]
  BY <1>2, <1>4, <1>5, Backwards
<1>7. \A k \in 1..(Count + 1) : memory'[(Count + 1) - k] =
        IF k = Count + 1 THEN din ELSE memory[Count - k]
  BY <1>2, <1>3, FifoAssumption DEF Shifted, Slots
<1>8. /\ Append(Contents, din) \in Seq(Word)
      /\ Len(Append(Contents, din)) = Count + 1
      /\ \A k \in 1..(Count + 1) : Append(Contents, din)[k] =
           IF k = Count + 1 THEN din ELSE Contents[k]
  BY <1>3, ContentsType, AppendProperties
<1>9. ASSUME NEW k \in 1..(Count + 1)
      PROVE  Contents'[k] = Append(Contents, din)[k]
  <2>1. CASE k = Count + 1
    BY <2>1, <1>6, <1>7, <1>8
  <2>2. CASE k \in 1..Count
    BY <2>2, <1>3, <1>6, <1>7, <1>8, ContentsType
  <2>3. k = Count + 1 \/ k \in 1..Count
    BY <1>3
  <2> QED BY <2>1, <2>2, <2>3, Zenon
<1> QED BY <1>6, <1>8, <1>9, SeqEqual

\* A read hands over the head and leaves the tail.
LEMMA ReadTakesHead ==
  ASSUME FifoTypeOK, FifoRead
  PROVE  Contents # <<>> /\ Contents' = Tail(Contents) /\ taken' = Head(Contents)
<1>1. Count' = Count - 1 /\ memory' = memory /\ Count \in 1..C_DEPTH
  BY CounterArithmetic, OldestWord, CountRange, FifoAssumption, SMTT(30)
  DEF FifoRead, FifoClock, next_cnt_read, Count, empty, C_EMPTY, Wrap, Slots
<1>2. Contents # <<>> /\ taken' = Head(Contents)
  <2>1. Contents # <<>>
    BY <1>1, ContentsType
  <2>2. Head(Contents) = Contents[1]
    BY <2>1, ContentsType
  <2>3. Contents[1] = memory[cnt_read]
    BY <1>1, ContentsType, CountRange, OldestWord DEF FifoRead, Slots
  <2> QED BY <2>1, <2>2, <2>3, OldestWord DEF FifoRead
<1>3. Contents' = [k \in 1..(Count - 1) |-> memory[(Count - 1) - k]]
  BY <1>1, Zenon DEF Contents
<1>4. Count - 1 \in 0..C_DEPTH
  BY <1>1, FifoAssumption
<1>5. /\ Contents' \in Seq(Word)
      /\ Len(Contents') = Count - 1
      /\ \A k \in 1..(Count - 1) : Contents'[k] = memory[(Count - 1) - k]
  BY <1>3, <1>4, Backwards DEF FifoTypeOK
<1>6. /\ Tail(Contents) \in Seq(Word)
      /\ Len(Tail(Contents)) = Count - 1
      /\ \A k \in 1..(Count - 1) : Tail(Contents)[k] = Contents[k + 1]
  BY <1>1, <1>2, ContentsType, HeadTailProperties
<1>7. \A k \in 1..(Count - 1) : Contents[k + 1] = memory[(Count - 1) - k]
  BY <1>1, ContentsType
<1> QED BY <1>2, <1>5, <1>6, <1>7, SeqEqual

\* A simultaneous read and write does both, and leaves the counter alone.
LEMMA ReadWriteExchanges ==
  ASSUME FifoTypeOK, NEW din \in Word, FifoReadWrite(din)
  PROVE  /\ Contents # <<>>
         /\ Contents' = Append(Tail(Contents), din)
         /\ taken' = Head(Contents)
<1>1. Count' = Count /\ memory' = Shifted(din) /\ Count \in 1..C_DEPTH
  BY CountRange, FifoAssumption, SMTT(30)
  DEF FifoReadWrite, FifoClock, next_cnt_read, Count, empty
<1>2. memory' \in [Slots -> Word]
  BY <1>1, FifoAssumption DEF FifoTypeOK, Shifted, Slots
<1>3. Contents # <<>> /\ taken' = Head(Contents)
  <2>1. Contents # <<>>
    BY <1>1, ContentsType
  <2>2. Head(Contents) = Contents[1]
    BY <2>1, ContentsType
  <2>3. Contents[1] = memory[cnt_read]
    BY <1>1, ContentsType, CountRange, OldestWord DEF FifoReadWrite, Slots
  <2> QED BY <2>1, <2>2, <2>3, OldestWord DEF FifoReadWrite
<1>4. /\ Tail(Contents) \in Seq(Word)
      /\ Len(Tail(Contents)) = Count - 1
      /\ \A k \in 1..(Count - 1) : Tail(Contents)[k] = Contents[k + 1]
  BY <1>1, <1>3, ContentsType, HeadTailProperties
<1>5. Contents' = [k \in 1..Count |-> memory'[Count - k]]
  BY <1>1, Zenon DEF Contents
<1>6. /\ Contents' \in Seq(Word)
      /\ Len(Contents') = Count
      /\ \A k \in 1..Count : Contents'[k] = memory'[Count - k]
  BY <1>1, <1>2, <1>5, CountRange, Backwards
<1>7. \A k \in 1..Count : memory'[Count - k] =
        IF k = Count THEN din ELSE memory[(Count - k) - 1]
  BY <1>1, FifoAssumption DEF Shifted, Slots
<1>8. \A k \in 1..(Count - 1) : Contents[k + 1] = memory[(Count - k) - 1]
  BY <1>1, ContentsType
<1>9. /\ Append(Tail(Contents), din) \in Seq(Word)
      /\ Len(Append(Tail(Contents), din)) = Count
      /\ \A k \in 1..Count : Append(Tail(Contents), din)[k] =
           IF k = Count THEN din ELSE Contents[k + 1]
  BY <1>1, <1>4
<1>10. ASSUME NEW k \in 1..Count
      PROVE  Contents'[k] = Append(Tail(Contents), din)[k]
  <2>1. CASE k = Count
    BY <2>1, <1>6, <1>7, <1>9, Zenon
  <2>2. CASE k # Count
    <3>1. k \in 1..(Count - 1)
      BY <2>2, <1>1
    <3>2. Append(Tail(Contents), din)[k] = Contents[k + 1]
      BY <2>2, <1>9, Zenon
    <3>3. Contents'[k] = memory[(Count - k) - 1]
      BY <2>2, <1>6, <1>7, Zenon
    <3> QED BY <3>1, <3>2, <3>3, <1>8, Zenon
  <2> QED BY <2>1, <2>2
<1> QED BY <1>3, <1>6, <1>9, <1>10, SeqEqual

\* The FIFO implements the bounded queue its clients are written against.
THEOREM FifoImplementsQueue == FifoSpec => ImplementsQueue
<1>1. FifoInit => Queue!Init
  BY DEF FifoInit, Queue!Init, Contents, Count, empty
<1>2. FifoTypeOK /\ FifoTypeOK' /\ [FifoNext]_fifo_vars => [Queue!Next]_(Queue!vars)
  <2> SUFFICES ASSUME FifoTypeOK, FifoTypeOK', [FifoNext]_fifo_vars
               PROVE  [Queue!Next]_(Queue!vars)
    OBVIOUS
  <2>1. ASSUME NEW din \in Word, FifoWrite(din) PROVE Queue!Enqueue(din)
    <3>1. Len(Contents) < C_DEPTH
      BY <2>1, ContentsType, CountRange, FifoAssumption DEF FifoWrite
    <3> QED BY <2>1, <3>1, WriteAppends DEF Queue!Enqueue, FifoWrite
  <2>2. CASE FifoRead
    BY <2>2, ReadTakesHead DEF Queue!Next, Queue!Dequeue
  <2>3. ASSUME NEW din \in Word, FifoReadWrite(din) PROVE Queue!Exchange(din)
    BY <2>3, ReadWriteExchanges DEF Queue!Exchange
  <2>4. ASSUME NEW wr_en \in BOOLEAN, NEW din \in Word, FifoReset(wr_en, din)
        PROVE  Queue!Clear
    BY <2>4 DEF FifoReset, FifoClock, Queue!Clear, Contents, Count, empty
  <2>5. CASE UNCHANGED fifo_vars
    BY <2>5 DEF fifo_vars, Queue!vars, Contents, Count, empty
  <2> QED BY <2>1, <2>2, <2>3, <2>4, <2>5 DEF FifoNext, Queue!Next
<1> QED BY <1>1, <1>2, FifoTypeCorrect, PTL DEF FifoSpec, ImplementsQueue, Queue!Spec
=============================================================================
