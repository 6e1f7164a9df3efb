---------------------------- MODULE RequestPath -----------------------------
(***************************************************************************)
(* The front end of Device_top: the queue of commands seen on the memory   *)
(* bus (U0_CAS_RW_QUEUE), the queue of read data (U0_CAS_R_DATA_QUEUE),    *)
(* the logic that dequeues them in step, the registers CAS_queue_head_r    *)
(* and DRAM_data that hold the request being handed over, and the          *)
(* multiplexer that lets a write to a result operand overtake the queue.   *)
(*                                                                         *)
(* One step is one clock cycle; the action is named for the command on the *)
(* bus in that cycle.  The two FIFOs are sequences, which AxiFifo shows    *)
(* the shift registers to implement as long as they do not overrun.        *)
(* The tags of a command (address, operand and descriptor matches) are     *)
(* opaque here: DeviceTop computes them.                                   *)
(*                                                                         *)
(* The memory controller is external.  It returns the data of the reads in *)
(* order, at least one cycle and at most LATENCY cycles after the command. *)
(***************************************************************************)
EXTENDS Naturals, Sequences, FiniteSets

CONSTANTS Tag,      \* everything about a command except its direction
          Data,     \* the words the memory returns
          ZERO,     \* the word of all zeros
          NoData,   \* stands for the data of a write
          LATENCY   \* the longest a read takes, in cycles

ASSUME LatencyAssumption == LATENCY \in Nat \ {0}
ASSUME ZeroAssumption == ZERO \in Data

VARIABLES
  rw_queue,           \* commands, oldest first: [rd, tag]
  read_data_queue,    \* returned data, oldest first
  CAS_queue_head_r,   \* <<>>, or <<command>> taken from the queue
  DRAM_data,          \* the data of that command if it is a read
  req_r,              \* the request presented in the last cycle, as
                      \*   registered by debug_req_*_r and data_burst_r
  in_flight           \* external: the reads under way, oldest first, each
                      \*   with its data and its age in cycles

vars == <<rw_queue, read_data_queue, CAS_queue_head_r, DRAM_data, req_r,
          in_flight>>

Command == [rd: BOOLEAN, tag: Tag]
Flight  == [data: Data, age: 0..(LATENCY - 1)]

-----------------------------------------------------------------------------
ui_read_valid  == rw_queue # <<>> /\ Head(rw_queue).rd
ui_write_valid == rw_queue # <<>> /\ ~Head(rw_queue).rd

\* dstC is PIM_dst_C_pass_reg_tot: the command on the bus writes a result.
CAS_read_data_QUEUE_rd_en(dstC) ==
  read_data_queue # <<>> /\ ui_read_valid /\ ~dstC

\* Defective variants: a read is taken without its data; a write waits for
\* data; a result write does not hold the queue.
CAS_rw_queue_rd_en_NoData(dstC) == ~dstC /\ rw_queue # <<>>
CAS_rw_queue_rd_en_WriteWaits(dstC) == CAS_read_data_QUEUE_rd_en(dstC)
CAS_rw_queue_rd_en_NoHold(dstC) ==
  ui_write_valid \/ CAS_read_data_QUEUE_rd_en(dstC)

CAS_rw_queue_rd_en(dstC) ==
  ~dstC /\ (ui_write_valid \/ CAS_read_data_QUEUE_rd_en(dstC))

\* The request as its consumers see it: the data register means something
\* for a read only.
Seen(c, d) == [rd |-> c.rd, tag |-> c.tag,
               data |-> IF c.rd THEN d ELSE NoData]

\* A defective variant: the head register goes first.
Presented_QueueFirst(bypass) ==
  IF CAS_queue_head_r = <<>> THEN bypass
  ELSE <<Seen(CAS_queue_head_r[1], DRAM_data)>>

\* The request presented in this cycle (req_*): the result write on the bus,
\* or else the command in the head register.
Presented(bypass) ==
  IF bypass # <<>> THEN bypass
  ELSE IF CAS_queue_head_r = <<>> THEN <<>>
  ELSE <<Seen(CAS_queue_head_r[1], DRAM_data)>>

\* The memory answers its oldest read in this cycle.
Answered(reply) == IF reply THEN <<in_flight[1].data>> ELSE <<>>

\* It may do so whenever it has one, and must when that one is due.
MayReply(reply) ==
  /\ reply => in_flight # <<>>
  /\ in_flight # <<>> /\ in_flight[1].age = LATENCY - 1 => reply

\* The reads that stay under way, one cycle older.
Aged(reply) ==
  LET rest == IF reply THEN Tail(in_flight) ELSE in_flight
  IN  [i \in 1..Len(rest) |-> [rest[i] EXCEPT !.age = @ + 1]]

-----------------------------------------------------------------------------
(***************************************************************************)
(* A rising clock edge.  cmd is <<>> or the command to be queued, bypass   *)
(* is <<>> or the result write on the bus, issued is the read that the     *)
(* memory starts, if any.                                                  *)
(***************************************************************************)
Clock(cmd, bypass, issued, reply) ==
  LET dstC == bypass # <<>>
      rw_rd_en == CAS_rw_queue_rd_en(dstC)
      data_rd_en == CAS_read_data_QUEUE_rd_en(dstC)
  IN
  /\ MayReply(reply)
  /\ rw_queue' = (IF rw_rd_en THEN Tail(rw_queue) ELSE rw_queue) \o cmd
  /\ read_data_queue' =
       (IF data_rd_en THEN Tail(read_data_queue) ELSE read_data_queue)
         \o Answered(reply)
  /\ CAS_queue_head_r' = IF dstC THEN CAS_queue_head_r
                         ELSE IF rw_rd_en THEN <<Head(rw_queue)>>
                         ELSE <<>>
  /\ DRAM_data' = IF data_rd_en THEN Head(read_data_queue) ELSE DRAM_data
  /\ req_r' = Presented(bypass)
  /\ in_flight' = Aged(reply) \o issued

\* A defective variant: the queue's write enable leaves out the requests, so
\* that a cycle without a command queues an entry that is none.
Idle_Queued(reply) == Clock(<< <<>> >>, <<>>, <<>>, reply)

Idle(reply) == Clock(<<>>, <<>>, <<>>, reply)

Read(t, d, reply) ==
  Clock(<<[rd |-> TRUE, tag |-> t]>>, <<>>,
        <<[data |-> d, age |-> 0]>>, reply)

Write(t, reply) == Clock(<<[rd |-> FALSE, tag |-> t]>>, <<>>, <<>>, reply)

\* A write that the matching logic tags dstC: it is not queued.
ResultWrite(t, reply) ==
  Clock(<<>>, <<[rd |-> FALSE, tag |-> t, data |-> NoData]>>, <<>>, reply)

\* rst_x.  The memory is not reset, so the board resets the device only
\* while no read is under way.
Reset ==
  /\ in_flight = <<>>
  /\ rw_queue' = <<>>
  /\ read_data_queue' = <<>>
  /\ CAS_queue_head_r' = <<>>
  /\ DRAM_data' = ZERO
  /\ req_r' = <<>>
  /\ UNCHANGED in_flight

Init ==
  /\ rw_queue = <<>>
  /\ read_data_queue = <<>>
  /\ CAS_queue_head_r = <<>>
  /\ DRAM_data = ZERO
  /\ req_r = <<>>
  /\ in_flight = <<>>

\* A cycle in which the bus carries no result write.
FreeCycle ==
  \E reply \in BOOLEAN :
    \/ Idle(reply)
    \/ \E t \in Tag, d \in Data : Read(t, d, reply)
    \/ \E t \in Tag : Write(t, reply)

ResultCycle == \E reply \in BOOLEAN, t \in Tag : ResultWrite(t, reply)

Next == FreeCycle \/ ResultCycle \/ Reset

Spec == Init /\ [][Next]_vars

\* The clock runs, the memory meets its latency, and the bus is not held by
\* result writes for ever (a result operand is finite).
LiveSpec ==
  /\ Init
  /\ [][FreeCycle \/ ResultCycle]_vars
  /\ WF_vars(FreeCycle)

-----------------------------------------------------------------------------
\* How many of the first i commands of q are reads.
ReadsUpTo(q, i) == Cardinality({j \in 1..i : q[j].rd})

\* The data of all queued reads, in the order in which they were issued:
\* already returned, or still to come.
Replies == read_data_queue \o [i \in 1..Len(in_flight) |-> in_flight[i].data]

\* The queued commands with the data that belongs to them: the k-th read is
\* to get the k-th reply.
Waiting == [i \in 1..Len(rw_queue) |->
              Seen(rw_queue[i], Replies[ReadsUpTo(rw_queue, i)])]

Service == INSTANCE InOrderService
             WITH pending <- Presented(<<>>) \o Waiting, delivered <- req_r

\* Every entry of the queue is a read or a write (one that is neither would
\* never leave it), the registers hold what was queued and returned, and no
\* read is under way longer than the latency.
TypeOK ==
  /\ rw_queue \in Seq(Command)
  /\ read_data_queue \in Seq(Data)
  /\ CAS_queue_head_r \in {<<>>} \cup {<<c>> : c \in Command}
  /\ DRAM_data \in Data
  /\ req_r \in {<<>>} \cup {<<q>> : q \in Service!Request}
  /\ in_flight \in Seq(Flight)

\* The two queues stay in step: every queued read has exactly one reply, in
\* the data queue or on its way.  Were it to fail, each later read would be
\* handed over with another read's data, for good.
QueuesInStep ==
  ReadsUpTo(rw_queue, Len(rw_queue)) = Len(read_data_queue) + Len(in_flight)

\* Nothing looks at the full flags of the two queues.  Their occupancy is
\* bounded all the same, by the latency of the memory: commands arrive at
\* most one per cycle, and only a read that waits for its data holds the
\* queue up.
OccupancyBounded ==
  /\ Len(rw_queue) <= LATENCY + 1
  /\ Len(read_data_queue) <= LATENCY + 1

\* The memory: of two reads under way, the one issued first is older.
AgesDecrease ==
  \A i, j \in 1..Len(in_flight) : i < j => in_flight[i].age > in_flight[j].age

\* Why the occupancy is bounded: what is queued behind a read arrived while
\* that read was under way.
BacklogYoungerThanRead ==
  \A i \in 1..Len(rw_queue) :
    rw_queue[i].rd /\ ReadsUpTo(rw_queue, i) > Len(read_data_queue) =>
      Len(rw_queue) - i <=
        in_flight[ReadsUpTo(rw_queue, i) - Len(read_data_queue)].age

\* The request path is an in-order, exactly-once service in which each read
\* comes with its own data, whatever mix of reads, writes, result writes that
\* overtake them and memory delays it meets.
ImplementsService == Service!Spec

\* Every queued command is handed over in the end.
EveryCommandServed ==
  \A t \in Tag :
    (\E i \in 1..Len(rw_queue) : rw_queue[i].tag = t) ~>
      (req_r # <<>> /\ req_r[1].tag = t)
=============================================================================
