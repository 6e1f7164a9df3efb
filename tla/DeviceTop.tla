----------------------------- MODULE DeviceTop ------------------------------
(***************************************************************************)
(* The control path of Device_top: the request path, the descriptor unit   *)
(* and the operand sequencer, clocked together and driven by a host.       *)
(*                                                                         *)
(* The host is external (a CPU and a scatter-gather DMA engine).  A        *)
(* session follows vcs_sim/sim/testbench.v: control writes, then the       *)
(* descriptors of a chain are read, the operand of each descriptor is      *)
(* streamed in order (beats of 32 bytes), the status word of each finished *)
(* descriptor is written, and a last control write switches the device     *)
(* off.  Where the testbench waits a fixed number of clocks, the host here *)
(* waits at least SETTLE; it may idle at any time, and it may read ahead   *)
(* in the chain, report status and access other memory between the beats.  *)
(***************************************************************************)
EXTENDS Integers, Sequences, FiniteSets

CONSTANTS
  SLOTS, ADDR_SPACE, CNT_RANGE, LATENCY,
  Chain,      \* the descriptors, in order: [word, type, base, beats]
  Setup,      \* the control writes that open a session: [addr, args]
  OtherAddr,  \* addresses that belong to no operand and no descriptor
  SETTLE,     \* cycles the host lets pass between dependent accesses
  READ_AHEAD, \* the host reads descriptors while it streams operands
  NOISE       \* the word that a read of anything but a descriptor returns

N == Len(Chain)

ASSUME SlotsAssumption == SLOTS \in Nat \ {0}
ASSUME AddrAssumption == ADDR_SPACE \in Nat /\ ADDR_SPACE > 16777216

\* A descriptor describes its own operand, of at least one beat and of fewer
\* beats than its counter can count.
ASSUME ChainAssumption ==
  \A k \in 1..N :
    /\ Chain[k].word.info.type = {Chain[k].type}
    /\ Chain[k].beats \in 1..(CNT_RANGE - 1)
    /\ Chain[k].word.size = 32 * Chain[k].beats

\* A host that cannot read ahead needs a slot for every descriptor.
ASSUME SlotsSuffice == READ_AHEAD \/ N <= SLOTS

VARIABLES
  rw_queue, read_data_queue, CAS_queue_head_r, DRAM_data, req_r,
  in_flight,
  HPC_clear_sig, AIM_working, next_desc_addr, args_reg, indirect_r,
  indirect_rr, slot, wr_ptr, clr_ptr,
  PIM_req_cnt, desc_done_r, PIM_opcode_match_ptr,
  setup,      \* control writes done in this session
  fetched,    \* descriptors read
  cur, beats, \* the descriptor being streamed, and its beats issued
  cleared,    \* status words written
  idle,       \* cycles since the host last had to wait for something
  awaiting    \* what the reads under way are for, oldest first: [want, k]

path_vars == <<rw_queue, read_data_queue, CAS_queue_head_r, DRAM_data, req_r,
               in_flight>>
desc_vars == <<HPC_clear_sig, AIM_working, next_desc_addr, args_reg,
               indirect_r, indirect_rr, slot, wr_ptr, clr_ptr>>
seq_vars  == <<PIM_req_cnt, desc_done_r, PIM_opcode_match_ptr>>
host_vars == <<setup, fetched, cur, beats, cleared, idle, awaiting>>
vars == <<path_vars, desc_vars, seq_vars, host_vars>>

Desc == INSTANCE DescriptorUnit

\* What the host means a command to be, and for which descriptor.  The tags
\* of the hardware travel with it.
Want == {"A", "B", "C", "descriptor", "status", "other"}
Tag  == [addr: Desc!Addr, incr: BOOLEAN, clr: BOOLEAN, A: BOOLEAN, B: BOOLEAN,
         C: BOOLEAN, want: Want, k: 0..N]
Data == {Desc!ZeroWord, NOISE} \cup {Chain[k].word : k \in 1..N}

Path == INSTANCE RequestPath WITH ZERO <- Desc!ZeroWord, NoData <- "none"
Seqr == INSTANCE OpSequencer

-----------------------------------------------------------------------------
(***************************************************************************)
(* One clock cycle of the device.                                          *)
(***************************************************************************)

\* The cycle's entry for the queue, and the request if it bypasses the queue.
TagOf(bus) == [addr |-> bus.addr, incr |-> Desc!Tags(bus).incr,
               clr |-> Desc!Tags(bus).clr, A |-> Desc!Tags(bus).A,
               B |-> Desc!Tags(bus).B, C |-> FALSE,
               want |-> bus.want, k |-> bus.k]

ResultTag(bus) == [addr |-> bus.addr, incr |-> FALSE, clr |-> FALSE,
                   A |-> FALSE, B |-> FALSE, C |-> TRUE,
                   want |-> bus.want, k |-> bus.k]

Command(bus) ==
  IF bus.rd \/ (bus.wr /\ ~Desc!dstC_pass(bus))
  THEN <<[rd |-> bus.rd, tag |-> TagOf(bus)]>> ELSE <<>>

Bypass(bus) ==
  IF Desc!dstC_pass(bus)
  THEN <<[rd |-> FALSE, tag |-> ResultTag(bus), data |-> "none"]>> ELSE <<>>

\* The types of the operand beat that is presented.
Passed(req) ==
  IF req = <<>> THEN {}
  ELSE {t \in Seqr!Type : req[1].tag[t]}

\* The data bus of the memory is all zeros in a cycle without a reply.
DataBus(reply) == IF reply THEN in_flight[1].data ELSE Desc!ZeroWord

Clock(bus, reply) ==
  LET issued == IF bus.rd THEN <<[data |-> bus.data, age |-> 0]>> ELSE <<>>
      req == Path!Presented(Bypass(bus))
      ui_is_desc_range == rw_queue # <<>> /\ Head(rw_queue).tag.incr
  IN
  /\ Path!Clock(Command(bus), Bypass(bus), issued, reply)
  /\ Desc!Clock(bus, req, ui_is_desc_range, DataBus(reply))
  /\ Seqr!Clock(Passed(req), HPC_clear_sig, slot[PIM_opcode_match_ptr])

-----------------------------------------------------------------------------
(***************************************************************************)
(* The host.                                                               *)
(***************************************************************************)
NoBus == [rd |-> FALSE, wr |-> FALSE, addr |-> 0, args |-> Desc!NoArgs,
          data |-> NOISE, want |-> "other", k |-> 0]
ReadOf(a, d, want, k) ==
  [NoBus EXCEPT !.rd = TRUE, !.addr = a, !.data = d, !.want = want, !.k = k]
WriteOf(a, want, k) ==
  [NoBus EXCEPT !.wr = TRUE, !.addr = a, !.want = want, !.k = k]

DescAddr(k) == Desc!RSV_DESC_MEM_BASE + (k - 1) * Desc!DESC_STRIDE

Settled == idle >= SETTLE
Open == setup = Len(Setup)
Awaits(S) == \E i \in 1..Len(awaiting) : awaiting[i] \in S
BeatOf(k) == [want: {"A", "B"}, k: {k}]
DescOf(k) == [want: {"descriptor"}, k: {k}]

\* All beats of the current descriptor are issued, and those that are reads
\* have been answered.
Streamed == cur > 0 /\ beats = Chain[cur].beats /\ ~Awaits(BeatOf(cur))
Finished == IF cur = 0 THEN 0 ELSE IF Streamed THEN cur ELSE cur - 1

\* The host has nothing to wait for from a read ahead or from other memory.
Matters(a) == a \in BeatOf(cur) \cup DescOf(cur + 1)

\* A cycle with this command on the bus; step says whether the host must let
\* time pass after it.
Cycle(bus, step) ==
  \E reply \in BOOLEAN :
    /\ Clock(bus, reply)
    /\ awaiting' = (IF reply THEN Tail(awaiting) ELSE awaiting)
                     \o IF bus.rd THEN <<[want |-> bus.want, k |-> bus.k]>>
                        ELSE <<>>
    /\ idle' = IF step \/ (reply /\ Matters(awaiting[1])) THEN 0
               ELSE IF Settled THEN idle ELSE idle + 1

HostIdle ==
  /\ Cycle(NoBus, FALSE)
  /\ UNCHANGED <<setup, fetched, cur, beats, cleared>>

\* The first write of a session forgets the last session.
ControlWrite ==
  /\ ~Open /\ Settled
  /\ LET w == Setup[setup + 1]
     IN  Cycle([WriteOf(w.addr, "other", 0) EXCEPT !.args = w.args], TRUE)
  /\ setup' = setup + 1
  /\ IF setup = 0 THEN fetched' = 0 /\ cur' = 0 /\ beats' = 0 /\ cleared' = 0
     ELSE UNCHANGED <<fetched, cur, beats, cleared>>

\* Read the next descriptor of the chain, into a slot that is free.
FetchDescriptor ==
  /\ Open /\ (fetched = 0 => Settled)
  /\ fetched < N /\ fetched - cleared < SLOTS
  /\ Cycle(ReadOf(DescAddr(fetched + 1), Chain[fetched + 1].word,
                  "descriptor", fetched + 1), FALSE)
  /\ fetched' = fetched + 1
  /\ UNCHANGED <<setup, cur, beats, cleared>>

Beat(k, b) ==
  LET a == Chain[k].base + 32 * b
  IN  IF Chain[k].type = "C"
      THEN Cycle(WriteOf(a, "C", k), TRUE)
      ELSE Cycle(ReadOf(a, NOISE, Chain[k].type, k), FALSE)

\* Start on the next descriptor, once it has been read and the one before it
\* has been streamed.
FirstBeat ==
  /\ Open /\ Settled
  /\ cur < fetched /\ ~Awaits(DescOf(cur + 1))
  /\ cur > 0 => Streamed
  /\ READ_AHEAD \/ fetched = N
  /\ Beat(cur + 1, 0)
  /\ cur' = cur + 1
  /\ beats' = 1
  /\ UNCHANGED <<setup, fetched, cleared>>

NextBeat ==
  /\ Open /\ cur > 0 /\ beats < Chain[cur].beats
  /\ Beat(cur, beats)
  /\ beats' = beats + 1
  /\ UNCHANGED <<setup, fetched, cur, cleared>>

WriteStatus ==
  /\ Open /\ cleared < Finished
  /\ Cycle(WriteOf(DescAddr(cleared + 1) + Desc!STATUS_WORD, "status",
                   cleared + 1), FALSE)
  /\ cleared' = cleared + 1
  /\ UNCHANGED <<setup, fetched, cur, beats>>

\* Switch the device off.
CloseSession ==
  /\ Open /\ cleared = N /\ Settled
  /\ Cycle(WriteOf(Desc!AIM_WORK_SIG, "other", 0), TRUE)
  /\ setup' = 0
  /\ UNCHANGED <<fetched, cur, beats, cleared>>

OtherRead(a) ==
  /\ Cycle(ReadOf(a, NOISE, "other", 0), FALSE)
  /\ UNCHANGED <<setup, fetched, cur, beats, cleared>>

OtherWrite(a) ==
  /\ Cycle(WriteOf(a, "other", 0), FALSE)
  /\ UNCHANGED <<setup, fetched, cur, beats, cleared>>

\* rst_x, while no read is under way (the memory is not reset); the host
\* starts over.
Reset ==
  /\ Path!Reset /\ Desc!Reset /\ Seqr!Reset
  /\ setup' = 0 /\ fetched' = 0 /\ cur' = 0 /\ beats' = 0 /\ cleared' = 0
  /\ idle' = 0 /\ awaiting' = <<>>

Init ==
  /\ Path!Init /\ Desc!Init /\ Seqr!Init
  /\ setup = 0 /\ fetched = 0 /\ cur = 0 /\ beats = 0 /\ cleared = 0
  /\ idle = 0 /\ awaiting = <<>>

HostStep ==
  \/ ControlWrite \/ FetchDescriptor \/ FirstBeat \/ NextBeat
  \/ WriteStatus \/ CloseSession

Next ==
  \/ HostIdle
  \/ HostStep
  \/ \E a \in OtherAddr : OtherRead(a) \/ OtherWrite(a)
  \/ Reset

Spec == Init /\ [][Next]_vars

\* The clock runs, and the host neither stops nor leaves the bus no free
\* cycle.
LiveSpec ==
  /\ Init
  /\ [][HostIdle \/ HostStep]_vars
  /\ WF_vars(HostIdle) /\ WF_vars(HostStep)

-----------------------------------------------------------------------------
\* A host that keeps to direct addressing: what it has to guarantee for the
\* device to understand it.
DirectWord(w) == w.indirect = FALSE /\ w.src \in Desc!Addr

\* An address that means nothing to the device.
Foreign(a) ==
  /\ a \in Desc!Addr /\ a \notin {Desc!AIM_WORK_SIG, Desc!HPC_CLR_SIG}
  /\ ~Desc!InDescRange(a)
  /\ \A k \in 1..N : a < Chain[k].base \/ a >= Chain[k].base + 32 * Chain[k].beats

DirectHost ==
  /\ LATENCY \in Nat \ {0} /\ CNT_RANGE \in Nat \ {0}
  \* The longest backlog, the head register, and the five stages from there
  \* to the pointer.
  /\ SETTLE \in Nat /\ SETTLE >= LATENCY + 5
  \* Switch on, then clear; then argument registers.
  /\ Len(Setup) \in Nat /\ Len(Setup) >= 2
  /\ \A i \in 1..Len(Setup) :
       Setup[i].args \in [A: Desc!Addr, B: Desc!Addr, C: Desc!Addr]
  /\ Setup[1].addr = Desc!AIM_WORK_SIG /\ Setup[2].addr = Desc!HPC_CLR_SIG
  /\ \A i \in 3..Len(Setup) : Foreign(Setup[i].addr)
  \* The chain fits the descriptor memory.
  /\ N \in Nat /\ 64 * (N + 1) <= Desc!RSV_DESC_MEM_SIZE
  /\ DirectWord(NOISE)
  /\ \A k \in 1..N :
       LET c == Chain[k]
       IN  /\ DirectWord(c.word)
           /\ c.type \in {"A", "B", "C"} /\ c.base \in Desc!Addr
           /\ c.base = IF c.word.info.dst THEN c.word.dst ELSE c.word.src
           \* An operand lies above the descriptors, not at the very end.
           /\ c.base >= Desc!RSV_DESC_MEM_BASE + Desc!RSV_DESC_MEM_SIZE
           /\ c.base + 32 * c.beats < ADDR_SPACE
  \* Operands A and B have no byte in common.
  /\ \A j, k \in 1..N :
       Chain[j].type = "A" /\ Chain[k].type = "B" =>
         \/ Chain[j].base + 32 * Chain[j].beats <= Chain[k].base
         \/ Chain[k].base + 32 * Chain[k].beats <= Chain[j].base
  /\ \A a \in OtherAddr : Foreign(a)

TypeOK ==
  /\ Desc!TypeOK /\ Seqr!TypeOK
  /\ rw_queue \in Seq(Path!Command) /\ CAS_queue_head_r \in Seq(Path!Command)
  /\ read_data_queue \in Seq(Data) /\ DRAM_data \in Data
  /\ setup \in 0..Len(Setup) /\ idle \in 0..SETTLE
  /\ cleared <= cur /\ cur <= fetched /\ fetched <= N
  /\ Len(awaiting) = Len(in_flight)

\* The commands accepted and not yet presented, oldest first.
Entries == CAS_queue_head_r \o rw_queue
Queued(want) ==
  Cardinality({i \in 1..Len(Entries) : Entries[i].tag.want = want})

\* The descriptors that have reached the slots, and that have left them.
LoadedCount == fetched - Queued("descriptor")
ReleasedCount == cleared - Queued("status")

SlotOf(k) == (k - 1) % SLOTS

\* What the slot of descriptor k is to hold: its operand is where the host
\* will access it.
Content(k) ==
  LET w == Chain[k].word
  IN  [src |-> IF w.info.dst THEN w.src ELSE Chain[k].base,
       dst |-> IF w.info.dst THEN Chain[k].base ELSE w.dst,
       size |-> w.size, info |-> w.info]

\* The slots hold exactly the descriptors read and not yet reported done, in
\* ring order, each with its operand's true address.  It takes the tagging of
\* the reads, the pairing of reads with data, the delay of the indirect
\* address and both ring pointers to agree.
SlotsHoldChain ==
  \A i \in 0..(SLOTS - 1) :
    slot[i] = IF \E k \in (ReleasedCount + 1)..LoadedCount : SlotOf(k) = i
              THEN Content(CHOOSE k \in (ReleasedCount + 1)..LoadedCount :
                             SlotOf(k) = i)
              ELSE Desc!EmptySlot

\* "Determine if instruction's source address need to be calculated with
\* indirect mode" (bank_top_GDDR6.v:372) and "[3]=>C [2]=>B [1]=>A" (:416):
\* the source address of a loaded descriptor is the one it asks for.
SourceResolved ==
  \A k \in (ReleasedCount + 1)..LoadedCount :
    slot[SlotOf(k)].src = Content(k).src

\* The device takes every command for what the host means it to be: operand
\* beats are tagged with their operand, descriptors and status words are
\* recognised, everything else passes untouched, and no result write ends up
\* in the queue.
TagsExact ==
  /\ \A i \in 1..Len(rw_queue) :
       LET t == rw_queue[i].tag
       IN  /\ t.A <=> t.want = "A"
           /\ t.B <=> t.want = "B"
           /\ t.incr <=> t.want = "descriptor"
           /\ t.clr <=> t.want = "status"
           /\ t.want # "C"
  /\ req_r # <<>> => (req_r[1].tag.C <=> req_r[1].tag.want = "C")

\* Descriptors whose beats have all been presented.
PresentedCount ==
  IF cur = 0 THEN 0
  ELSE IF beats = Chain[cur].beats /\ Queued(Chain[cur].type) = 0 THEN cur
  ELSE cur - 1

\* Completions that PIM_opcode_match_ptr has yet to count: in the delay line,
\* or reached by the beat counter of the slot after those.  (The beats of a
\* result overtake the pointer.)
Completions ==
  LET delayed == Cardinality({i \in 1..4 : desc_done_r[i]})
      next == (PIM_opcode_match_ptr + delayed) % SLOTS
  IN  delayed + IF Seqr!check_current_desc_done(slot[next]) THEN 1 ELSE 0

\* The pointer, with the completions under way, counts the operands that were
\* streamed: none is missed, none is counted twice.  (With the types of all
\* registers, the pointers and counters among them.)
PointerInStep ==
  /\ TypeOK
  /\ Open /\ fetched > 0 =>
       (PIM_opcode_match_ptr + Completions) % SLOTS = PresentedCount % SLOTS

\* An operand beat is presented while the descriptor it belongs to is the
\* current one, so the banks treat it as that descriptor says.
BeatUnderItsOpcode ==
  \A i \in 1..Len(CAS_queue_head_r) :
    LET t == CAS_queue_head_r[i].tag
    IN  t.want \in {"A", "B"} =>
          /\ PIM_opcode_match_ptr = SlotOf(t.k)
          /\ slot[PIM_opcode_match_ptr] = Content(t.k)

\* The pointer moves past every operand that the host streams, in the session
\* in which it is streamed.
EveryOperandCompletes ==
  \A k \in 1..N : (cur = k) ~> (cur >= k /\ PIM_opcode_match_ptr = k % SLOTS)

\* Every session comes to an end, and leaves no slot in use.
SessionsEnd ==
  Open ~> (~AIM_working /\ \A i \in 0..(SLOTS - 1) : slot[i] = Desc!EmptySlot)
=============================================================================
