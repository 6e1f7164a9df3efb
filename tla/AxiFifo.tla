------------------------------ MODULE AxiFifo -------------------------------
(***************************************************************************)
(* ddr4_v2_2_4_axi_fifo: the shift-register FIFO that the device uses for  *)
(* its request queue (U0_CAS_RW_QUEUE) and its read-data queue             *)
(* (U0_CAS_R_DATA_QUEUE).  A write shifts the whole array up by one; an    *)
(* up/down counter, one bit wider than the address, points at the oldest   *)
(* word and is all ones when the queue is empty.  There is no overrun      *)
(* protection and none against reading an empty queue.                     *)
(*                                                                         *)
(* One step is one rising clock edge.  The words themselves are opaque.    *)
(***************************************************************************)
EXTENDS Naturals, Sequences

CONSTANTS Word,     \* the values a C_WIDTH-bit word can take
          ADDRS,    \* 2^C_AWIDTH, the number of addresses
          C_DEPTH   \* the number of words of the array

ASSUME FifoAssumption ==
  /\ Word # {}
  /\ ADDRS \in Nat
  /\ C_DEPTH \in 1..ADDRS

VARIABLES memory,    \* the shift register, index 0 the newest word
          cnt_read,  \* C_AWIDTH + 1 bits: index of the oldest word
          taken      \* the register of the client that latches dout

fifo_vars == <<memory, cnt_read, taken>>

-----------------------------------------------------------------------------
Slots   == 0..(C_DEPTH - 1)
Wrap    == 2 * ADDRS          \* the counter has C_AWIDTH + 1 bits
C_EMPTY == Wrap - 1           \* ~(0)
C_FULL  == C_DEPTH - 1

read_addr == cnt_read % ADDRS \* the low C_AWIDTH bits
dout      == memory[read_addr]

full  == cnt_read = C_FULL
empty == cnt_read = C_EMPTY

cnt_read_plus1  == (cnt_read + 1) % Wrap
cnt_read_minus1 == (cnt_read + Wrap - 1) % Wrap

\* A defective variant: a read during a write is not counted.
next_cnt_read_WriteWins(wr_en, rd_en) ==
  IF wr_en THEN cnt_read_plus1 ELSE IF rd_en THEN cnt_read_minus1 ELSE cnt_read

next_cnt_read(wr_en, rd_en) ==
  IF wr_en /\ ~rd_en THEN cnt_read_plus1
  ELSE IF ~wr_en /\ rd_en THEN cnt_read_minus1
  ELSE cnt_read

\* The array after a write: every word moves up, the last one falls out.
Shifted(din) == [i \in Slots |-> IF i = 0 THEN din ELSE memory[i - 1]]

\* A defective variant: a write during a read is not stored.
FifoClock_ReadWins(rst, wr_en, rd_en, din) ==
  /\ memory'   = IF wr_en /\ ~rd_en THEN Shifted(din) ELSE memory
  /\ cnt_read' = IF rst THEN C_EMPTY ELSE next_cnt_read(wr_en, rd_en)

FifoClock(rst, wr_en, rd_en, din) ==
  /\ memory'   = IF wr_en THEN Shifted(din) ELSE memory
  /\ cnt_read' = IF rst THEN C_EMPTY ELSE next_cnt_read(wr_en, rd_en)

-----------------------------------------------------------------------------
(***************************************************************************)
(* The client.  Device_top never asserts rd_en while the queue is empty    *)
(* (its head signals are masked with !empty).  That it never writes a full *)
(* queue is an assumption on its surroundings: nothing reads the full      *)
(* flag.  RequestPath bounds the occupancy that assumption depends on.     *)
(***************************************************************************)
FifoInit ==
  /\ memory \in [Slots -> Word]
  /\ cnt_read = C_EMPTY
  /\ taken \in Word

FifoWrite(din) ==
  /\ ~full
  /\ FifoClock(FALSE, TRUE, FALSE, din)
  /\ UNCHANGED taken

FifoRead ==
  /\ ~empty
  /\ FifoClock(FALSE, FALSE, TRUE, memory[0])
  /\ taken' = dout

FifoReadWrite(din) ==
  /\ ~empty
  /\ FifoClock(FALSE, TRUE, TRUE, din)
  /\ taken' = dout

\* Reset does not gate the array: a word written during reset is shifted in
\* and then forgotten, because the counter says the queue is empty.
FifoReset(wr_en, din) ==
  /\ FifoClock(TRUE, wr_en, FALSE, din)
  /\ UNCHANGED taken

FifoNext ==
  \/ \E din \in Word : FifoWrite(din)
  \/ FifoRead
  \/ \E din \in Word : FifoReadWrite(din)
  \/ \E wr_en \in BOOLEAN, din \in Word : FifoReset(wr_en, din)

FifoSpec == FifoInit /\ [][FifoNext]_fifo_vars

-----------------------------------------------------------------------------
\* The number of words held; the all-ones counter stands for none.
Count == IF empty THEN 0 ELSE cnt_read + 1

\* The words held, oldest first.
Contents == [k \in 1..Count |-> memory[Count - k]]

Queue == INSTANCE BoundedQueue WITH Capacity <- C_DEPTH, queue <- Contents

\* The array holds words, and a client that respects the flags never drives
\* the counter to a value that is neither "empty" nor a slot of the array.
FifoTypeOK ==
  /\ memory \in [Slots -> Word]
  /\ cnt_read \in Slots \cup {C_EMPTY}
  /\ taken \in Word

\* The shift register with its up/down counter is a first-in first-out queue
\* of C_DEPTH words: nothing is lost, duplicated or reordered by any mix of
\* writes, reads, simultaneous reads and writes, and resets, up to and at the
\* full and the empty queue.
ImplementsQueue == Queue!Spec
=============================================================================
