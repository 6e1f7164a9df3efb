---------------------------- MODULE OpSequencer -----------------------------
(***************************************************************************)
(* The operand sequencer of Device_top.  It counts the operand beats that  *)
(* are presented, per operand type, and compares the count for the current *)
(* slot of the descriptor file with the size of its operand.  When they    *)
(* agree the slot is done, and four cycles later PIM_opcode_match_ptr      *)
(* moves to the next slot, whose INFO word then configures the banks.      *)
(***************************************************************************)
EXTENDS Naturals, Sequences

CONSTANTS SLOTS,      \* slots of the descriptor file: 8
          CNT_RANGE   \* values of a beat counter: 2^10

BEAT_BYTES == 32      \* the ">> 5" of current_desc_size

VARIABLES
  PIM_req_cnt,            \* PIM_req_A_cnt, PIM_req_B_cnt, PIM_req_C_cnt
  desc_done_r,            \* check_current_desc_done_r ... _rrrr
  PIM_opcode_match_ptr

vars == <<PIM_req_cnt, desc_done_r, PIM_opcode_match_ptr>>

Type == {"A", "B", "C"}

Init ==
  /\ PIM_req_cnt = [t \in Type |-> 0]
  /\ desc_done_r = <<FALSE, FALSE, FALSE, FALSE>>
  /\ PIM_opcode_match_ptr = 0

-----------------------------------------------------------------------------
\* A defective variant: the operand is done one beat early.
check_desc_done_Early(t, cur) ==
  t \in cur.info.type /\ cur.size \div BEAT_BYTES = PIM_req_cnt[t] + 1

\* check_src{A,B}_desc_done, check_dstC_desc_done; cur is the current slot.
check_desc_done(t, cur) ==
  t \in cur.info.type /\ cur.size \div BEAT_BYTES = PIM_req_cnt[t]

\* A defective variant: a result is never done.
check_current_desc_done_NoResult(cur) ==
  \/ check_desc_done("A", cur)
  \/ "A" \notin cur.info.type /\ check_desc_done("B", cur)

\* A slot of more than one type is done when the first of its types is.
check_current_desc_done(cur) ==
  \/ check_desc_done("A", cur)
  \/ "A" \notin cur.info.type /\ check_desc_done("B", cur)
  \/ cur.info.type = {"C"} /\ check_desc_done("C", cur)

\* A defective variant: the counter goes on from one operand to the next.
NextCount_NoRestart(t, passed, clear, cur) ==
  IF clear THEN 0
  ELSE IF passed THEN (PIM_req_cnt[t] + 1) % CNT_RANGE
  ELSE PIM_req_cnt[t]

NextCount(t, passed, clear, cur) ==
  IF check_desc_done(t, cur) THEN (IF passed THEN 1 ELSE 0)
  ELSE IF clear THEN 0
  ELSE IF passed THEN (PIM_req_cnt[t] + 1) % CNT_RANGE
  ELSE PIM_req_cnt[t]

\* A rising clock edge.  passed is the set of types of the beat presented,
\* clear is HPC_clear_sig, cur is the slot PIM_opcode_match_ptr points at.
Clock(passed, clear, cur) ==
  /\ PIM_req_cnt' =
       [t \in Type |-> NextCount(t, t \in passed, clear, cur)]
  /\ desc_done_r' = <<check_current_desc_done(cur)>> \o SubSeq(desc_done_r, 1, 3)
  /\ PIM_opcode_match_ptr' =
       IF clear THEN 0
       ELSE IF desc_done_r[4] THEN (PIM_opcode_match_ptr + 1) % SLOTS
       ELSE PIM_opcode_match_ptr

\* rst_x.
Reset ==
  /\ PIM_req_cnt' = [t \in Type |-> 0]
  /\ desc_done_r' = <<FALSE, FALSE, FALSE, FALSE>>
  /\ PIM_opcode_match_ptr' = 0

TypeOK ==
  /\ PIM_req_cnt \in [Type -> 0..(CNT_RANGE - 1)]
  /\ desc_done_r \in [1..4 -> BOOLEAN]
  /\ PIM_opcode_match_ptr \in 0..(SLOTS - 1)
=============================================================================
