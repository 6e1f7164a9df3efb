------------------------------ MODULE BankPipe ------------------------------
(***************************************************************************)
(* bank_top: the vector registers, the four-stage pipeline around the      *)
(* ALUs and the accumulators of one bank, and the selection of the bank    *)
(* for a request.                                                          *)
(*                                                                         *)
(* All sixteen lanes do the same, so a register that holds sixteen numbers *)
(* is represented by the number of one lane, and a number by where it      *)
(* comes from.  An accumulator is the sequence of the products added since *)
(* it was cleared; what the ALU computes from the numbers is the subject   *)
(* of BfloatAlu.                                                           *)
(***************************************************************************)
EXTENDS Naturals, Sequences

CONSTANTS LANES,     \* elements of a vector: 16
          Config,    \* the configurations the host uses (see NoConfig)
          DRAIN,     \* cycles the host leaves between an operand and a result
          MAX_BEATS  \* bound: operand beats per result

ASSUME LanesAssumption == LANES \in Nat \ {0}

\* The host lets the pipeline run empty: the six stages from a beat on the bus
\* to the result register.
ASSUME DrainAssumption == DRAIN \in Nat /\ DRAIN >= 6
ASSUME BeatsAssumption == MAX_BEATS \in Nat

\* An operation per configuration.  Elements of A go to all lanes only in
\* products: a sum takes each lane's own.
ASSUME ConfigAssumption ==
  \A c \in Config :
    /\ c \in [dup: BOOLEAN, op: {"MAC", "MUL", "ADD", "SUB", "none"},
              startA: BOOLEAN, startB: BOOLEAN, castA: BOOLEAN, castB: BOOLEAN]
    /\ c.op \in {"ADD", "SUB"} => ~c.dup

\* bank_config_reg.  op is "MAC", "MUL", "ADD", "SUB" or "none".
NoConfig == [dup |-> FALSE, op |-> "none", startA |-> FALSE, startB |-> FALSE,
             castA |-> FALSE, castB |-> FALSE]

\* A number: zero, one, element n of beat i of operand A or B, or the lane's
\* own element of it.
Zero == <<"0">>
One  == <<"1">>
Own(x) == IF x = Zero THEN Zero ELSE Append(x, "own")
Element(x, n) == IF x = Zero THEN Zero ELSE Append(x, n)

NoResult == [got |-> <<>>, want |-> <<>>]
NoTerm == [a |-> Zero, b |-> Zero, neg |-> FALSE]

VARIABLES
  config_r, config_rr,            \* the configuration, one and two cycles ago
  src_A_RD_pass_r, src_B_RD_pass_r,
  data_burst_r, data_burst_rr,    \* the word read
  PIM_vecA_read_burst,            \* <<this cycle, _r, _rr>>
  PIM_vecB_read_burst,            \* <<this cycle, _r, _rr>>
  PIM_write_burst,
  PIM_ALU_proc,                   \* <<_r, _rr, _rrr, _rrrr>>
  burst_cnt, burst_cnt_r,         \* global_burst_cnt_SCAL_gran
  vecA, vecB,
  alu_src_r,                      \* [a, b]
  ADD0_in,                        \* a product: [a, b, neg]
  vACC,                           \* the products added
  PIM_result                      \* the same, one stage later

regs == <<config_r, config_rr, src_A_RD_pass_r, src_B_RD_pass_r, data_burst_r,
          data_burst_rr, PIM_vecA_read_burst, PIM_vecB_read_burst,
          PIM_write_burst, PIM_ALU_proc, burst_cnt, burst_cnt_r, vecA, vecB,
          alu_src_r, ADD0_in, vACC, PIM_result>>

VARIABLES
  bank_config_reg,   \* host: the configuration in force
  lastA, numB,       \* host: the vector A, and the beats of B since the last
                     \*   result
  since,             \* host: cycles since the last operand beat
  expected,          \* history: the products the result is to consist of
  written            \* history: the result written in the last cycle, if any,
                     \*   and what was expected

host == <<bank_config_reg, lastA, numB, since, expected, written>>
vars == <<regs, host>>

-----------------------------------------------------------------------------
(***************************************************************************)
(* Which bank a request is for: req_bg and req_bk are bits 6:5 and 8:7 of  *)
(* its address, beat is the address in units of 32 bytes.                  *)
(***************************************************************************)
bank_access(beat) == 4 * (beat % 4) + ((beat \div 4) % 4)

\* src_A_RD_pass_mux, src_B_RD_pass_mux: a broadcast reaches every bank.
src_pass_mux(pass, beat, cast, b) == pass /\ (cast \/ bank_access(beat) = b)
dst_pass(pass, beat, b) == pass /\ bank_access(beat) = b

\* Only bank 0 is built (BANK0_ONLY); the others answer zero.
PIM_result_to_DRAM(beat) == IF bank_access(beat) = 0 THEN PIM_result ELSE <<>>

-----------------------------------------------------------------------------
is_DUP == config_r.dup
is_op(S) == config_rr.op \in S

burstA == PIM_vecA_read_burst[1]
burstB == PIM_vecB_read_burst[1]

\* The multiplier works for operand B, or for either operand of a sum.
ALU_proc == burstB \/ (burstA /\ ~is_op({"MAC", "MUL"}))

\* A defective variant: the counter is one cycle ahead of the data.
alu_src_CounterAhead ==
  [a |-> IF is_DUP THEN Element(vecA, burst_cnt) ELSE Own(vecA),
   b |-> IF PIM_vecB_read_burst[2] THEN Own(vecB) ELSE Zero]

\* The layout stage: element burst_cnt_r of A for all lanes, or each lane's
\* own; B only in the cycle after it was loaded.
alu_src == [a |-> IF is_DUP THEN Element(vecA, burst_cnt_r) ELSE Own(vecA),
            b |-> IF PIM_vecB_read_burst[2] THEN Own(vecB) ELSE Zero]

\* The multiplier stage.  In a sum the other operand is replaced by one, and
\* the start flags of a difference negate one side.
MUL0_out ==
  LET sum == is_op({"ADD", "SUB"})
      fromA == PIM_vecA_read_burst[3]
      fromB == PIM_vecB_read_burst[3]
      a == IF sum /\ fromB THEN One ELSE alu_src_r.a
      b == IF sum /\ fromA THEN One ELSE alu_src_r.b
      neg == is_op({"SUB"}) /\ ((config_rr.startA /\ fromA)
                                \/ (config_rr.startB /\ fromB))
  IN  IF a = Zero \/ b = Zero THEN NoTerm ELSE [a |-> a, b |-> b, neg |-> neg]

\* Adding a product; a product that is zero adds nothing.
Added(acc, t) == IF t = NoTerm THEN acc ELSE Append(acc, t)

\* A defective variant: a result write does not clear the accumulators.
next_vACC_KeptOnWrite(clear) ==
  IF clear THEN <<>>
  ELSE IF PIM_ALU_proc[3] THEN Added(vACC, ADD0_in)
  ELSE vACC

\* global_burst_cnt_SCAL_gran: which element of A goes with the next beat of B.
next_burst_cnt(clear) ==
  IF PIM_write_burst \/ clear THEN 0
  ELSE IF is_DUP /\ burstB THEN (burst_cnt + 1) % LANES
  ELSE burst_cnt

next_vACC(clear) ==
  IF clear \/ PIM_write_burst THEN <<>>
  ELSE IF PIM_ALU_proc[3] THEN Added(vACC, ADD0_in)
  ELSE vACC

\* A rising clock edge with these requests for this bank.
Clock(passA, passB, passC, DRAM_data, clear) ==
  /\ config_r' = bank_config_reg
  /\ config_rr' = config_r
  /\ src_A_RD_pass_r' = passA
  /\ src_B_RD_pass_r' = passB
  /\ data_burst_r' = IF passA \/ passB THEN DRAM_data ELSE data_burst_r
  /\ data_burst_rr' = data_burst_r
  /\ PIM_vecA_read_burst' =
       <<src_A_RD_pass_r>> \o SubSeq(PIM_vecA_read_burst, 1, 2)
  /\ PIM_vecB_read_burst' =
       <<src_B_RD_pass_r>> \o SubSeq(PIM_vecB_read_burst, 1, 2)
  /\ PIM_write_burst' = passC
  /\ PIM_ALU_proc' = <<ALU_proc>> \o SubSeq(PIM_ALU_proc, 1, 3)
  /\ burst_cnt' = next_burst_cnt(clear)
  /\ burst_cnt_r' = burst_cnt
  /\ vecA' = IF clear THEN Zero ELSE IF burstA THEN data_burst_rr ELSE vecA
  /\ vecB' = IF clear \/ PIM_write_burst THEN Zero
             ELSE IF burstB THEN data_burst_rr ELSE vecB
  /\ alu_src_r' = alu_src
  /\ ADD0_in' = MUL0_out
  /\ vACC' = next_vACC(clear)
  /\ PIM_result' = IF PIM_write_burst THEN <<>>
                   ELSE IF PIM_ALU_proc[4] THEN vACC
                   ELSE PIM_result

Init ==
  /\ config_r = NoConfig /\ config_rr = NoConfig
  /\ src_A_RD_pass_r = FALSE /\ src_B_RD_pass_r = FALSE
  /\ data_burst_r = Zero /\ data_burst_rr = Zero
  /\ PIM_vecA_read_burst = <<FALSE, FALSE, FALSE>>
  /\ PIM_vecB_read_burst = <<FALSE, FALSE, FALSE>>
  /\ PIM_write_burst = FALSE
  /\ PIM_ALU_proc = <<FALSE, FALSE, FALSE, FALSE>>
  /\ burst_cnt = 0 /\ burst_cnt_r = 0
  /\ vecA = Zero /\ vecB = Zero
  /\ alu_src_r = [a |-> Zero, b |-> Zero]
  /\ ADD0_in = NoTerm
  /\ vACC = <<>> /\ PIM_result = <<>>
  /\ bank_config_reg = NoConfig
  /\ lastA = Zero /\ numB = 0 /\ since = DRAIN
  /\ expected = <<>> /\ written = NoResult

-----------------------------------------------------------------------------
(***************************************************************************)
(* The host, external: it presents operand beats and result writes, at     *)
(* most one per cycle, to bank 0 or to others.  It lets the pipeline drain *)
(* before it reads a result, changes the configuration or clears.          *)
(***************************************************************************)
Drained == since >= DRAIN
Older == IF Drained THEN since ELSE since + 1
Quiet(clear) == Clock(FALSE, FALSE, FALSE, Zero, clear)

\* The products a beat is to contribute.
TermsA(x) ==
  IF bank_config_reg.op \in {"MAC", "MUL"} THEN <<>>
  ELSE <<[a |-> Own(x), b |-> One,
          neg |-> bank_config_reg.op = "SUB" /\ bank_config_reg.startA]>>

TermsB(x) ==
  IF bank_config_reg.op \in {"ADD", "SUB"}
  THEN <<[a |-> One, b |-> Own(x),
          neg |-> bank_config_reg.op = "SUB" /\ bank_config_reg.startB]>>
  ELSE <<[a |-> IF bank_config_reg.dup THEN Element(lastA, numB % LANES)
                ELSE Own(lastA),
          b |-> Own(x), neg |-> FALSE]>>

Idle ==
  /\ Quiet(FALSE)
  /\ since' = Older
  /\ written' = NoResult
  /\ UNCHANGED <<bank_config_reg, lastA, numB, expected>>

Configure(c) ==
  /\ Drained /\ expected = <<>> /\ c # bank_config_reg
  /\ Quiet(FALSE)
  /\ bank_config_reg' = c
  /\ written' = NoResult
  /\ UNCHANGED <<lastA, numB, since, expected>>

ReadA(beat) ==
  LET x == IF lastA = <<"A", 1>> THEN <<"A", 2>> ELSE <<"A", 1>>
      mine == src_pass_mux(TRUE, beat, bank_config_reg.castA, 0)
  IN
  /\ bank_config_reg.op # "none" /\ Len(expected) < MAX_BEATS
  /\ Clock(mine, FALSE, FALSE, x, FALSE)
  /\ IF mine THEN lastA' = x /\ since' = 0 /\ expected' = expected \o TermsA(x)
     ELSE since' = Older /\ UNCHANGED <<lastA, expected>>
  /\ written' = NoResult
  /\ UNCHANGED <<bank_config_reg, numB>>

ReadB(beat) ==
  LET x == <<"B", numB>>
      mine == src_pass_mux(TRUE, beat, bank_config_reg.castB, 0)
  IN
  /\ bank_config_reg.op # "none" /\ Len(expected) < MAX_BEATS
  /\ bank_config_reg.op \in {"MAC", "MUL"} => lastA # Zero
  /\ Clock(FALSE, mine, FALSE, x, FALSE)
  /\ IF mine THEN numB' = numB + 1 /\ since' = 0 /\ expected' = expected \o TermsB(x)
     ELSE since' = Older /\ UNCHANGED <<numB, expected>>
  /\ written' = NoResult
  /\ UNCHANGED <<bank_config_reg, lastA>>

WriteResult(beat) ==
  LET mine == dst_pass(TRUE, beat, 0)
  IN
  /\ mine => Drained /\ expected # <<>>
  /\ Clock(FALSE, FALSE, mine, Zero, FALSE)
  /\ written' = [got |-> PIM_result_to_DRAM(beat),
                 want |-> IF mine THEN expected ELSE <<>>]
  /\ IF mine THEN expected' = <<>> /\ numB' = 0 ELSE UNCHANGED <<expected, numB>>
  /\ since' = Older
  /\ UNCHANGED <<bank_config_reg, lastA>>

\* HPC_clear_sig: the vectors and the accumulators, not the result register.
Clear ==
  /\ Drained
  /\ Quiet(TRUE)
  /\ lastA' = Zero /\ numB' = 0 /\ expected' = <<>>
  /\ written' = NoResult
  /\ UNCHANGED <<bank_config_reg, since>>

\* rst_x: every register; the host starts over.
Reset ==
  /\ config_r' = NoConfig /\ config_rr' = NoConfig
  /\ src_A_RD_pass_r' = FALSE /\ src_B_RD_pass_r' = FALSE
  /\ data_burst_r' = Zero /\ data_burst_rr' = Zero
  /\ PIM_vecA_read_burst' = <<FALSE, FALSE, FALSE>>
  /\ PIM_vecB_read_burst' = <<FALSE, FALSE, FALSE>>
  /\ PIM_write_burst' = FALSE
  /\ PIM_ALU_proc' = <<FALSE, FALSE, FALSE, FALSE>>
  /\ burst_cnt' = 0 /\ burst_cnt_r' = 0
  /\ vecA' = Zero /\ vecB' = Zero
  /\ alu_src_r' = [a |-> Zero, b |-> Zero]
  /\ ADD0_in' = NoTerm
  /\ vACC' = <<>> /\ PIM_result' = <<>>
  /\ bank_config_reg' = NoConfig
  /\ lastA' = Zero /\ numB' = 0 /\ since' = DRAIN
  /\ expected' = <<>> /\ written' = NoResult

\* The addresses the host uses: a line of bank 0 and a line of bank 1.
Beats == {0, 4}

Next ==
  \/ Idle \/ Clear \/ Reset
  \/ \E c \in Config : Configure(c)
  \/ \E beat \in Beats : ReadA(beat) \/ ReadB(beat) \/ WriteResult(beat)

Spec == Init /\ [][Next]_vars

-----------------------------------------------------------------------------
TypeOK ==
  /\ burst_cnt \in 0..(LANES - 1) /\ burst_cnt_r \in 0..(LANES - 1)
  /\ PIM_vecA_read_burst \in [1..3 -> BOOLEAN]
  /\ PIM_vecB_read_burst \in [1..3 -> BOOLEAN]
  /\ PIM_ALU_proc \in [1..4 -> BOOLEAN]
  /\ since \in 0..DRAIN /\ numB \in 0..MAX_BEATS

\* A result that is written to memory consists of exactly the products of the
\* operand beats since the result before it, in order, each beat of B with its
\* own element of A, and with the sign the configuration asks for.  The data,
\* the element counter, the configuration and the four stages of the pipeline
\* must stay aligned for it.
ResultExact == written.got = written.want

\* At no time has the accumulator anything else in it: no product of another
\* result, none twice, none out of order.  (With the types of the registers.)
AccumulatorIsPrefix ==
  /\ TypeOK
  /\ ~PIM_write_burst =>
       /\ Len(vACC) <= Len(expected)
       /\ vACC = SubSeq(expected, 1, Len(vACC))
=============================================================================
