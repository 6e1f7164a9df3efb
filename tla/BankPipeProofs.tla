--------------------------- MODULE BankPipeProofs ---------------------------
(***************************************************************************)
(* A result written to memory consists of exactly the products of its      *)
(* beats: proofs about BankPipe for every number of lanes and of beats,    *)
(* every set of configurations and every time to drain of six cycles or    *)
(* more.                                                                   *)
(*                                                                         *)
(* A beat passes five stages between the bus and the accumulator.  The     *)
(* invariant reads off each stage the product in it, as the later stages   *)
(* will form it: what is in the stages, added to the accumulator in order, *)
(* is what the host expects (ChainInv).  That the stages pass the product  *)
(* on unchanged needs the beat's data, configuration and element counter   *)
(* aligned with it (DataInv, ConfigInv, CountInv).                         *)
(*                                                                         *)
(* The last part is about the arithmetic of the bank's ALU (BfloatAlu).    *)
(***************************************************************************)
EXTENDS BankPipe, BfloatAlu, SequenceTheorems, TLAPS

-----------------------------------------------------------------------------
(***************************************************************************)
(* Numbers and products.                                                   *)
(***************************************************************************)
\* A word from memory: a beat of an operand.
Vec == {"A", "B"} \X Nat
Word == Vec \cup {Zero}

Number == {One} \cup {Own(x) : x \in Word} \cup {Element(x, n) : x \in Word, n \in Nat}
Term == [a: Number, b: Number, neg: BOOLEAN]

\* The numbers of a beat are not zero.
LEMMA NotZero ==
  ASSUME NEW x \in Vec, NEW n
  PROVE  /\ x # Zero /\ One # Zero
         /\ Own(x) = Append(x, "own") /\ Own(x) # Zero
         /\ Element(x, n) = Append(x, n) /\ Element(x, n) # Zero
<1>1. PICK p \in {"A", "B"}, q \in Nat : x = <<p, q>>
  BY DEF Vec
<1>2. x # Zero
  BY <1>1 DEF Zero
<1>3. One # Zero
  BY DEF One, Zero
<1>4. ASSUME NEW e PROVE Append(x, e) # Zero
  <2> DEFINE S == {p, q, e}
  <2>1. x \in Seq(S) /\ Len(x) = 2 /\ e \in S
    BY <1>1
  <2> HIDE DEF S
  <2>2. Len(Append(x, e)) = Len(x) + 1
    BY <2>1, AppendProperties
  <2>3. Len(Zero) = 1
    BY DEF Zero
  <2> QED BY <2>1, <2>2, <2>3
<1> QED BY <1>2, <1>3, <1>4 DEF Own, Element

\* What the layout stage and the multiplier make of words are numbers.
LEMMA NumberTypes ==
  ASSUME NEW x \in Word, NEW n \in Nat
  PROVE  /\ Own(x) \in Number /\ Element(x, n) \in Number
         /\ Zero \in Number /\ One \in Number /\ NoTerm \in Term
<1>1. Zero \in Word /\ Own(Zero) = Zero
  BY DEF Word, Own
<1>2. Zero \in Number
  BY <1>1 DEF Number
<1>3. Own(x) \in Number /\ Element(x, n) \in Number /\ One \in Number
  BY DEF Number
<1> QED BY <1>2, <1>3 DEF NoTerm, Term

\* Adding a product appends it, unless it is none.
LEMMA AddedShape ==
  ASSUME NEW s \in Seq(Term), NEW t \in Term
  PROVE  /\ Added(s, t) \in Seq(Term)
         /\ Len(Added(s, t)) = Len(s) + (IF t = NoTerm THEN 0 ELSE 1)
         /\ \A i \in 1..Len(s) : Added(s, t)[i] = s[i]
<1>1. CASE t = NoTerm
  BY <1>1 DEF Added
<1>2. CASE t # NoTerm
  BY <1>2, AppendProperties DEF Added
<1> QED BY <1>1, <1>2

\* Counting modulo the number of lanes.
LEMMA CountModulo ==
  ASSUME NEW m \in Nat
  PROVE  /\ m % LANES \in 0..(LANES - 1) /\ 0 % LANES = 0
         /\ ((m % LANES) + 1) % LANES = (m + 1) % LANES
<1> DEFINE L == LANES
<1>0. L \in Nat \ {0}
  BY LanesAssumption
<1> HIDE DEF L
<1>1. m % L \in 0..(L - 1) /\ 0 % L = 0
  BY <1>0
<1>2. ((m % L) + 1) % L = (m + 1) % L
  <2> DEFINE q == m \div L
             r == m % L
  <2>1. q \in Nat /\ r \in 0..(L - 1) /\ m = L * q + r
    BY <1>0
  <2> HIDE DEF q, r
  <2>2. ASSUME NEW k \in Nat, NEW j \in 0..(L - 1) PROVE (L * k + j) % L = j
    BY <1>0
  <2>3. CASE r + 1 < L
    <3>1. m + 1 = L * q + (r + 1) /\ r + 1 \in 0..(L - 1)
      BY <1>0, <2>1, <2>3
    <3>2. (r + 1) % L = r + 1
      BY <1>0, <3>1
    <3> QED BY <2>1, <2>2, <3>1, <3>2 DEF r
  <2>4. CASE r + 1 = L
    <3>1. L * (q + 1) + 0 = L * q + L
      BY <1>0, <2>1
    <3>2. m + 1 = L * (q + 1) + 0 /\ 0 \in 0..(L - 1) /\ q + 1 \in Nat
      BY <1>0, <2>1, <2>4, <3>1
    <3>3. (r + 1) % L = 0
      BY <1>0, <2>4
    <3> QED BY <2>2, <3>2, <3>3 DEF r
  <2> QED BY <1>0, <2>1, <2>3, <2>4
<1> QED BY <1>1, <1>2 DEF L

-----------------------------------------------------------------------------
(***************************************************************************)
(* The inductive invariant.                                                *)
(***************************************************************************)
\* The operations that add either operand.
Sums == bank_config_reg.op \notin {"MAC", "MUL"}

\* The product that a beat of A or of B adds, with the vector A and the element
\* counter that go with it.  NoTerm: a beat of A that only loads the vector.
OfA(x) ==
  IF ~Sums THEN NoTerm
  ELSE [a |-> Own(x), b |-> One,
        neg |-> bank_config_reg.op = "SUB" /\ bank_config_reg.startA]

OfB(x, v, n) ==
  IF bank_config_reg.op \in {"ADD", "SUB"}
  THEN [a |-> One, b |-> Own(x),
        neg |-> bank_config_reg.op = "SUB" /\ bank_config_reg.startB]
  ELSE [a |-> IF bank_config_reg.dup THEN Element(v, n) ELSE Own(v),
        b |-> Own(x), neg |-> FALSE]

Product(isA, isB, x, v, n) ==
  IF isA THEN OfA(x) ELSE IF isB THEN OfB(x, v, n) ELSE NoTerm

\* The vector A and the element counter as the beat just presented will meet
\* them at the layout stage, and the counter for the beat after it.
ComingA == IF burstA THEN data_burst_rr ELSE vecA
ComingCnt == IF bank_config_reg.dup /\ burstB THEN (burst_cnt + 1) % LANES ELSE burst_cnt
FollowingCnt ==
  IF bank_config_reg.dup /\ src_B_RD_pass_r THEN (ComingCnt + 1) % LANES ELSE ComingCnt

\* The products on their way to the accumulator, by stage.
Stage1 == Product(src_A_RD_pass_r, src_B_RD_pass_r, data_burst_r, ComingA, ComingCnt)
Stage2 == Product(burstA, burstB, data_burst_rr, vecA, burst_cnt)
Stage3 == Product(PIM_vecA_read_burst[2], PIM_vecB_read_burst[2],
                  IF PIM_vecA_read_burst[2] THEN vecA ELSE vecB, vecA, burst_cnt_r)
Stage4 == IF PIM_ALU_proc[2] THEN MUL0_out ELSE NoTerm
Stage5 == IF PIM_ALU_proc[3] THEN ADD0_in ELSE NoTerm

\* The accumulator, which a result write clears one cycle late.
Accumulator == IF PIM_write_burst THEN <<>> ELSE vACC

\* The registers' types, in addition to TypeOK.
RegisterTypes ==
  /\ src_A_RD_pass_r \in BOOLEAN /\ src_B_RD_pass_r \in BOOLEAN
  /\ PIM_write_burst \in BOOLEAN
  /\ bank_config_reg \in Config \cup {NoConfig}
  /\ data_burst_r \in Word /\ data_burst_rr \in Word
  /\ vecA \in Word /\ vecB \in Word /\ lastA \in Word
  /\ alu_src_r \in [a: Number, b: Number] /\ ADD0_in \in Term
  /\ vACC \in Seq(Term) /\ expected \in Seq(Term)

\* How far the last beat is, and which stages are empty for it.
StageInv ==
  /\ ~(src_A_RD_pass_r /\ src_B_RD_pass_r)
  /\ \A i \in 1..3 : ~(PIM_vecA_read_burst[i] /\ PIM_vecB_read_burst[i])
  /\ since >= 1 => ~src_A_RD_pass_r /\ ~src_B_RD_pass_r
  /\ \A i \in 1..3 : since >= i + 1 => ~PIM_vecA_read_burst[i] /\ ~PIM_vecB_read_burst[i]
  /\ since >= 5 => ~PIM_ALU_proc[3]
  /\ since >= 6 => ~PIM_ALU_proc[4]

\* The multiplier and the adder work for exactly the beats that add something.
ProcInv ==
  /\ PIM_ALU_proc[1] <=> PIM_vecB_read_burst[2] \/ (PIM_vecA_read_burst[2] /\ Sums)
  /\ PIM_ALU_proc[2] <=> PIM_vecB_read_burst[3] \/ (PIM_vecA_read_burst[3] /\ Sums)

\* A result write and an idle device find the pipeline empty.
QuietInv ==
  /\ PIM_write_burst => since >= DRAIN /\ expected = <<>> /\ numB = 0
  /\ bank_config_reg.op = "none" => since >= DRAIN

\* A beat meets its own configuration in every stage.
ConfigInv ==
  /\ src_A_RD_pass_r \/ src_B_RD_pass_r => config_r = bank_config_reg
  /\ \A i \in 1..3 : PIM_vecA_read_burst[i] \/ PIM_vecB_read_burst[i] =>
       config_r = bank_config_reg /\ config_rr = bank_config_reg

\* The data of a beat, and the vector A that goes with it.
DataInv ==
  /\ lastA = IF src_A_RD_pass_r THEN data_burst_r ELSE ComingA
  /\ src_A_RD_pass_r \/ src_B_RD_pass_r => data_burst_r \in Vec
  /\ burstA \/ burstB => data_burst_rr \in Vec
  /\ PIM_vecA_read_burst[2] => vecA \in Vec
  /\ PIM_vecB_read_burst[2] => vecB \in Vec
  /\ ~Sums /\ src_B_RD_pass_r => ComingA \in Vec
  /\ ~Sums /\ (burstB \/ PIM_vecB_read_burst[2]) => vecA \in Vec

\* The element counter, with the beats that have yet to move it, counts the
\* beats of B since the last result.
CountInv ==
  /\ numB <= Len(expected)
  /\ ~PIM_write_burst =>
       IF bank_config_reg.dup THEN FollowingCnt = numB % LANES ELSE burst_cnt = 0

\* What has been added and what is on its way is what is expected.
ChainInv ==
  expected = Added(Added(Added(Added(Added(Accumulator, Stage5), Stage4), Stage3),
                         Stage2), Stage1)

\* The result register follows the accumulator.
ResultInv ==
  ~PIM_write_burst /\ ~PIM_ALU_proc[4] /\ vACC # <<>> => PIM_result = vACC

Inv == /\ TypeOK /\ RegisterTypes /\ StageInv /\ ProcInv /\ QuietInv /\ ConfigInv
       /\ DataInv /\ CountInv /\ ChainInv /\ ResultInv /\ ResultExact

-----------------------------------------------------------------------------
(***************************************************************************)
(* Every step but a reset is a clock cycle in which the host presents at   *)
(* most one beat, and does nothing else unless the pipeline is empty.      *)
(***************************************************************************)
Cycle(isA, isB, isC, x, clear) ==
  /\ isA \in BOOLEAN /\ isB \in BOOLEAN /\ isC \in BOOLEAN /\ clear \in BOOLEAN
  /\ x \in Word
  /\ Clock(isA, isB, isC, x, clear)
  /\ ~(isA /\ isB) /\ (isA \/ isB => ~isC /\ ~clear) /\ ~(isC /\ clear)
  /\ isA \/ isB => /\ x \in Vec /\ bank_config_reg.op # "none"
                   /\ Len(expected) < MAX_BEATS
  /\ isB /\ ~Sums => lastA # Zero
  /\ since' = IF isA \/ isB THEN 0 ELSE Older
  /\ isC \/ clear => Drained
  /\ isC => expected # <<>>
  /\ \/ bank_config_reg' = bank_config_reg
     \/ /\ bank_config_reg' \in Config /\ Drained /\ expected = <<>>
        /\ ~isA /\ ~isB /\ ~isC /\ ~clear
  /\ lastA' = IF isA THEN x ELSE IF clear THEN Zero ELSE lastA
  /\ numB' = IF isC \/ clear THEN 0 ELSE IF isB THEN numB + 1 ELSE numB
  /\ expected' = IF isC \/ clear THEN <<>>
                 ELSE Added(expected, Product(isA, isB, x, lastA, numB % LANES))
  /\ written' = IF isC THEN [got |-> PIM_result, want |-> expected] ELSE NoResult

\* The products of a beat are none, or one that is not zero.
LEMMA ProductShape ==
  ASSUME RegisterTypes, NEW x \in Vec, NEW v \in Word, NEW n \in Nat
  PROVE  /\ OfA(x) \in Term /\ OfB(x, v, n) \in Term
         /\ Sums => OfA(x) # NoTerm
         /\ OfB(x, v, n) # NoTerm
<1>1. x \in Word /\ Own(x) # Zero /\ One # Zero
  BY NotZero DEF Word
<1>2. /\ Own(x) \in Number /\ One \in Number /\ NoTerm \in Term
      /\ Own(v) \in Number /\ Element(v, n) \in Number
  BY <1>1, NumberTypes
<1>3. OfA(x) \in Term
  BY <1>2 DEF OfA, Term
<1>4. OfB(x, v, n) \in Term
  BY <1>2 DEF OfB, Term
<1>5. Sums => OfA(x) # NoTerm
  BY <1>1 DEF OfA, NoTerm
<1>6. OfB(x, v, n) # NoTerm
  BY <1>1 DEF OfB, NoTerm
<1> QED BY <1>3, <1>4, <1>5, <1>6

\* The steps of the host are such cycles.
LEMMA IsCycle ==
  ASSUME TypeOK, RegisterTypes, Next, ~Reset
  PROVE  \E isA, isB, isC, x, clear : Cycle(isA, isB, isC, x, clear)
<1>0. /\ Zero \in Word
      /\ expected = Added(expected, Product(FALSE, FALSE, Zero, lastA, numB % LANES))
  BY DEF Word, Product, Added
<1>1. CASE Idle
  <2>1. Cycle(FALSE, FALSE, FALSE, Zero, FALSE)
    BY <1>0, <1>1 DEF Idle, Quiet, Cycle
  <2> QED BY <2>1
<1>2. CASE Clear
  <2>1. since' = Older
    BY <1>2 DEF Clear, Older
  <2>2. Cycle(FALSE, FALSE, FALSE, Zero, TRUE)
    BY <1>0, <1>2, <2>1 DEF Clear, Quiet, Cycle
  <2> QED BY <2>2
<1>3. ASSUME NEW c \in Config, Configure(c)
      PROVE  Cycle(FALSE, FALSE, FALSE, Zero, FALSE)
  <2>1. since' = Older
    BY <1>3 DEF Configure, Older
  <2> QED BY <1>0, <1>3, <2>1 DEF Configure, Quiet, Cycle
<1>4. numB \in Nat /\ numB % LANES \in Nat
  <2>1. numB \in Nat
    BY BeatsAssumption DEF TypeOK
  <2> QED BY <2>1, CountModulo
<1>5. ASSUME NEW beat \in Beats, ReadA(beat)
      PROVE  \E isA, isB, isC, x, clear : Cycle(isA, isB, isC, x, clear)
  <2> DEFINE x == IF lastA = <<"A", 1>> THEN <<"A", 2>> ELSE <<"A", 1>>
  <2>1. PICK m \in BOOLEAN : m = src_pass_mux(TRUE, beat, bank_config_reg.castA, 0)
    BY DEF src_pass_mux
  <2>2. x \in Vec /\ x \in Word
    BY DEF Vec, Word
  <2>3. /\ bank_config_reg.op # "none" /\ Len(expected) < MAX_BEATS
        /\ Clock(m, FALSE, FALSE, x, FALSE)
        /\ IF m THEN lastA' = x /\ since' = 0 /\ expected' = expected \o TermsA(x)
           ELSE since' = Older /\ UNCHANGED <<lastA, expected>>
        /\ written' = NoResult
        /\ UNCHANGED <<bank_config_reg, numB>>
    BY <1>5, <2>1 DEF ReadA
  <2>4. expected \o TermsA(x) = Added(expected, Product(TRUE, FALSE, x, lastA, numB % LANES))
    <3> HIDE DEF x
    <3>1. CASE Sums
      <4>1. TermsA(x) = <<OfA(x)>>
        BY <3>1 DEF TermsA, OfA, Sums
      <4>2. /\ OfA(x) # NoTerm /\ OfA(x) \in Term
            /\ Product(TRUE, FALSE, x, lastA, numB % LANES) = OfA(x)
        BY <1>4, <2>2, <3>1, ProductShape DEF Product, RegisterTypes
      <4>3. expected \o <<OfA(x)>> = Append(expected, OfA(x))
        BY <4>2, AppendIsConcat DEF RegisterTypes
      <4> QED BY <4>1, <4>2, <4>3 DEF Added
    <3>2. CASE ~Sums
      <4>1. TermsA(x) = <<>> /\ Product(TRUE, FALSE, x, lastA, numB % LANES) = NoTerm
        BY <3>2 DEF TermsA, OfA, Sums, Product
      <4>2. expected \o <<>> = expected
        BY ConcatEmptySeq DEF RegisterTypes
      <4> QED BY <4>1, <4>2 DEF Added
    <3> QED BY <3>1, <3>2
  <2> HIDE DEF x
  <2>5. CASE m
    <3>1. Cycle(TRUE, FALSE, FALSE, x, FALSE)
      BY <2>2, <2>3, <2>4, <2>5 DEF Cycle
    <3> QED BY <3>1
  <2>6. CASE ~m
    <3>1. expected = Added(expected, Product(FALSE, FALSE, x, lastA, numB % LANES))
      BY DEF Product, Added
    <3>2. Cycle(FALSE, FALSE, FALSE, x, FALSE)
      BY <2>2, <2>3, <2>6, <3>1 DEF Cycle
    <3> QED BY <3>2
  <2> QED BY <2>5, <2>6
<1>6. ASSUME NEW beat \in Beats, ReadB(beat)
      PROVE  \E isA, isB, isC, x, clear : Cycle(isA, isB, isC, x, clear)
  <2> DEFINE x == <<"B", numB>>
  <2>1. PICK m \in BOOLEAN : m = src_pass_mux(TRUE, beat, bank_config_reg.castB, 0)
    BY DEF src_pass_mux
  <2>2. x \in Vec /\ x \in Word
    BY <1>4 DEF Vec, Word
  <2>3. /\ bank_config_reg.op # "none" /\ Len(expected) < MAX_BEATS
        /\ bank_config_reg.op \in {"MAC", "MUL"} => lastA # Zero
        /\ Clock(FALSE, m, FALSE, x, FALSE)
        /\ IF m THEN numB' = numB + 1 /\ since' = 0 /\ expected' = expected \o TermsB(x)
           ELSE since' = Older /\ UNCHANGED <<numB, expected>>
        /\ written' = NoResult
        /\ UNCHANGED <<bank_config_reg, lastA>>
    BY <1>6, <2>1 DEF ReadB
  <2> HIDE DEF x
  <2>4. expected \o TermsB(x) = Added(expected, Product(FALSE, TRUE, x, lastA, numB % LANES))
    <3>1. TermsB(x) = <<OfB(x, lastA, numB % LANES)>>
      BY DEF TermsB, OfB
    <3>2. /\ OfB(x, lastA, numB % LANES) # NoTerm /\ OfB(x, lastA, numB % LANES) \in Term
          /\ Product(FALSE, TRUE, x, lastA, numB % LANES) = OfB(x, lastA, numB % LANES)
      BY <1>4, <2>2, ProductShape DEF Product, RegisterTypes
    <3> DEFINE t == OfB(x, lastA, numB % LANES)
    <3> HIDE DEF t
    <3>3. expected \o <<t>> = Append(expected, t)
      BY <3>2, AppendIsConcat DEF RegisterTypes, t
    <3> QED BY <3>1, <3>2, <3>3 DEF Added, t
  <2>5. CASE m
    <3>1. Cycle(FALSE, TRUE, FALSE, x, FALSE)
      BY <2>2, <2>3, <2>4, <2>5 DEF Cycle, Sums
    <3> QED BY <3>1
  <2>6. CASE ~m
    <3>1. expected = Added(expected, Product(FALSE, FALSE, x, lastA, numB % LANES))
      BY DEF Product, Added
    <3>2. Cycle(FALSE, FALSE, FALSE, x, FALSE)
      BY <2>2, <2>3, <2>6, <3>1 DEF Cycle
    <3> QED BY <3>2
  <2> QED BY <2>5, <2>6
<1>7. ASSUME NEW beat \in Beats, WriteResult(beat)
      PROVE  \E isA, isB, isC, x, clear : Cycle(isA, isB, isC, x, clear)
  <2>1. PICK m \in BOOLEAN : m = dst_pass(TRUE, beat, 0)
    BY DEF dst_pass
  <2>2. /\ m => Drained /\ expected # <<>>
        /\ Clock(FALSE, FALSE, m, Zero, FALSE)
        /\ written' = [got |-> PIM_result_to_DRAM(beat),
                       want |-> IF m THEN expected ELSE <<>>]
        /\ IF m THEN expected' = <<>> /\ numB' = 0 ELSE UNCHANGED <<expected, numB>>
        /\ since' = Older
        /\ UNCHANGED <<bank_config_reg, lastA>>
    BY <1>7, <2>1 DEF WriteResult
  <2>3. PIM_result_to_DRAM(beat) = IF m THEN PIM_result ELSE <<>>
    BY <2>1 DEF dst_pass, PIM_result_to_DRAM
  <2>4. Cycle(FALSE, FALSE, m, Zero, FALSE)
    BY <1>0, <2>2, <2>3 DEF Cycle, NoResult
  <2> QED BY <2>4
<1> QED BY <1>1, <1>2, <1>3, <1>5, <1>6, <1>7 DEF Next

\* Flags s that moved on by one place, with x at the start.
Moved(r, x, s, n) ==
  /\ r \in [1..(n + 1) -> BOOLEAN] /\ r[1] = x
  /\ \A i \in 1..n : r[i + 1] = s[i]

\* A shift register takes a new flag.
LEMMA Shift ==
  ASSUME NEW n \in Nat, NEW s \in [1..(n + 1) -> BOOLEAN], NEW x \in BOOLEAN
  PROVE  Moved(<<x>> \o SubSeq(s, 1, n), x, s, n)
<1>1. s \in Seq(BOOLEAN) /\ Len(s) = n + 1
  OBVIOUS
<1>2. /\ SubSeq(s, 1, n) \in Seq(BOOLEAN) /\ Len(SubSeq(s, 1, n)) = n
      /\ \A i \in 1..n : SubSeq(s, 1, n)[i] = s[i]
  BY <1>1, SubSeqProperties
<1>3. <<x>> \in Seq(BOOLEAN) /\ Len(<<x>>) = 1 /\ <<x>>[1] = x
  OBVIOUS
<1> DEFINE u == SubSeq(s, 1, n)
           h == <<x>>
<1> HIDE DEF u, h
<1>4. /\ h \o u \in Seq(BOOLEAN) /\ Len(h \o u) = 1 + n
      /\ \A i \in 1..(1 + n) : (h \o u)[i] = IF i <= 1 THEN h[i] ELSE u[i - 1]
  BY <1>2, <1>3, ConcatProperties DEF u, h
<1>5. (h \o u)[1] = x
  BY <1>3, <1>4 DEF h
<1>6. ASSUME NEW i \in 1..n PROVE (h \o u)[i + 1] = s[i]
  <2>1. i + 1 \in 1..(1 + n) /\ ~(i + 1 <= 1) /\ (i + 1) - 1 = i
    OBVIOUS
  <2>2. (h \o u)[i + 1] = u[i]
    BY <1>4, <2>1
  <2> QED BY <1>2, <2>2 DEF u
<1>7. h \o u \in [1..(n + 1) -> BOOLEAN]
  <2>1. PICK f \in Seq(BOOLEAN) : f = h \o u
    BY <1>4
  <2>2. f \in [1..Len(f) -> BOOLEAN]
    BY LenProperties
  <2>3. Len(f) = n + 1
    BY <1>4, <2>1
  <2> QED BY <2>1, <2>2, <2>3
<1> QED BY <1>5, <1>6, <1>7 DEF u, h, Moved

\* The flags after a cycle, stage by stage.
LEMMA FlagsStep ==
  ASSUME TypeOK, RegisterTypes, NEW isA, NEW isB, NEW isC, NEW x, NEW clear,
         Cycle(isA, isB, isC, x, clear)
  PROVE  /\ src_A_RD_pass_r' = isA /\ src_B_RD_pass_r' = isB /\ PIM_write_burst' = isC
         /\ PIM_vecA_read_burst' \in [1..3 -> BOOLEAN]
         /\ PIM_vecA_read_burst'[1] = src_A_RD_pass_r
         /\ PIM_vecA_read_burst'[2] = PIM_vecA_read_burst[1]
         /\ PIM_vecA_read_burst'[3] = PIM_vecA_read_burst[2]
         /\ PIM_vecB_read_burst' \in [1..3 -> BOOLEAN]
         /\ PIM_vecB_read_burst'[1] = src_B_RD_pass_r
         /\ PIM_vecB_read_burst'[2] = PIM_vecB_read_burst[1]
         /\ PIM_vecB_read_burst'[3] = PIM_vecB_read_burst[2]
         /\ PIM_ALU_proc' \in [1..4 -> BOOLEAN]
         /\ PIM_ALU_proc'[1] = ALU_proc
         /\ PIM_ALU_proc'[2] = PIM_ALU_proc[1]
         /\ PIM_ALU_proc'[3] = PIM_ALU_proc[2]
         /\ PIM_ALU_proc'[4] = PIM_ALU_proc[3]
<1>1. /\ src_A_RD_pass_r' = isA /\ src_B_RD_pass_r' = isB /\ PIM_write_burst' = isC
      /\ PIM_vecA_read_burst' = <<src_A_RD_pass_r>> \o SubSeq(PIM_vecA_read_burst, 1, 2)
      /\ PIM_vecB_read_burst' = <<src_B_RD_pass_r>> \o SubSeq(PIM_vecB_read_burst, 1, 2)
      /\ PIM_ALU_proc' = <<ALU_proc>> \o SubSeq(PIM_ALU_proc, 1, 3)
  BY DEF Cycle, Clock
<1>2. ALU_proc \in BOOLEAN
  BY DEF ALU_proc, burstA, burstB, TypeOK
<1>3. 2 \in Nat /\ 2 + 1 = 3 /\ 1 \in 1..2 /\ 2 \in 1..2 /\ 1 + 1 = 2
      /\ 3 \in Nat /\ 3 + 1 = 4 /\ 1 \in 1..3 /\ 2 \in 1..3 /\ 3 \in 1..3
  OBVIOUS
<1>4. /\ PIM_vecA_read_burst \in [1..(2 + 1) -> BOOLEAN] /\ src_A_RD_pass_r \in BOOLEAN
      /\ PIM_vecB_read_burst \in [1..(2 + 1) -> BOOLEAN] /\ src_B_RD_pass_r \in BOOLEAN
      /\ PIM_ALU_proc \in [1..(3 + 1) -> BOOLEAN]
  BY DEF TypeOK, RegisterTypes
<1>5. /\ PIM_vecA_read_burst' \in [1..(2 + 1) -> BOOLEAN]
      /\ PIM_vecA_read_burst'[1] = src_A_RD_pass_r
      /\ \A i \in 1..2 : PIM_vecA_read_burst'[i + 1] = PIM_vecA_read_burst[i]
  <2>1. /\ 2 \in Nat /\ src_A_RD_pass_r \in BOOLEAN
        /\ PIM_vecA_read_burst \in [1..(2 + 1) -> BOOLEAN]
    BY <1>3, <1>4
  <2>2. Moved(<<src_A_RD_pass_r>> \o SubSeq(PIM_vecA_read_burst, 1, 2),
              src_A_RD_pass_r, PIM_vecA_read_burst, 2)
    BY <2>1, Shift
  <2> QED BY <1>1, <2>2, Zenon DEF Moved
<1>6. /\ PIM_vecB_read_burst' \in [1..(2 + 1) -> BOOLEAN]
      /\ PIM_vecB_read_burst'[1] = src_B_RD_pass_r
      /\ \A i \in 1..2 : PIM_vecB_read_burst'[i + 1] = PIM_vecB_read_burst[i]
  <2>1. /\ 2 \in Nat /\ src_B_RD_pass_r \in BOOLEAN
        /\ PIM_vecB_read_burst \in [1..(2 + 1) -> BOOLEAN]
    BY <1>3, <1>4
  <2>2. Moved(<<src_B_RD_pass_r>> \o SubSeq(PIM_vecB_read_burst, 1, 2),
              src_B_RD_pass_r, PIM_vecB_read_burst, 2)
    BY <2>1, Shift
  <2> QED BY <1>1, <2>2, Zenon DEF Moved
<1>7. /\ PIM_ALU_proc' \in [1..(3 + 1) -> BOOLEAN]
      /\ PIM_ALU_proc'[1] = ALU_proc
      /\ \A i \in 1..3 : PIM_ALU_proc'[i + 1] = PIM_ALU_proc[i]
  <2>1. 3 \in Nat /\ PIM_ALU_proc \in [1..(3 + 1) -> BOOLEAN] /\ ALU_proc \in BOOLEAN
    BY <1>2, <1>3, <1>4
  <2>2. Moved(<<ALU_proc>> \o SubSeq(PIM_ALU_proc, 1, 3), ALU_proc, PIM_ALU_proc, 3)
    BY <2>1, Shift
  <2> QED BY <1>1, <2>2, Zenon DEF Moved
<1>8. /\ PIM_vecA_read_burst'[2] = PIM_vecA_read_burst[1]
      /\ PIM_vecA_read_burst'[3] = PIM_vecA_read_burst[2]
  BY <1>3, <1>5, Zenon
<1>9. /\ PIM_vecB_read_burst'[2] = PIM_vecB_read_burst[1]
      /\ PIM_vecB_read_burst'[3] = PIM_vecB_read_burst[2]
  BY <1>3, <1>6, Zenon
<1>10. /\ PIM_ALU_proc'[2] = PIM_ALU_proc[1]
       /\ PIM_ALU_proc'[3] = PIM_ALU_proc[2]
       /\ PIM_ALU_proc'[4] = PIM_ALU_proc[3]
  BY <1>3, <1>7, Zenon
<1>11. /\ PIM_vecA_read_burst' \in [1..3 -> BOOLEAN]
       /\ PIM_vecB_read_burst' \in [1..3 -> BOOLEAN]
       /\ PIM_ALU_proc' \in [1..4 -> BOOLEAN]
  BY <1>3, <1>5, <1>6, <1>7, Zenon
<1> QED BY <1>1, <1>5, <1>6, <1>7, <1>8, <1>9, <1>10, <1>11, Zenon

\* The product of a beat, or of none, is a product.
LEMMA ProductType ==
  ASSUME RegisterTypes, NEW isA \in BOOLEAN, NEW isB \in BOOLEAN, NEW x \in Word,
         NEW v \in Word, NEW n \in Nat, isA \/ isB => x \in Vec
  PROVE  Product(isA, isB, x, v, n) \in Term
<1>1. NoTerm \in Term
  BY NumberTypes
<1>2. CASE isA \/ isB
  BY <1>1, <1>2, ProductShape DEF Product
<1>3. CASE ~isA /\ ~isB
  BY <1>1, <1>3 DEF Product
<1> QED BY <1>2, <1>3

\* The multiplier's output is a product.
LEMMA MultiplierType ==
  ASSUME RegisterTypes
  PROVE  MUL0_out \in Term
<1>1. One \in Number /\ NoTerm \in Term
  BY NumberTypes DEF RegisterTypes
<1>2. alu_src_r.a \in Number /\ alu_src_r.b \in Number
  BY DEF RegisterTypes
<1> DEFINE sum == is_op({"ADD", "SUB"})
           a == IF sum /\ PIM_vecB_read_burst[3] THEN One ELSE alu_src_r.a
           b == IF sum /\ PIM_vecA_read_burst[3] THEN One ELSE alu_src_r.b
           neg == is_op({"SUB"}) /\ ((config_rr.startA /\ PIM_vecA_read_burst[3])
                                     \/ (config_rr.startB /\ PIM_vecB_read_burst[3]))
<1>3. MUL0_out = IF a = Zero \/ b = Zero THEN NoTerm ELSE [a |-> a, b |-> b, neg |-> neg]
  BY DEF MUL0_out
<1>4. a \in Number /\ b \in Number
  BY <1>1, <1>2
<1>5. neg \in BOOLEAN
  OBVIOUS
<1> HIDE DEF a, b, neg
<1>6. [a |-> a, b |-> b, neg |-> neg] \in Term
  BY <1>4, <1>5 DEF Term
<1> QED BY <1>1, <1>3, <1>6

\* A cycle keeps the types.
LEMMA StepTypes ==
  ASSUME Inv, NEW isA, NEW isB, NEW isC, NEW x, NEW clear,
         Cycle(isA, isB, isC, x, clear)
  PROVE  TypeOK' /\ RegisterTypes'
<1>0. TypeOK /\ RegisterTypes /\ CountInv
  BY DEF Inv
<1>1. /\ PIM_vecA_read_burst' \in [1..3 -> BOOLEAN]
      /\ PIM_vecB_read_burst' \in [1..3 -> BOOLEAN]
      /\ PIM_ALU_proc' \in [1..4 -> BOOLEAN]
      /\ src_A_RD_pass_r' \in BOOLEAN /\ src_B_RD_pass_r' \in BOOLEAN
      /\ PIM_write_burst' \in BOOLEAN
  <2>1. isA \in BOOLEAN /\ isB \in BOOLEAN /\ isC \in BOOLEAN
    BY DEF Cycle
  <2> QED BY <1>0, <2>1, FlagsStep
<1>2. burst_cnt' \in 0..(LANES - 1) /\ burst_cnt_r' \in 0..(LANES - 1)
  <2>1. burst_cnt' = next_burst_cnt(clear) /\ burst_cnt_r' = burst_cnt
    BY DEF Cycle, Clock
  <2>2. burst_cnt \in 0..(LANES - 1) /\ 0 \in 0..(LANES - 1) /\ burst_cnt + 1 \in Nat
    BY <1>0, LanesAssumption DEF TypeOK
  <2>3. (burst_cnt + 1) % LANES \in 0..(LANES - 1)
    BY <2>2, CountModulo
  <2> QED BY <2>1, <2>2, <2>3 DEF next_burst_cnt
<1>3. since' \in 0..DRAIN
  <2>1. since' = IF isA \/ isB THEN 0 ELSE Older
    BY DEF Cycle
  <2>2. Older \in 0..DRAIN /\ 0 \in 0..DRAIN
    BY <1>0, DrainAssumption DEF TypeOK, Older, Drained
  <2> QED BY <2>1, <2>2
<1>4. numB' \in 0..MAX_BEATS
  <2>1. numB' = IF isC \/ clear THEN 0 ELSE IF isB THEN numB + 1 ELSE numB
    BY DEF Cycle
  <2>2. isB => Len(expected) < MAX_BEATS
    BY DEF Cycle
  <2>3. numB \in 0..MAX_BEATS /\ numB <= Len(expected) /\ Len(expected) \in Nat
    BY <1>0 DEF TypeOK, CountInv, RegisterTypes
  <2>4. 0 \in 0..MAX_BEATS /\ (isB => numB + 1 \in 0..MAX_BEATS)
    BY <2>2, <2>3, BeatsAssumption
  <2> QED BY <2>1, <2>3, <2>4
<1>5. bank_config_reg' \in Config \cup {NoConfig}
  BY <1>0 DEF Cycle, RegisterTypes
<1>6. /\ data_burst_r' \in Word /\ data_burst_rr' \in Word
      /\ vecA' \in Word /\ vecB' \in Word /\ lastA' \in Word
  <2>1. Zero \in Word /\ x \in Word
    BY DEF Word, Cycle
  <2>2. data_burst_r' \in Word /\ data_burst_rr' \in Word /\ vecA' \in Word /\ vecB' \in Word
    BY <1>0, <2>1 DEF Cycle, Clock, RegisterTypes
  <2>3. lastA' = IF isA THEN x ELSE IF clear THEN Zero ELSE lastA
    BY DEF Cycle
  <2> QED BY <1>0, <2>1, <2>2, <2>3 DEF RegisterTypes
<1>7. alu_src_r' \in [a: Number, b: Number]
  <2>1. alu_src_r' = alu_src
    BY DEF Cycle, Clock
  <2>2. burst_cnt_r \in Nat /\ vecA \in Word /\ vecB \in Word
    BY <1>0 DEF TypeOK, RegisterTypes
  <2>3. Element(vecA, burst_cnt_r) \in Number /\ Own(vecA) \in Number /\ Own(vecB) \in Number
        /\ Zero \in Number
    BY <2>2, NumberTypes
  <2> QED BY <2>1, <2>3 DEF alu_src
<1>8. ADD0_in' \in Term
  BY <1>0, MultiplierType DEF Cycle, Clock
<1>9. vACC' \in Seq(Term)
  <2>1. vACC' = next_vACC(clear)
    BY DEF Cycle, Clock
  <2>2. <<>> \in Seq(Term) /\ vACC \in Seq(Term)
    BY <1>0 DEF RegisterTypes
  <2>3. Added(vACC, ADD0_in) \in Seq(Term)
    BY <1>0, AddedShape DEF RegisterTypes
  <2> QED BY <2>1, <2>2, <2>3 DEF next_vACC
<1>10. expected' \in Seq(Term)
  <2>1. Product(isA, isB, x, lastA, numB % LANES) \in Term
    <3>1. numB \in Nat
      BY <1>0, BeatsAssumption DEF TypeOK
    <3>2. numB % LANES \in Nat
      BY <3>1, CountModulo
    <3>3. isA \in BOOLEAN /\ isB \in BOOLEAN /\ x \in Word /\ (isA \/ isB => x \in Vec)
      BY DEF Cycle
    <3>4. lastA \in Word
      BY <1>0 DEF RegisterTypes
    <3> QED BY <1>0, <3>2, <3>3, <3>4, ProductType
  <2>2. expected' = IF isC \/ clear THEN <<>>
                    ELSE Added(expected, Product(isA, isB, x, lastA, numB % LANES))
    BY DEF Cycle
  <2>3. <<>> \in Seq(Term) /\ expected \in Seq(Term)
    BY <1>0 DEF RegisterTypes
  <2> QED BY <2>1, <2>2, <2>3, AddedShape
<1> QED BY <1>1, <1>2, <1>3, <1>4, <1>5, <1>6, <1>7, <1>8, <1>9, <1>10
      DEF TypeOK, RegisterTypes

\* The time since the last beat grows by at most one.
LEMMA SinceStep ==
  ASSUME TypeOK, NEW isA, NEW isB, NEW isC, NEW x, NEW clear,
         Cycle(isA, isB, isC, x, clear), NEW k \in Nat, since' >= k + 1
  PROVE  ~isA /\ ~isB /\ since >= k
<1>1. since' = IF isA \/ isB THEN 0 ELSE Older
  BY DEF Cycle
<1>2. since \in Nat
  BY DEF TypeOK
<1>3. ~isA /\ ~isB
  <2>1. ~(0 >= k + 1)
    OBVIOUS
  <2> QED BY <1>1, <2>1
<1>4. since' = IF since >= DRAIN THEN since ELSE since + 1
  BY <1>1, <1>3 DEF Older, Drained
<1>5. since >= k
  BY <1>2, <1>4
<1> QED BY <1>3, <1>5

\* The stages empty one after the other behind the last beat.
LEMMA StepStages ==
  ASSUME Inv, NEW isA, NEW isB, NEW isC, NEW x, NEW clear,
         Cycle(isA, isB, isC, x, clear)
  PROVE  StageInv'
<1>0. TypeOK /\ RegisterTypes /\ StageInv /\ ProcInv
  BY DEF Inv
<1>1. /\ src_A_RD_pass_r' = isA /\ src_B_RD_pass_r' = isB
      /\ PIM_vecA_read_burst'[1] = src_A_RD_pass_r
      /\ PIM_vecA_read_burst'[2] = PIM_vecA_read_burst[1]
      /\ PIM_vecA_read_burst'[3] = PIM_vecA_read_burst[2]
      /\ PIM_vecB_read_burst'[1] = src_B_RD_pass_r
      /\ PIM_vecB_read_burst'[2] = PIM_vecB_read_burst[1]
      /\ PIM_vecB_read_burst'[3] = PIM_vecB_read_burst[2]
      /\ PIM_ALU_proc'[3] = PIM_ALU_proc[2]
      /\ PIM_ALU_proc'[4] = PIM_ALU_proc[3]
  BY <1>0, FlagsStep
<1>2. ~(src_A_RD_pass_r' /\ src_B_RD_pass_r')
  BY <1>1 DEF Cycle
<1>3. ASSUME NEW i \in 1..3
      PROVE  ~(PIM_vecA_read_burst'[i] /\ PIM_vecB_read_burst'[i])
  <2>1. i = 1 \/ i = 2 \/ i = 3
    OBVIOUS
  <2>2. 1 \in 1..3 /\ 2 \in 1..3
    OBVIOUS
  <2> QED BY <1>0, <1>1, <2>1, <2>2, Zenon DEF StageInv
<1>4. ASSUME since' >= 1 PROVE ~src_A_RD_pass_r' /\ ~src_B_RD_pass_r'
  <2>1. 0 \in Nat /\ since' >= 0 + 1
    BY <1>4
  <2> QED BY <1>0, <1>1, <2>1, SinceStep, Zenon
<1>5. ASSUME NEW i \in 1..3, since' >= i + 1
      PROVE  ~PIM_vecA_read_burst'[i] /\ ~PIM_vecB_read_burst'[i]
  <2>1. since >= i
    BY <1>0, <1>5, SinceStep
  <2>2. CASE i = 1
    BY <1>0, <1>1, <2>1, <2>2 DEF StageInv
  <2>3. CASE i = 2
    <3>1. 1 \in 1..3 /\ since >= 1 + 1
      BY <2>1, <2>3
    <3> QED BY <1>0, <1>1, <2>3, <3>1, Zenon DEF StageInv
  <2>4. CASE i = 3
    <3>1. 2 \in 1..3 /\ since >= 2 + 1
      BY <2>1, <2>4
    <3> QED BY <1>0, <1>1, <2>4, <3>1, Zenon DEF StageInv
  <2> QED BY <2>2, <2>3, <2>4
<1>6. ASSUME since' >= 5 PROVE ~PIM_ALU_proc'[3]
  <2>1. 4 \in Nat /\ since' >= 4 + 1
    BY <1>6
  <2>2. since >= 4
    BY <1>0, <2>1, SinceStep, Zenon
  <2>3. 3 \in 1..3 /\ since >= 3 + 1
    BY <2>2
  <2>4. ~PIM_vecA_read_burst[3] /\ ~PIM_vecB_read_burst[3]
    BY <1>0, <2>3, Zenon DEF StageInv
  <2> QED BY <1>0, <1>1, <2>4, Zenon DEF ProcInv
<1>7. ASSUME since' >= 6 PROVE ~PIM_ALU_proc'[4]
  <2>1. 5 \in Nat /\ since' >= 5 + 1
    BY <1>7
  <2>2. since >= 5
    BY <1>0, <2>1, SinceStep, Zenon
  <2> QED BY <1>0, <1>1, <2>2, Zenon DEF StageInv
<1> QED BY <1>2, <1>3, <1>4, <1>5, <1>6, <1>7 DEF StageInv

\* DRAIN cycles after the last beat all stages are empty.
LEMMA Empty ==
  ASSUME Inv, Drained
  PROVE  /\ ~src_A_RD_pass_r /\ ~src_B_RD_pass_r
         /\ \A i \in 1..3 : ~PIM_vecA_read_burst[i] /\ ~PIM_vecB_read_burst[i]
         /\ \A i \in 1..4 : ~PIM_ALU_proc[i]
<1>0. TypeOK /\ StageInv /\ ProcInv
  BY DEF Inv
<1>1. since >= 1 /\ since >= 5 /\ since >= 6 /\ \A i \in 1..3 : since >= i + 1
  BY <1>0, DrainAssumption DEF Drained, TypeOK
<1>2. /\ ~src_A_RD_pass_r /\ ~src_B_RD_pass_r
      /\ \A i \in 1..3 : ~PIM_vecA_read_burst[i] /\ ~PIM_vecB_read_burst[i]
      /\ ~PIM_ALU_proc[3] /\ ~PIM_ALU_proc[4]
  BY <1>0, <1>1, Zenon DEF StageInv
<1>3. 2 \in 1..3 /\ 3 \in 1..3
  OBVIOUS
<1>4. ~PIM_ALU_proc[1] /\ ~PIM_ALU_proc[2]
  BY <1>0, <1>2, <1>3, Zenon DEF ProcInv
<1>5. \A i \in 1..4 : i = 1 \/ i = 2 \/ i = 3 \/ i = 4
  OBVIOUS
<1> QED BY <1>2, <1>4, <1>5, Zenon

\* The multiplier and the adder are told of every beat that adds something.
LEMMA StepProc ==
  ASSUME Inv, NEW isA, NEW isB, NEW isC, NEW x, NEW clear,
         Cycle(isA, isB, isC, x, clear)
  PROVE  ProcInv'
<1>0. TypeOK /\ RegisterTypes /\ ProcInv /\ ConfigInv
  BY DEF Inv
<1>1. /\ PIM_vecA_read_burst'[2] = PIM_vecA_read_burst[1]
      /\ PIM_vecA_read_burst'[3] = PIM_vecA_read_burst[2]
      /\ PIM_vecB_read_burst'[2] = PIM_vecB_read_burst[1]
      /\ PIM_vecB_read_burst'[3] = PIM_vecB_read_burst[2]
      /\ PIM_ALU_proc'[1] = ALU_proc
      /\ PIM_ALU_proc'[2] = PIM_ALU_proc[1]
  BY <1>0, FlagsStep
<1>2. 1 \in 1..3 /\ 2 \in 1..3 /\ 1 \in 1..4
  OBVIOUS
<1>3. ALU_proc <=> PIM_vecB_read_burst[1] \/ (PIM_vecA_read_burst[1] /\ Sums)
  <2>1. PIM_vecA_read_burst[1] => config_rr = bank_config_reg
    BY <1>0, <1>2, Zenon DEF ConfigInv
  <2> QED BY <2>1 DEF ALU_proc, burstA, burstB, is_op, Sums
<1>4. CASE bank_config_reg' = bank_config_reg
  <2>1. Sums' <=> Sums
    BY <1>4 DEF Sums
  <2> QED BY <1>0, <1>1, <1>3, <2>1, Zenon DEF ProcInv
<1>5. CASE Drained
  <2>1. /\ ~PIM_vecA_read_burst[1] /\ ~PIM_vecB_read_burst[1]
        /\ ~PIM_vecA_read_burst[2] /\ ~PIM_vecB_read_burst[2]
        /\ ~PIM_ALU_proc[1]
    BY <1>2, <1>5, Empty, Zenon
  <2> QED BY <1>1, <1>3, <2>1, Zenon DEF ProcInv
<1> QED BY <1>4, <1>5 DEF Cycle

\* Result writes and configurations find the pipeline empty.
LEMMA StepQuiet ==
  ASSUME Inv, NEW isA, NEW isB, NEW isC, NEW x, NEW clear,
         Cycle(isA, isB, isC, x, clear)
  PROVE  QuietInv'
<1>0. TypeOK /\ RegisterTypes /\ QuietInv
  BY DEF Inv
<1>1. PIM_write_burst' = isC
  BY <1>0, FlagsStep
<1>2. ASSUME Drained, ~isA, ~isB PROVE since' >= DRAIN
  BY <1>2 DEF Cycle, Older, Drained
<1>3. isC => since' >= DRAIN /\ expected' = <<>> /\ numB' = 0
  BY <1>2 DEF Cycle
<1>4. ASSUME bank_config_reg'.op = "none" PROVE since' >= DRAIN
  <2>1. CASE bank_config_reg' = bank_config_reg
    <3>1. bank_config_reg.op = "none"
      BY <1>4, <2>1
    <3>2. Drained /\ ~isA /\ ~isB
      BY <1>0, <3>1 DEF QuietInv, Drained, Cycle
    <3> QED BY <1>2, <3>2
  <2>2. CASE Drained /\ ~isA /\ ~isB
    BY <1>2, <2>2
  <2> QED BY <2>1, <2>2 DEF Cycle
<1> QED BY <1>1, <1>3, <1>4 DEF QuietInv

\* A beat takes its configuration along.
LEMMA StepConfig ==
  ASSUME Inv, NEW isA, NEW isB, NEW isC, NEW x, NEW clear,
         Cycle(isA, isB, isC, x, clear)
  PROVE  ConfigInv'
<1>0. TypeOK /\ RegisterTypes /\ ConfigInv
  BY DEF Inv
<1>1. /\ src_A_RD_pass_r' = isA /\ src_B_RD_pass_r' = isB
      /\ PIM_vecA_read_burst'[1] = src_A_RD_pass_r
      /\ PIM_vecA_read_burst'[2] = PIM_vecA_read_burst[1]
      /\ PIM_vecA_read_burst'[3] = PIM_vecA_read_burst[2]
      /\ PIM_vecB_read_burst'[1] = src_B_RD_pass_r
      /\ PIM_vecB_read_burst'[2] = PIM_vecB_read_burst[1]
      /\ PIM_vecB_read_burst'[3] = PIM_vecB_read_burst[2]
  BY <1>0, FlagsStep
<1>2. config_r' = bank_config_reg /\ config_rr' = config_r
  BY DEF Cycle, Clock
<1>3. 1 \in 1..3 /\ 2 \in 1..3 /\ \A i \in 1..3 : i = 1 \/ i = 2 \/ i = 3
  OBVIOUS
<1>4. CASE bank_config_reg' = bank_config_reg
  <2>1. \A i \in 1..3 : PIM_vecA_read_burst'[i] \/ PIM_vecB_read_burst'[i] =>
          config_r = bank_config_reg
    BY <1>0, <1>1, <1>3, Zenon DEF ConfigInv
  <2> QED BY <1>2, <1>4, <2>1 DEF ConfigInv
<1>5. CASE Drained /\ ~isA /\ ~isB
  <2>1. /\ ~src_A_RD_pass_r /\ ~src_B_RD_pass_r
        /\ \A i \in 1..3 : ~PIM_vecA_read_burst[i] /\ ~PIM_vecB_read_burst[i]
    BY <1>5, Empty
  <2>2. \A i \in 1..3 : ~PIM_vecA_read_burst'[i] /\ ~PIM_vecB_read_burst'[i]
    BY <1>1, <1>3, <2>1, Zenon
  <2> QED BY <1>1, <1>5, <2>2, Zenon DEF ConfigInv
<1> QED BY <1>4, <1>5 DEF Cycle

\* The vectors and the counter after a cycle.
LEMMA VectorStep ==
  ASSUME Inv, NEW isA, NEW isB, NEW isC, NEW x, NEW clear,
         Cycle(isA, isB, isC, x, clear)
  PROVE  /\ data_burst_r' = (IF isA \/ isB THEN x ELSE data_burst_r)
         /\ data_burst_rr' = data_burst_r
         /\ vecA' = (IF clear THEN Zero ELSE ComingA)
         /\ burstB => vecB' = data_burst_rr
         /\ burst_cnt' = (IF clear \/ PIM_write_burst THEN 0 ELSE ComingCnt)
         /\ burst_cnt_r' = burst_cnt
         /\ ComingA' = (IF clear THEN Zero ELSE lastA)
<1>0. TypeOK /\ RegisterTypes /\ QuietInv /\ ConfigInv /\ DataInv
  BY DEF Inv
<1>1. /\ data_burst_r' = (IF isA \/ isB THEN x ELSE data_burst_r)
      /\ data_burst_rr' = data_burst_r
      /\ vecA' = (IF clear THEN Zero ELSE IF burstA THEN data_burst_rr ELSE vecA)
      /\ vecB' = (IF clear \/ PIM_write_burst THEN Zero
                  ELSE IF burstB THEN data_burst_rr ELSE vecB)
      /\ burst_cnt' = next_burst_cnt(clear)
      /\ burst_cnt_r' = burst_cnt
  BY DEF Cycle, Clock
<1>2. clear \/ PIM_write_burst => Drained
  BY <1>0 DEF Cycle, QuietInv, Drained
<1>3. 1 \in 1..3
  OBVIOUS
<1>4. Drained => ~burstA /\ ~burstB /\ ~src_A_RD_pass_r
  BY <1>3, Empty, Zenon DEF burstA, burstB
<1>5. vecA' = IF clear THEN Zero ELSE ComingA
  BY <1>1 DEF ComingA
<1>6. burstB => vecB' = data_burst_rr
  BY <1>1, <1>2, <1>4
<1>7. burst_cnt' = IF clear \/ PIM_write_burst THEN 0 ELSE ComingCnt
  <2>1. burstB => config_r = bank_config_reg
    BY <1>0, <1>3, Zenon DEF ConfigInv, burstB
  <2> QED BY <1>1, <2>1 DEF next_burst_cnt, ComingCnt, is_DUP
<1>8. ComingA' = IF clear THEN Zero ELSE lastA
  <2>1. burstA' = src_A_RD_pass_r
    BY <1>0, FlagsStep DEF burstA
  <2>2. ComingA' = IF src_A_RD_pass_r THEN data_burst_r ELSE vecA'
    BY <1>1, <2>1 DEF ComingA
  <2>3. lastA = IF src_A_RD_pass_r THEN data_burst_r ELSE ComingA
    BY <1>0 DEF DataInv
  <2>4. clear => ~src_A_RD_pass_r
    BY <1>2, <1>4
  <2> QED BY <1>5, <2>2, <2>3, <2>4
<1> QED BY <1>1, <1>5, <1>6, <1>7, <1>8

\* A configuration with a beat in the pipeline is not changed.
LEMMA BusyConfig ==
  ASSUME Inv, NEW isA, NEW isB, NEW isC, NEW x, NEW clear,
         Cycle(isA, isB, isC, x, clear), isA \/ isB \/ ~Drained
  PROVE  /\ bank_config_reg' = bank_config_reg /\ (Sums' <=> Sums)
         /\ ~clear /\ ~isC
<1>1. bank_config_reg' = bank_config_reg /\ ~clear /\ ~isC
  BY DEF Cycle
<1> QED BY <1>1 DEF Sums

\* The data keep up with their beats.
LEMMA StepData ==
  ASSUME Inv, NEW isA, NEW isB, NEW isC, NEW x, NEW clear,
         Cycle(isA, isB, isC, x, clear)
  PROVE  DataInv'
<1>0. TypeOK /\ RegisterTypes /\ StageInv /\ DataInv
  BY DEF Inv
<1>1. /\ src_A_RD_pass_r' = isA /\ src_B_RD_pass_r' = isB
      /\ burstA' = src_A_RD_pass_r /\ burstB' = src_B_RD_pass_r
      /\ PIM_vecA_read_burst'[2] = burstA /\ PIM_vecB_read_burst'[2] = burstB
  BY <1>0, FlagsStep DEF burstA, burstB
<1>2. /\ data_burst_r' = (IF isA \/ isB THEN x ELSE data_burst_r)
      /\ data_burst_rr' = data_burst_r
      /\ vecA' = (IF clear THEN Zero ELSE ComingA)
      /\ burstB => vecB' = data_burst_rr
      /\ ComingA' = (IF clear THEN Zero ELSE lastA)
  BY VectorStep
<1>3. lastA' = IF isA THEN x ELSE IF clear THEN Zero ELSE lastA
  BY DEF Cycle
<1>4. 1 \in 1..3
  OBVIOUS
<1>5. Drained => ~burstA /\ ~burstB /\ ~src_A_RD_pass_r /\ ~src_B_RD_pass_r
  BY <1>4, Empty, Zenon DEF burstA, burstB
<1>6. ~(burstA /\ burstB)
  BY <1>0, <1>4, Zenon DEF StageInv, burstA, burstB
<1>7. lastA' = IF src_A_RD_pass_r' THEN data_burst_r' ELSE ComingA'
  BY <1>1, <1>2, <1>3
<1>8. src_A_RD_pass_r' \/ src_B_RD_pass_r' => data_burst_r' \in Vec
  BY <1>1, <1>2 DEF Cycle
<1>9. burstA' \/ burstB' => data_burst_rr' \in Vec
  BY <1>0, <1>1, <1>2 DEF DataInv
<1>10. PIM_vecA_read_burst'[2] => vecA' \in Vec
  <2>1. burstA => ~clear
    BY <1>5, BusyConfig
  <2>2. burstA => data_burst_rr \in Vec
    BY <1>0 DEF DataInv
  <2> QED BY <1>1, <1>2, <2>1, <2>2 DEF ComingA
<1>11. PIM_vecB_read_burst'[2] => vecB' \in Vec
  BY <1>0, <1>1, <1>2 DEF DataInv
<1>12. ~Sums' /\ src_B_RD_pass_r' => ComingA' \in Vec
  <2> SUFFICES ASSUME ~Sums', isB PROVE ComingA' \in Vec
    BY <1>1
  <2>1. ~Sums /\ ~clear
    BY BusyConfig
  <2>2. lastA # Zero /\ lastA \in Word
    BY <1>0, <2>1 DEF Cycle, RegisterTypes
  <2> QED BY <1>2, <2>1, <2>2 DEF Word
<1>13. ~Sums' /\ (burstB' \/ PIM_vecB_read_burst'[2]) => vecA' \in Vec
  <2> SUFFICES ASSUME ~Sums', src_B_RD_pass_r \/ burstB PROVE vecA' \in Vec
    BY <1>1
  <2>1. ~Sums /\ ~clear
    BY <1>5, BusyConfig
  <2>2. CASE src_B_RD_pass_r
    BY <1>0, <1>2, <2>1, <2>2 DEF DataInv
  <2>3. CASE burstB
    <3>1. vecA' = vecA
      BY <1>2, <1>6, <2>1, <2>3 DEF ComingA
    <3>2. vecA \in Vec
      BY <1>0, <2>1, <2>3 DEF DataInv
    <3> QED BY <3>1, <3>2
  <2> QED BY <2>2, <2>3
<1> QED BY <1>7, <1>8, <1>9, <1>10, <1>11, <1>12, <1>13, Zenon DEF DataInv

\* The counter for the beat that is presented.
LEMMA CounterStep ==
  ASSUME Inv, NEW isA, NEW isB, NEW isC, NEW x, NEW clear,
         Cycle(isA, isB, isC, x, clear), ~clear, bank_config_reg' = bank_config_reg
  PROVE  IF bank_config_reg.dup THEN ComingCnt' = numB % LANES ELSE burst_cnt' = 0
<1>0. TypeOK /\ RegisterTypes /\ QuietInv /\ CountInv
  BY DEF Inv
<1>1. burstB' = src_B_RD_pass_r
  BY <1>0, FlagsStep DEF burstB
<1>2. burst_cnt' = IF PIM_write_burst THEN 0 ELSE ComingCnt
  BY VectorStep
<1>3. ComingCnt' = IF bank_config_reg.dup /\ src_B_RD_pass_r THEN (burst_cnt' + 1) % LANES
                   ELSE burst_cnt'
  BY <1>1 DEF ComingCnt
<1>4. CASE PIM_write_burst
  <2>1. Drained /\ numB = 0
    BY <1>0, <1>4 DEF QuietInv, Drained
  <2>2. ~src_B_RD_pass_r
    BY <2>1, Empty
  <2>3. 0 % LANES = 0
    BY CountModulo
  <2> QED BY <1>2, <1>3, <1>4, <2>1, <2>2, <2>3
<1>5. CASE ~PIM_write_burst
  <2>1. CASE bank_config_reg.dup
    <3>1. FollowingCnt = numB % LANES
      BY <1>0, <1>5, <2>1 DEF CountInv
    <3>2. ComingCnt' = FollowingCnt
      BY <1>2, <1>3, <1>5, <2>1 DEF FollowingCnt
    <3> QED BY <2>1, <3>1, <3>2
  <2>2. CASE ~bank_config_reg.dup
    <3>1. burst_cnt = 0
      BY <1>0, <1>5, <2>2 DEF CountInv
    <3> QED BY <1>2, <1>5, <2>2, <3>1 DEF ComingCnt
  <2> QED BY <2>1, <2>2
<1> QED BY <1>4, <1>5

\* The element counter keeps count.
LEMMA StepCount ==
  ASSUME Inv, NEW isA, NEW isB, NEW isC, NEW x, NEW clear,
         Cycle(isA, isB, isC, x, clear)
  PROVE  CountInv'
<1>0. TypeOK /\ RegisterTypes /\ QuietInv /\ CountInv
  BY DEF Inv
<1>1. numB \in Nat /\ Len(expected) \in Nat /\ numB % LANES \in Nat /\ 0 % LANES = 0
  <2>1. numB \in Nat /\ Len(expected) \in Nat
    BY <1>0 DEF TypeOK, RegisterTypes
  <2>2. numB % LANES \in 0..(LANES - 1) /\ 0 % LANES = 0
    BY <2>1, CountModulo
  <2>3. numB % LANES \in Nat
    BY <2>2, LanesAssumption
  <2> QED BY <2>1, <2>2, <2>3
<1>2. numB' = IF isC \/ clear THEN 0 ELSE IF isB THEN numB + 1 ELSE numB
  BY DEF Cycle
<1>3. numB' <= Len(expected')
  <2>1. CASE isC \/ clear
    <3>1. expected' = <<>> /\ numB' = 0
      BY <2>1 DEF Cycle
    <3> QED BY <3>1
  <2>2. CASE ~(isC \/ clear)
    <3> DEFINE t == Product(isA, isB, x, lastA, numB % LANES)
    <3>1. expected' = Added(expected, t)
      BY <2>2 DEF Cycle
    <3>2. isA \in BOOLEAN /\ isB \in BOOLEAN /\ x \in Word /\ (isA \/ isB => x \in Vec)
          /\ ~(isA /\ isB)
      BY DEF Cycle
    <3>3. t \in Term
      BY <1>0, <1>1, <3>2, ProductType DEF RegisterTypes
    <3>4. isB => t # NoTerm
      <4>1. isB => t = OfB(x, lastA, numB % LANES)
        BY <3>2 DEF Product
      <4>2. isB => OfB(x, lastA, numB % LANES) # NoTerm
        BY <1>0, <1>1, <3>2, ProductShape DEF RegisterTypes
      <4> QED BY <4>1, <4>2
    <3> HIDE DEF t
    <3>5. Len(expected') = Len(expected) + (IF t = NoTerm THEN 0 ELSE 1)
      BY <1>0, <3>1, <3>3, AddedShape DEF RegisterTypes
    <3>6. numB <= Len(expected)
      BY <1>0 DEF CountInv
    <3>7. numB' = IF isB THEN numB + 1 ELSE numB
      BY <1>2, <2>2
    <3> QED BY <1>1, <3>4, <3>5, <3>6, <3>7
  <2> QED BY <2>1, <2>2
<1>4. src_B_RD_pass_r' = isB /\ burstB' = src_B_RD_pass_r /\ PIM_write_burst' = isC
  BY <1>0, FlagsStep DEF burstB
<1>5. burst_cnt' = IF clear \/ PIM_write_burst THEN 0 ELSE ComingCnt
  BY VectorStep
<1>6. ASSUME ~isC
      PROVE  IF bank_config_reg'.dup THEN FollowingCnt' = numB' % LANES ELSE burst_cnt' = 0
  <2>1. CASE isA \/ isB \/ ~(clear \/ bank_config_reg' # bank_config_reg)
    <3>1. ~clear /\ bank_config_reg' = bank_config_reg
      BY <2>1, BusyConfig
    <3>2. IF bank_config_reg.dup THEN ComingCnt' = numB % LANES ELSE burst_cnt' = 0
      BY <3>1, CounterStep
    <3>3. FollowingCnt' = IF bank_config_reg.dup /\ isB THEN (ComingCnt' + 1) % LANES
                          ELSE ComingCnt'
      BY <1>4, <3>1 DEF FollowingCnt
    <3>4. ((numB % LANES) + 1) % LANES = (numB + 1) % LANES
      BY <1>1, CountModulo
    <3> QED BY <1>2, <1>6, <3>1, <3>2, <3>3, <3>4
  <2>2. CASE ~isA /\ ~isB /\ (clear \/ bank_config_reg' # bank_config_reg)
    <3>1. Drained
      BY <2>2 DEF Cycle
    <3>2. 1 \in 1..3
      OBVIOUS
    <3>3. ~src_B_RD_pass_r /\ ~burstB
      BY <3>1, <3>2, Empty, Zenon DEF burstB
    <3>4. FollowingCnt' = burst_cnt'
      BY <1>4, <2>2, <3>3 DEF FollowingCnt, ComingCnt
    <3>5. CASE clear \/ PIM_write_burst
      <4>1. burst_cnt' = 0
        BY <1>5, <3>5
      <4>2. numB' = 0
        BY <1>0, <1>2, <2>2, <3>5 DEF QuietInv
      <4> QED BY <1>1, <3>4, <4>1, <4>2
    <3>6. CASE ~clear /\ ~PIM_write_burst
      <4>1. expected = <<>>
        BY <2>2, <3>6 DEF Cycle
      <4>2. Len(expected) = 0
        BY <4>1
      <4>3. numB = 0
        BY <1>0, <1>1, <4>2 DEF CountInv
      <4>4. burst_cnt = 0
        <5>1. FollowingCnt = burst_cnt
          BY <3>3 DEF FollowingCnt, ComingCnt
        <5> QED BY <1>0, <1>1, <3>6, <4>3, <5>1 DEF CountInv
      <4>5. burst_cnt' = 0
        BY <1>5, <3>3, <3>6, <4>4 DEF ComingCnt
      <4>6. numB' = 0
        BY <1>2, <1>6, <2>2, <3>6, <4>3
      <4> QED BY <1>1, <3>4, <4>5, <4>6
    <3> QED BY <3>5, <3>6
  <2> QED BY <2>1, <2>2
<1> QED BY <1>3, <1>4, <1>6 DEF CountInv

-----------------------------------------------------------------------------
(***************************************************************************)
(* The products move on by one stage per cycle.                            *)
(***************************************************************************)
\* An operation that is no sum does not negate; the operation of a sum is ADD
\* or SUB, and takes each lane's own element.
LEMMA Operations ==
  ASSUME Inv, ~Drained
  PROVE  /\ bank_config_reg.startA \in BOOLEAN /\ bank_config_reg.startB \in BOOLEAN
         /\ Sums <=> bank_config_reg.op \in {"ADD", "SUB"}
         /\ Sums => ~bank_config_reg.dup
         /\ ~Sums => bank_config_reg.op # "SUB"
<1>1. bank_config_reg.op # "none" /\ bank_config_reg \in Config \cup {NoConfig}
  BY DEF Inv, QuietInv, RegisterTypes, Drained
<1>2. bank_config_reg \in Config
  BY <1>1 DEF NoConfig
<1>3. /\ bank_config_reg.startA \in BOOLEAN /\ bank_config_reg.startB \in BOOLEAN
      /\ bank_config_reg.op \in {"MAC", "MUL", "ADD", "SUB", "none"}
      /\ bank_config_reg.op \in {"ADD", "SUB"} => ~bank_config_reg.dup
  BY <1>2, ConfigAssumption
<1> QED BY <1>1, <1>3 DEF Sums

\* The stages of an idle pipeline are empty.
LEMMA NothingComing ==
  ASSUME Inv, Drained
  PROVE  /\ Stage1 = NoTerm /\ Stage2 = NoTerm /\ Stage3 = NoTerm
         /\ Stage4 = NoTerm /\ Stage5 = NoTerm
<1>1. 1 \in 1..3 /\ 2 \in 1..3 /\ 2 \in 1..4 /\ 3 \in 1..4
  OBVIOUS
<1>2. /\ ~src_A_RD_pass_r /\ ~src_B_RD_pass_r
      /\ ~burstA /\ ~burstB
      /\ ~PIM_vecA_read_burst[2] /\ ~PIM_vecB_read_burst[2]
      /\ ~PIM_ALU_proc[2] /\ ~PIM_ALU_proc[3]
  BY <1>1, Empty, Zenon DEF burstA, burstB
<1> QED BY <1>2 DEF Stage1, Stage2, Stage3, Stage4, Stage5, Product

\* From the layout stage to the multiplier: the operands, and the sign, are
\* those of the beat's own product.
LEMMA IntoMultiplier ==
  ASSUME Inv, NEW isA, NEW isB, NEW isC, NEW x, NEW clear,
         Cycle(isA, isB, isC, x, clear), isA \/ isB \/ ~Drained
  PROVE  Stage4' = Stage3
<1>0. TypeOK /\ RegisterTypes /\ StageInv /\ ProcInv /\ ConfigInv /\ DataInv
  BY DEF Inv
<1>1. /\ PIM_vecA_read_burst'[3] = PIM_vecA_read_burst[2]
      /\ PIM_vecB_read_burst'[3] = PIM_vecB_read_burst[2]
      /\ PIM_ALU_proc'[2] = PIM_ALU_proc[1]
  BY <1>0, FlagsStep
<1>2. config_rr' = config_r /\ alu_src_r' = alu_src
  BY DEF Cycle, Clock
<1>3. 2 \in 1..3 /\ ~(PIM_vecA_read_burst[2] /\ PIM_vecB_read_burst[2])
  BY <1>0 DEF StageInv
<1>4. PIM_vecA_read_burst[2] \in BOOLEAN /\ PIM_vecB_read_burst[2] \in BOOLEAN
  BY <1>0, <1>3 DEF TypeOK
<1>5. CASE ~PIM_ALU_proc[1]
  <2>1. ~PIM_vecB_read_burst[2] /\ ~(PIM_vecA_read_burst[2] /\ Sums)
    BY <1>0, <1>5, Zenon DEF ProcInv
  <2>2. Stage3 = NoTerm
    BY <2>1 DEF Stage3, Product, OfA
  <2> QED BY <1>1, <1>5, <2>2 DEF Stage4
<1>6. CASE PIM_ALU_proc[1]
  <2>1. PIM_vecB_read_burst[2] \/ (PIM_vecA_read_burst[2] /\ Sums)
    BY <1>0, <1>6, Zenon DEF ProcInv
  <2>2. config_r = bank_config_reg
    BY <1>0, <1>3, <2>1, Zenon DEF ConfigInv
  <2>3. ~Drained
    BY <1>3, <2>1, Empty, Zenon
  <2>4. /\ bank_config_reg.startA \in BOOLEAN /\ bank_config_reg.startB \in BOOLEAN
        /\ Sums <=> bank_config_reg.op \in {"ADD", "SUB"}
        /\ Sums => ~bank_config_reg.dup
        /\ ~Sums => bank_config_reg.op # "SUB"
    BY <2>3, Operations
  <2> DEFINE fromA == PIM_vecA_read_burst[2]
             fromB == PIM_vecB_read_burst[2]
             sa == IF bank_config_reg.dup THEN Element(vecA, burst_cnt_r) ELSE Own(vecA)
             sb == IF fromB THEN Own(vecB) ELSE Zero
             a == IF Sums /\ fromB THEN One ELSE sa
             b == IF Sums /\ fromA THEN One ELSE sb
             neg == bank_config_reg.op = "SUB" /\ ((bank_config_reg.startA /\ fromA)
                                                   \/ (bank_config_reg.startB /\ fromB))
  <2>5. alu_src = [a |-> sa, b |-> sb]
    BY <2>2 DEF alu_src, is_DUP
  <2>6. MUL0_out' = IF a = Zero \/ b = Zero THEN NoTerm
                    ELSE [a |-> a, b |-> b, neg |-> neg]
    <3>1. alu_src_r'.a = sa /\ alu_src_r'.b = sb
      BY <1>2, <2>5
    <3>2. config_rr' = bank_config_reg
      BY <1>2, <2>2
    <3>3. /\ is_op({"ADD", "SUB"})' <=> Sums
          /\ is_op({"SUB"})' <=> bank_config_reg.op = "SUB"
      BY <2>4, <3>2 DEF is_op
    <3> HIDE DEF sa, sb
    <3> QED BY <1>1, <3>1, <3>2, <3>3 DEF MUL0_out
  <2>7. Stage4' = MUL0_out'
    BY <1>1, <1>6 DEF Stage4
  <2>8. CASE fromA
    <3>1. Sums /\ ~fromB /\ vecA \in Vec
      BY <1>0, <1>3, <2>1, <2>8 DEF DataInv
    <3>2. a = Own(vecA) /\ b = One /\ a # Zero /\ b # Zero
      BY <2>4, <2>8, <3>1, NotZero
    <3>3. neg = (bank_config_reg.op = "SUB" /\ bank_config_reg.startA)
      BY <2>4, <2>8, <3>1
    <3>4. Stage3 = OfA(vecA)
      BY <2>8 DEF Stage3, Product
    <3> HIDE DEF a, b, neg
    <3>5. Stage3 = [a |-> a, b |-> b, neg |-> neg]
      BY <3>1, <3>2, <3>3, <3>4 DEF OfA
    <3> QED BY <2>6, <2>7, <3>2, <3>5
  <2>9. CASE fromB /\ ~fromA
    <3>1. vecB \in Vec /\ (~Sums => vecA \in Vec)
      BY <1>0, <2>9 DEF DataInv
    <3>2. b = Own(vecB) /\ b # Zero
      BY <2>9, <3>1, NotZero
    <3>3. Stage3 = OfB(vecB, vecA, burst_cnt_r)
      BY <2>9 DEF Stage3, Product
    <3>4. CASE Sums
      <4>1. a = One /\ a # Zero
        BY <2>9, <3>1, <3>4, NotZero
      <4>2. neg = (bank_config_reg.op = "SUB" /\ bank_config_reg.startB)
        BY <2>4, <2>9
      <4> HIDE DEF a, b, neg
      <4>3. Stage3 = [a |-> a, b |-> b, neg |-> neg]
        BY <2>4, <3>2, <3>3, <3>4, <4>1, <4>2 DEF OfB
      <4> QED BY <2>6, <2>7, <3>2, <4>1, <4>3
    <3>5. CASE ~Sums
      <4>1. a = sa /\ a # Zero
        BY <3>1, <3>5, NotZero
      <4>2. neg = FALSE
        BY <2>4, <3>5
      <4>3. Stage3 = [a |-> sa, b |-> Own(vecB), neg |-> FALSE]
        BY <2>4, <3>3, <3>5 DEF OfB
      <4> HIDE DEF a, b, neg, sa
      <4>4. Stage3 = [a |-> a, b |-> b, neg |-> neg]
        BY <3>2, <4>1, <4>2, <4>3
      <4> QED BY <2>6, <2>7, <3>2, <4>1, <4>4
    <3> QED BY <3>4, <3>5
  <2> QED BY <2>1, <2>8, <2>9
<1> QED BY <1>5, <1>6

\* From the vector registers' inputs to the layout stage.
LEMMA IntoLayout ==
  ASSUME Inv, NEW isA, NEW isB, NEW isC, NEW x, NEW clear,
         Cycle(isA, isB, isC, x, clear), isA \/ isB \/ ~Drained
  PROVE  Stage3' = Stage2
<1>0. TypeOK /\ RegisterTypes /\ StageInv
  BY DEF Inv
<1>1. /\ PIM_vecA_read_burst'[2] = burstA /\ PIM_vecB_read_burst'[2] = burstB
  BY <1>0, FlagsStep DEF burstA, burstB
<1>2. bank_config_reg' = bank_config_reg /\ ~clear
  BY BusyConfig
<1>3. /\ vecA' = ComingA /\ burst_cnt_r' = burst_cnt
      /\ burstB => vecB' = data_burst_rr
  BY <1>2, VectorStep
<1>4. 1 \in 1..3
  OBVIOUS
<1>5. ~(burstA /\ burstB)
  BY <1>0, <1>4, Zenon DEF StageInv, burstA, burstB
<1>6. CASE burstA
  <2>1. Stage3' = OfA(data_burst_rr)
    BY <1>1, <1>2, <1>3, <1>6 DEF Stage3, Product, ComingA, OfA, Sums
  <2> QED BY <1>6, <2>1 DEF Stage2, Product
<1>7. CASE burstB
  <2>1. Stage3' = OfB(data_burst_rr, vecA, burst_cnt)
    BY <1>1, <1>2, <1>3, <1>5, <1>7 DEF Stage3, Product, ComingA, OfB
  <2> QED BY <1>5, <1>7, <2>1 DEF Stage2, Product
<1>8. CASE ~burstA /\ ~burstB
  BY <1>1, <1>8 DEF Stage3, Stage2, Product
<1> QED BY <1>6, <1>7, <1>8

\* From the bus register to the inputs of the vector registers, with the vector
\* and the counter that the beats before it leave.
LEMMA IntoVectors ==
  ASSUME Inv, NEW isA, NEW isB, NEW isC, NEW x, NEW clear,
         Cycle(isA, isB, isC, x, clear), isA \/ isB \/ ~Drained
  PROVE  Stage2' = Stage1
<1>0. TypeOK /\ RegisterTypes /\ StageInv /\ QuietInv
  BY DEF Inv
<1>1. burstA' = src_A_RD_pass_r /\ burstB' = src_B_RD_pass_r
  BY <1>0, FlagsStep DEF burstA, burstB
<1>2. bank_config_reg' = bank_config_reg /\ ~clear
  BY BusyConfig
<1>3. /\ vecA' = ComingA /\ data_burst_rr' = data_burst_r
      /\ ~PIM_write_burst => burst_cnt' = ComingCnt
  BY <1>2, VectorStep
<1>4. ~(src_A_RD_pass_r /\ src_B_RD_pass_r)
  BY <1>0 DEF StageInv
<1>5. CASE src_A_RD_pass_r
  <2>1. Stage2' = OfA(data_burst_r)
    BY <1>1, <1>2, <1>3, <1>5 DEF Stage2, Product, OfA, Sums
  <2> QED BY <1>5, <2>1 DEF Stage1, Product
<1>6. CASE src_B_RD_pass_r
  <2>1. ~PIM_write_burst
    BY <1>0, <1>6, Empty DEF QuietInv, Drained
  <2>2. Stage2' = OfB(data_burst_r, ComingA, ComingCnt)
    BY <1>1, <1>2, <1>3, <1>4, <1>6, <2>1 DEF Stage2, Product, OfB
  <2> QED BY <1>4, <1>6, <2>2 DEF Stage1, Product
<1>7. CASE ~src_A_RD_pass_r /\ ~src_B_RD_pass_r
  BY <1>1, <1>7 DEF Stage2, Stage1, Product
<1> QED BY <1>5, <1>6, <1>7

\* A beat enters with the vector A and the element that go with it.
LEMMA FromBus ==
  ASSUME Inv, NEW isA, NEW isB, NEW isC, NEW x, NEW clear,
         Cycle(isA, isB, isC, x, clear), isA \/ isB \/ ~Drained
  PROVE  Stage1' = Product(isA, isB, x, lastA, numB % LANES)
<1>0. TypeOK /\ RegisterTypes
  BY DEF Inv
<1>1. src_A_RD_pass_r' = isA /\ src_B_RD_pass_r' = isB
  BY <1>0, FlagsStep
<1>2. bank_config_reg' = bank_config_reg /\ ~clear
  BY BusyConfig
<1>3. ComingA' = lastA /\ data_burst_r' = IF isA \/ isB THEN x ELSE data_burst_r
  BY <1>2, VectorStep
<1>4. bank_config_reg.dup => ComingCnt' = numB % LANES
  BY <1>2, CounterStep
<1>5. CASE isA
  <2>1. Stage1' = OfA(x)
    BY <1>1, <1>2, <1>3, <1>5 DEF Stage1, Product, OfA, Sums
  <2> QED BY <1>5, <2>1 DEF Product
<1>6. CASE isB /\ ~isA
  <2>1. Stage1' = OfB(x, lastA, numB % LANES)
    BY <1>1, <1>2, <1>3, <1>4, <1>6 DEF Stage1, Product, OfB
  <2> QED BY <1>6, <2>1 DEF Product
<1>7. CASE ~isA /\ ~isB
  BY <1>1, <1>7 DEF Stage1, Product
<1> QED BY <1>5, <1>6, <1>7

\* The adder adds what the multiplier had for it.
LEMMA IntoAdder ==
  ASSUME Inv, NEW isA, NEW isB, NEW isC, NEW x, NEW clear,
         Cycle(isA, isB, isC, x, clear), isA \/ isB \/ ~Drained
  PROVE  /\ Stage5' = Stage4
         /\ Accumulator' = Added(Accumulator, Stage5)
<1>0. TypeOK /\ RegisterTypes /\ QuietInv
  BY DEF Inv
<1>1. PIM_ALU_proc'[3] = PIM_ALU_proc[2] /\ PIM_write_burst' = isC
  BY <1>0, FlagsStep
<1>2. ~clear /\ ~isC
  BY BusyConfig
<1>3. ADD0_in' = MUL0_out /\ vACC' = next_vACC(clear)
  BY DEF Cycle, Clock
<1>4. Stage5' = Stage4
  BY <1>1, <1>3 DEF Stage5, Stage4
<1>5. Accumulator' = vACC'
  BY <1>1, <1>2 DEF Accumulator
<1>6. CASE PIM_write_burst
  <2>1. Drained
    BY <1>0, <1>6 DEF QuietInv, Drained
  <2>2. Stage5 = NoTerm
    BY <2>1, NothingComing
  <2> QED BY <1>3, <1>4, <1>5, <1>6, <2>2 DEF Accumulator, Added, next_vACC
<1>7. CASE ~PIM_write_burst
  BY <1>2, <1>3, <1>4, <1>5, <1>7 DEF Accumulator, Added, next_vACC, Stage5
<1> QED BY <1>6, <1>7

\* A cycle of an idle pipeline leaves it empty.
LEMMA IdleCycle ==
  ASSUME Inv, NEW isA, NEW isB, NEW isC, NEW x, NEW clear,
         Cycle(isA, isB, isC, x, clear), Drained, ~isA, ~isB
  PROVE  /\ Stage1' = NoTerm /\ Stage2' = NoTerm /\ Stage3' = NoTerm
         /\ Stage4' = NoTerm /\ Stage5' = NoTerm
         /\ Accumulator' = IF isC \/ clear THEN <<>> ELSE Accumulator
<1>0. TypeOK /\ RegisterTypes /\ QuietInv
  BY DEF Inv
<1>1. 1 \in 1..3 /\ 2 \in 1..3 /\ 1 \in 1..4 /\ 2 \in 1..4 /\ 3 \in 1..4
  OBVIOUS
<1>2. /\ ~src_A_RD_pass_r /\ ~src_B_RD_pass_r
      /\ ~burstA /\ ~burstB
      /\ ~PIM_ALU_proc[1] /\ ~PIM_ALU_proc[2] /\ ~PIM_ALU_proc[3]
  BY <1>1, Empty, Zenon DEF burstA, burstB
<1>3. /\ ~src_A_RD_pass_r' /\ ~src_B_RD_pass_r' /\ PIM_write_burst' = isC
      /\ ~burstA' /\ ~burstB'
      /\ ~PIM_vecA_read_burst'[2] /\ ~PIM_vecB_read_burst'[2]
      /\ ~PIM_ALU_proc'[2] /\ ~PIM_ALU_proc'[3]
  BY <1>0, <1>2, FlagsStep DEF burstA, burstB
<1>4. /\ Stage1' = NoTerm /\ Stage2' = NoTerm /\ Stage3' = NoTerm
      /\ Stage4' = NoTerm /\ Stage5' = NoTerm
  BY <1>3 DEF Stage1, Stage2, Stage3, Stage4, Stage5, Product
<1>5. vACC' = next_vACC(clear)
  BY DEF Cycle, Clock
<1>6. Accumulator' = IF isC \/ clear THEN <<>> ELSE Accumulator
  BY <1>2, <1>3, <1>5 DEF Accumulator, next_vACC
<1> QED BY <1>4, <1>6

\* What is added and coming stays what is expected.
LEMMA StepChain ==
  ASSUME Inv, NEW isA, NEW isB, NEW isC, NEW x, NEW clear,
         Cycle(isA, isB, isC, x, clear)
  PROVE  ChainInv'
<1>0. ChainInv
  BY DEF Inv
<1>1. expected' = IF isC \/ clear THEN <<>>
                  ELSE Added(expected, Product(isA, isB, x, lastA, numB % LANES))
  BY DEF Cycle
<1>2. CASE isA \/ isB \/ ~Drained
  <2>1. ~clear /\ ~isC
    BY <1>2, BusyConfig
  <2>2. Stage5' = Stage4 /\ Accumulator' = Added(Accumulator, Stage5)
    BY <1>2, IntoAdder
  <2>3. Stage4' = Stage3
    BY <1>2, IntoMultiplier
  <2>4. Stage3' = Stage2
    BY <1>2, IntoLayout
  <2>5. Stage2' = Stage1
    BY <1>2, IntoVectors
  <2>6. Stage1' = Product(isA, isB, x, lastA, numB % LANES)
    BY <1>2, FromBus
  <2>7. expected' = Added(expected, Stage1')
    BY <1>1, <2>1, <2>6
  <2>8. expected' = Added(Added(Added(Added(Added(Added(Accumulator, Stage5), Stage4),
                                            Stage3), Stage2), Stage1), Stage1')
    BY <1>0, <2>7 DEF ChainInv
  <2>9. expected' = Added(Added(Added(Added(Added(Accumulator', Stage5'), Stage4'),
                                      Stage3'), Stage2'), Stage1')
    BY <2>2, <2>3, <2>4, <2>5, <2>8, Zenon
  <2> QED BY <2>9, Zenon DEF ChainInv, Added
<1>3. CASE ~isA /\ ~isB /\ Drained
  <2>1. expected = Accumulator
    BY <1>0, <1>3, NothingComing DEF ChainInv, Added
  <2>2. Product(isA, isB, x, lastA, numB % LANES) = NoTerm
    BY <1>3 DEF Product
  <2>3. expected' = IF isC \/ clear THEN <<>> ELSE expected
    BY <1>1, <2>2 DEF Added
  <2>4. /\ Stage1' = NoTerm /\ Stage2' = NoTerm /\ Stage3' = NoTerm
        /\ Stage4' = NoTerm /\ Stage5' = NoTerm
        /\ Accumulator' = IF isC \/ clear THEN <<>> ELSE Accumulator
    BY <1>3, IdleCycle
  <2> QED BY <2>1, <2>3, <2>4 DEF ChainInv, Added
<1> QED BY <1>2, <1>3

\* The result register keeps following the accumulator.
LEMMA StepResult ==
  ASSUME Inv, NEW isA, NEW isB, NEW isC, NEW x, NEW clear,
         Cycle(isA, isB, isC, x, clear)
  PROVE  ResultInv' /\ ResultExact'
<1>0. TypeOK /\ RegisterTypes /\ QuietInv /\ ChainInv /\ ResultInv
  BY DEF Inv
<1>1. PIM_write_burst' = isC /\ PIM_ALU_proc'[4] = PIM_ALU_proc[3]
  BY <1>0, FlagsStep
<1>2. /\ vACC' = next_vACC(clear)
      /\ PIM_result' = IF PIM_write_burst THEN <<>>
                       ELSE IF PIM_ALU_proc[4] THEN vACC
                       ELSE PIM_result
  BY DEF Cycle, Clock
<1>3. ResultInv'
  <2> SUFFICES ASSUME ~PIM_write_burst', ~PIM_ALU_proc'[4], vACC' # <<>>
               PROVE  PIM_result' = vACC'
    BY DEF ResultInv
  <2>1. ~PIM_write_burst /\ ~clear /\ vACC' = vACC
    BY <1>1, <1>2 DEF next_vACC
  <2> QED BY <1>0, <1>2, <2>1 DEF ResultInv
<1>4. ResultExact'
  <2>1. CASE isC
    <3>1. Drained /\ expected # <<>>
      BY <2>1 DEF Cycle
    <3>2. ~PIM_write_burst
      BY <1>0, <3>1 DEF QuietInv
    <3>3. expected = vACC
      BY <1>0, <3>1, <3>2, NothingComing DEF ChainInv, Added, Accumulator
    <3>4. 4 \in 1..4
      OBVIOUS
    <3>5. ~PIM_ALU_proc[4]
      BY <3>1, <3>4, Empty, Zenon
    <3>6. PIM_result = expected
      BY <1>0, <3>1, <3>2, <3>3, <3>5 DEF ResultInv
    <3>7. written' = [got |-> PIM_result, want |-> expected]
      BY <2>1 DEF Cycle
    <3> QED BY <3>6, <3>7 DEF ResultExact
  <2>2. CASE ~isC
    BY <2>2 DEF Cycle, NoResult, ResultExact
  <2> QED BY <2>1, <2>2
<1> QED BY <1>3, <1>4

-----------------------------------------------------------------------------
(***************************************************************************)
(* The theorems.                                                           *)
(***************************************************************************)
\* The state of the registers after a reset.
LEMMA Initially ==
  ASSUME Init
  PROVE  Inv
<1>1. Zero \in Word /\ Zero \in Number /\ NoTerm \in Term
  <2>1. Zero \in Word
    BY DEF Word
  <2> QED BY <2>1, NumberTypes
<1>2. 0 % LANES = 0 /\ 0 \in 0..(LANES - 1)
  BY CountModulo, LanesAssumption
<1>3. TypeOK
  <2>1. /\ <<FALSE, FALSE, FALSE>> \in [1..3 -> BOOLEAN]
        /\ <<FALSE, FALSE, FALSE, FALSE>> \in [1..4 -> BOOLEAN]
    <3>1. /\ <<FALSE, FALSE, FALSE>> \in Seq(BOOLEAN)
          /\ <<FALSE, FALSE, FALSE, FALSE>> \in Seq(BOOLEAN)
          /\ Len(<<FALSE, FALSE, FALSE>>) = 3 /\ Len(<<FALSE, FALSE, FALSE, FALSE>>) = 4
      OBVIOUS
    <3> QED BY <3>1, LenProperties
  <2>2. DRAIN \in 0..DRAIN /\ 0 \in 0..MAX_BEATS
    BY DrainAssumption, BeatsAssumption
  <2> QED BY <1>2, <2>1, <2>2 DEF TypeOK, Init
<1>4. RegisterTypes
  <2>1. <<>> \in Seq(Term)
    OBVIOUS
  <2>2. [a |-> Zero, b |-> Zero] \in [a: Number, b: Number]
    BY <1>1
  <2> QED BY <1>1, <2>1, <2>2 DEF RegisterTypes, Init
<1>5. \A i \in 1..3 : ~PIM_vecA_read_burst[i] /\ ~PIM_vecB_read_burst[i]
  <2>1. \A i \in 1..3 : i = 1 \/ i = 2 \/ i = 3
    OBVIOUS
  <2>2. /\ ~PIM_vecA_read_burst[1] /\ ~PIM_vecA_read_burst[2] /\ ~PIM_vecA_read_burst[3]
        /\ ~PIM_vecB_read_burst[1] /\ ~PIM_vecB_read_burst[2] /\ ~PIM_vecB_read_burst[3]
    BY DEF Init
  <2> QED BY <2>1, <2>2, Zenon
<1>6. \A i \in 1..4 : ~PIM_ALU_proc[i]
  <2>1. \A i \in 1..4 : i = 1 \/ i = 2 \/ i = 3 \/ i = 4
    OBVIOUS
  <2>2. ~PIM_ALU_proc[1] /\ ~PIM_ALU_proc[2] /\ ~PIM_ALU_proc[3] /\ ~PIM_ALU_proc[4]
    BY DEF Init
  <2> QED BY <2>1, <2>2, Zenon
<1>7. /\ 1 \in 1..3 /\ 2 \in 1..3 /\ 3 \in 1..3
      /\ 1 \in 1..4 /\ 2 \in 1..4 /\ 3 \in 1..4 /\ 4 \in 1..4
  OBVIOUS
<1>8. ~burstA /\ ~burstB /\ ~src_A_RD_pass_r /\ ~src_B_RD_pass_r
  BY <1>5, <1>7 DEF Init, burstA, burstB
<1>9. StageInv /\ ProcInv /\ ConfigInv
  BY <1>5, <1>6, <1>7, <1>8, Zenon DEF StageInv, ProcInv, ConfigInv
<1>10. QuietInv
  BY DrainAssumption DEF QuietInv, Init
<1>11. DataInv
  BY <1>5, <1>7, <1>8 DEF DataInv, Init, ComingA
<1>12. CountInv
  BY <1>2 DEF CountInv, Init, NoConfig
<1>13. ChainInv
  <2>1. Stage1 = NoTerm /\ Stage2 = NoTerm /\ Stage3 = NoTerm
    BY <1>5, <1>7, <1>8 DEF Stage1, Stage2, Stage3, Product
  <2>2. Stage4 = NoTerm /\ Stage5 = NoTerm
    BY <1>6, <1>7 DEF Stage4, Stage5
  <2> QED BY <2>1, <2>2 DEF ChainInv, Added, Accumulator, Init
<1>14. ResultInv /\ ResultExact
  BY DEF ResultInv, ResultExact, Init, NoResult
<1> QED BY <1>3, <1>4, <1>9, <1>10, <1>11, <1>12, <1>13, <1>14 DEF Inv

\* The invariant holds throughout: in every cycle each beat is in one stage,
\* with its data, its configuration and its element of A, and the products in
\* the stages are the ones the accumulator lacks (bank_top_GDDR6.v).
THEOREM Inductive == Spec => []Inv
<1>1. Init => Inv
  BY Initially
<1>2. Inv /\ [Next]_vars => Inv'
  <2> SUFFICES ASSUME Inv, [Next]_vars PROVE Inv'
    OBVIOUS
  <2>1. CASE UNCHANGED vars
    <3> USE <2>1 DEF vars, regs, host
    <3>1. TypeOK' /\ RegisterTypes'
      BY DEF Inv, TypeOK, RegisterTypes
    <3>2. burstA' = burstA /\ burstB' = burstB /\ Sums' = Sums
      BY DEF burstA, burstB, Sums
    <3>3. ComingA' = ComingA /\ ComingCnt' = ComingCnt /\ FollowingCnt' = FollowingCnt
      BY <3>2 DEF ComingA, ComingCnt, FollowingCnt
    <3>4. StageInv' /\ QuietInv' /\ ConfigInv' /\ ResultInv' /\ ResultExact'
      BY DEF Inv, StageInv, QuietInv, ConfigInv, ResultInv, ResultExact
    <3>5. ProcInv' /\ DataInv' /\ CountInv'
      BY <3>2, <3>3 DEF Inv, ProcInv, DataInv, CountInv
    <3>6. /\ Stage1' = Stage1 /\ Stage2' = Stage2 /\ Stage3' = Stage3
      BY <3>2, <3>3 DEF Stage1, Stage2, Stage3, Product, OfA, OfB
    <3>7. Stage4' = Stage4 /\ Stage5' = Stage5 /\ Accumulator' = Accumulator
      BY DEF Stage4, Stage5, Accumulator, MUL0_out, is_op
    <3>8. ChainInv'
      BY <3>6, <3>7 DEF Inv, ChainInv, Added
    <3> QED BY <3>1, <3>4, <3>5, <3>8 DEF Inv
  <2>2. CASE Reset
    <3>1. Init'
      BY <2>2, Zenon DEF Reset, Init
    <3>2. (Init => Inv)'
      BY Initially, PTL
    <3> QED BY <3>1, <3>2
  <2>3. CASE Next /\ ~Reset
    <3>0. TypeOK /\ RegisterTypes
      BY DEF Inv
    <3>1. PICK isA, isB, isC, x, clear : Cycle(isA, isB, isC, x, clear)
      BY <2>3, <3>0, IsCycle
    <3>2. TypeOK' /\ RegisterTypes'
      BY <3>1, StepTypes
    <3>3. StageInv' /\ ProcInv'
      BY <3>1, StepStages, StepProc
    <3>4. QuietInv' /\ ConfigInv'
      BY <3>1, StepQuiet, StepConfig
    <3>5. DataInv' /\ CountInv'
      BY <3>1, StepData, StepCount
    <3>6. ChainInv' /\ ResultInv' /\ ResultExact'
      BY <3>1, StepChain, StepResult
    <3> QED BY <3>2, <3>3, <3>4, <3>5, <3>6, Zenon DEF Inv
  <2> QED BY <2>1, <2>2, <2>3
<1> QED BY <1>1, <1>2, PTL DEF Spec

\* A result written to memory is the sum of exactly the products of the beats
\* since the result before it, in order, whatever the interleaving of beats,
\* idle cycles, configurations and clears, for any number of lanes and beats.
THEOREM ResultCorrect == Spec => []ResultExact
<1>1. Inv => ResultExact
  BY DEF Inv
<1> QED BY <1>1, Inductive, PTL

\* Adding keeps what is there.
LEMMA Grows ==
  ASSUME NEW s \in Seq(Term), NEW u \in Seq(Term), NEW t \in Term,
         Len(s) <= Len(u), \A i \in 1..Len(s) : u[i] = s[i]
  PROVE  /\ Added(u, t) \in Seq(Term) /\ Len(s) <= Len(Added(u, t))
         /\ \A i \in 1..Len(s) : Added(u, t)[i] = s[i]
<1>1. /\ Added(u, t) \in Seq(Term)
      /\ Len(Added(u, t)) = Len(u) + (IF t = NoTerm THEN 0 ELSE 1)
      /\ \A i \in 1..Len(u) : Added(u, t)[i] = u[i]
  BY AddedShape
<1>2. Len(s) \in Nat /\ Len(u) \in Nat
  BY LenProperties
<1>3. \A i \in 1..Len(s) : i \in 1..Len(u)
  BY <1>2
<1>4. Len(s) <= Len(Added(u, t))
  BY <1>1, <1>2
<1> QED BY <1>1, <1>3, <1>4

\* The products in the stages are products.
LEMMA StageTypes ==
  ASSUME Inv
  PROVE  /\ Stage1 \in Term /\ Stage2 \in Term /\ Stage3 \in Term
         /\ Stage4 \in Term /\ Stage5 \in Term
<1>0. TypeOK /\ RegisterTypes /\ DataInv
  BY DEF Inv
<1>1. /\ burst_cnt \in Nat /\ burst_cnt_r \in Nat /\ ComingCnt \in Nat
  <2>1. burst_cnt \in Nat /\ burst_cnt_r \in Nat
    BY <1>0, LanesAssumption DEF TypeOK
  <2>2. (burst_cnt + 1) % LANES \in Nat
    BY <2>1, LanesAssumption
  <2> QED BY <2>1, <2>2 DEF ComingCnt
<1>2. 1 \in 1..3 /\ 2 \in 1..3
  OBVIOUS
<1>3. /\ burstA \in BOOLEAN /\ burstB \in BOOLEAN
      /\ PIM_vecA_read_burst[2] \in BOOLEAN /\ PIM_vecB_read_burst[2] \in BOOLEAN
  BY <1>0, <1>2 DEF TypeOK, burstA, burstB
<1>4. ComingA \in Word
  BY <1>0 DEF ComingA, RegisterTypes
<1>5. Stage1 \in Term
  <2>1. /\ src_A_RD_pass_r \in BOOLEAN /\ src_B_RD_pass_r \in BOOLEAN
        /\ data_burst_r \in Word
        /\ src_A_RD_pass_r \/ src_B_RD_pass_r => data_burst_r \in Vec
    BY <1>0 DEF RegisterTypes, DataInv
  <2> QED BY <1>0, <1>1, <1>4, <2>1, ProductType DEF Stage1
<1>6. Stage2 \in Term
  <2>1. /\ data_burst_rr \in Word /\ vecA \in Word
        /\ burstA \/ burstB => data_burst_rr \in Vec
    BY <1>0 DEF RegisterTypes, DataInv
  <2> QED BY <1>0, <1>1, <1>3, <2>1, ProductType DEF Stage2
<1>7. Stage3 \in Term
  <2> DEFINE x == IF PIM_vecA_read_burst[2] THEN vecA ELSE vecB
  <2>1. /\ x \in Word /\ vecA \in Word
        /\ PIM_vecA_read_burst[2] \/ PIM_vecB_read_burst[2] => x \in Vec
    BY <1>0 DEF RegisterTypes, DataInv
  <2> HIDE DEF x
  <2>2. Product(PIM_vecA_read_burst[2], PIM_vecB_read_burst[2], x, vecA, burst_cnt_r) \in Term
    BY <1>0, <1>1, <1>3, <2>1, ProductType
  <2> QED BY <2>2 DEF Stage3, x
<1>8. NoTerm \in Term /\ MUL0_out \in Term /\ ADD0_in \in Term
  BY <1>0, NumberTypes, MultiplierType DEF RegisterTypes
<1>9. Stage4 \in Term /\ Stage5 \in Term
  BY <1>8 DEF Stage4, Stage5
<1> QED BY <1>5, <1>6, <1>7, <1>9

\* At no time has the accumulator a product of another result in it, one twice
\* or one out of order; with the types of the registers.
THEOREM AccumulatorCorrect == Spec => []AccumulatorIsPrefix
<1>1. Inv => AccumulatorIsPrefix
  <2> SUFFICES ASSUME Inv, ~PIM_write_burst
               PROVE  Len(vACC) <= Len(expected) /\ vACC = SubSeq(expected, 1, Len(vACC))
    BY DEF Inv, AccumulatorIsPrefix
  <2> DEFINE u5 == Added(vACC, Stage5)
             u4 == Added(u5, Stage4)
             u3 == Added(u4, Stage3)
             u2 == Added(u3, Stage2)
             u1 == Added(u2, Stage1)
             Keeps(u) == /\ u \in Seq(Term) /\ Len(vACC) <= Len(u)
                         /\ \A i \in 1..Len(vACC) : u[i] = vACC[i]
  <2>1. expected = u1
    BY DEF Inv, ChainInv, Accumulator
  <2>2. vACC \in Seq(Term) /\ Len(vACC) \in Nat
    BY LenProperties DEF Inv, RegisterTypes
  <2>3. /\ Stage1 \in Term /\ Stage2 \in Term /\ Stage3 \in Term
        /\ Stage4 \in Term /\ Stage5 \in Term
    BY StageTypes
  <2>4. Keeps(vACC)
    BY <2>2
  <2>5. ASSUME NEW u, Keeps(u), NEW t \in Term PROVE Keeps(Added(u, t))
    BY <2>2, <2>5, Grows
  <2> HIDE DEF Keeps
  <2>6. Keeps(u1)
    BY <2>3, <2>4, <2>5
  <2>7. /\ expected \in Seq(Term) /\ Len(vACC) <= Len(expected)
        /\ \A i \in 1..Len(vACC) : expected[i] = vACC[i]
    BY <2>1, <2>6 DEF Keeps
  <2>8. /\ SubSeq(expected, 1, Len(vACC)) \in Seq(Term)
        /\ Len(SubSeq(expected, 1, Len(vACC))) = Len(vACC)
        /\ \A i \in 1..Len(vACC) : SubSeq(expected, 1, Len(vACC))[i] = expected[i]
    <3> DEFINE n == Len(vACC)
    <3>1. n \in Nat /\ n <= Len(expected) /\ Len(expected) \in Nat
      BY <2>2, <2>7, LenProperties
    <3> HIDE DEF n
    <3>2. /\ SubSeq(expected, 1, n) \in Seq(Term)
          /\ Len(SubSeq(expected, 1, n)) = n
          /\ \A i \in 1..n : SubSeq(expected, 1, n)[i] = expected[i]
      BY <2>7, <3>1, SubSeqProperties
    <3> QED BY <3>2 DEF n
  <2>9. vACC = SubSeq(expected, 1, Len(vACC))
    BY <2>2, <2>7, <2>8, SeqEqual
  <2> QED BY <2>7, <2>9
<1> QED BY <1>1, Inductive, PTL

-----------------------------------------------------------------------------
(***************************************************************************)
(* The arithmetic of the lanes (BfloatAlu), for all numbers and every set  *)
(* of inputs: the error of the truncated multiplier, the widths of what it *)
(* and the adder produce, the error of an addition, zero factors, and      *)
(* exact loading.                                                          *)
(***************************************************************************)

-----------------------------------------------------------------------------
(***************************************************************************)
(* The widths.                                                             *)
(***************************************************************************)
\* The numbers of the widths that occur.
LEMMA Widths ==
  /\ \A n : n \in Bits(1) <=> n = 0 \/ n = 1
  /\ \A n : n \in Bits(3) <=> n \in Nat /\ n < 8
  /\ \A n : n \in Bits(5) <=> n \in Nat /\ n < 32
  /\ \A n : n \in Bits(7) <=> n \in Nat /\ n < 128
  /\ \A n : n \in Bits(8) <=> n \in Nat /\ n < 256
  /\ \A n : n \in Bits(12) <=> n \in Nat /\ n < 4096
  /\ \A n : n \in Bits(16) <=> n \in Nat /\ n < 65536
<1>1. ASSUME NEW k \in Nat, NEW n PROVE n \in 0..(k - 1) <=> n \in Nat /\ n < k
  BY SMT
<1>2. /\ Pow2(1) = 2 /\ Pow2(3) = 8 /\ Pow2(5) = 32 /\ Pow2(7) = 128 /\ Pow2(8) = 256
      /\ Pow2(12) = 4096 /\ Pow2(16) = 65536
  BY SMT DEF Pow2
<1>3. ASSUME NEW w \in Nat, NEW k \in Nat, Pow2(w) = k, NEW n
      PROVE  n \in Bits(w) <=> n \in Nat /\ n < k
  BY <1>1, <1>3, SMT DEF Bits
<1>4. \A n : n \in Bits(1) <=> n = 0 \/ n = 1
  <2>1. \A n : n \in Nat /\ n < 2 <=> n = 0 \/ n = 1
    BY SMT
  <2>2. \A n : n \in Bits(1) <=> n \in Nat /\ n < 2
    BY <1>2, <1>3, SMT
  <2> QED BY <2>1, <2>2, SMT
<1> QED BY <1>2, <1>3, <1>4, SMT

\* One is a number of the format.
LEMMA OneIsBfloat == ONE \in Bfloat
<1>1. 0 \in Bits(1) /\ 127 \in Bits(8) /\ 0 \in Bits(7)
  BY Widths, SMT
<1> QED BY <1>1 DEF ONE, Bfloat

-----------------------------------------------------------------------------
(***************************************************************************)
(* The product.                                                            *)
(***************************************************************************)

\* What the multiplier leaves out is the product of the lower halves of the
\* two significands (only mul_HH and mul_HL are added in MUL_OPT).
LEMMA LostProduct ==
  ASSUME NEW x \in Nat, NEW y \in Nat
  PROVE  x * y - 16 * mul_mant(x, y) = (x % 16) * (y % 16)
<1> DEFINE a == x \div 16
           b == x % 16
           c == y \div 16
           d == y % 16
<1>1. a \in Nat /\ b \in Nat /\ c \in Nat /\ d \in Nat
  BY SMT
<1>2. x = 16 * a + b /\ y = 16 * c + d
  BY SMT
<1> HIDE DEF a, b, c, d
<1>3. mul_mant(x, y) = x * c + a * d
  BY DEF mul_mant, a, c, d
<1>4. x * y = 16 * (x * c) + x * d
  <2>1. x * (16 * c + d) = 16 * (x * c) + x * d
    BY <1>1, SMT
  <2> QED  BY <1>2, <2>1
<1>5. x * d = 16 * (a * d) + b * d
  <2>1. (16 * a + b) * d = 16 * (a * d) + b * d
    BY <1>1, SMT
  <2> QED  BY <1>2, <2>1
<1> DEFINE xc == x * c
           ad == a * d
           bd == b * d
<1>6. xc \in Nat /\ ad \in Nat /\ bd \in Nat
  BY <1>1
<1>7. x * y = 16 * xc + x * d /\ x * d = 16 * ad + bd /\ mul_mant(x, y) = xc + ad
  BY <1>3, <1>4, <1>5
<1> HIDE DEF xc, ad, bd
<1>8. x * y - 16 * mul_mant(x, y) = bd
  BY <1>6, <1>7
<1> QED  BY <1>8 DEF bd, b, d

\* Two halves of four bits have a product of at most 225.
LEMMA LostBound ==
  ASSUME NEW b \in 0..15, NEW d \in 0..15
  PROVE  b * d \in 0..225
<1>1. b * d \in Int /\ 0 <= b * d
  BY SMT
<1>2. b * d <= 225
  BY SMT
<1> QED  BY <1>1, <1>2

\* The factors of the last product and the product itself: what
\* ProductTruncated rests on.
Factored ==
  /\ prod.x \in Bfloat /\ prod.y \in Bfloat
  /\ prod.p = MUL(prod.x, prod.y, prod.negate)

\* Every step of an accumulation keeps the product and its factors together.
THEOREM ProductOfFactors == AluSpec => []Factored
<1>1. ONE \in Bfloat
  BY OneIsBfloat
<1>2. AluInit => Factored
  BY <1>1 DEF AluInit, Factored, NoProduct
<1>3. Factored /\ [AluNext]_alu_vars => Factored'
  <2> SUFFICES ASSUME Factored, [AluNext]_alu_vars PROVE Factored'
    OBVIOUS
  <2>1. ASSUME NEW x \in Bfloat, NEW y \in Bfloat, NEW n, Accumulate(x, y, n)
        PROVE  Factored'
    BY <2>1 DEF Accumulate, Factored
  <2>2. CASE step < STEPS /\ \E x \in Inputs, y \in Factors : Multiply(x, y)
    BY <2>1, <2>2, InputsAssumption DEF Multiply
  <2>3. CASE step < STEPS /\ \E x \in Inputs, negate \in 0..1 : AddOne(x, negate)
    BY <1>1, <2>1, <2>3, InputsAssumption DEF AddOne
  <2>4. CASE ClearAcc
    BY <1>1, <2>4 DEF ClearAcc, Factored, NoProduct
  <2>5. CASE UNCHANGED alu_vars
    BY <2>5 DEF alu_vars, Factored
  <2> QED  BY <2>2, <2>3, <2>4, <2>5 DEF AluNext
<1> QED  BY <1>2, <1>3, PTL DEF AluSpec

\* A product of MUL_OPT that is not zero is the truncated product of the
\* significands, too small by at most 225 of the units its last bit has 16
\* of (bank_top_GDDR6.v:1887 to 1889), for every pair of numbers.
THEOREM TruncationBounded == AluSpec => []ProductTruncated
<1>1. Factored => ProductTruncated
  <2> SUFFICES ASSUME Factored, prod.p.m > 0
               PROVE  (128 + prod.x.m) * (128 + prod.y.m) - 16 * prod.p.m \in 0..225
    BY DEF ProductTruncated
  <2> DEFINE X == 128 + prod.x.m
             Y == 128 + prod.y.m
  <2>0. prod.x.m \in Bits(7) /\ prod.y.m \in Bits(7)
    BY DEF Factored, Bfloat
  <2>1. X \in Nat /\ Y \in Nat
    BY <2>0, Widths, SMT
  <2>2. prod.p.m = mul_mant(X, Y)
    <3>1. CASE check_zero(prod.x, prod.y)
      <4>1. prod.p.m = 0
        BY <3>1 DEF Factored, MUL
      <4> QED  BY <4>1
    <3>2. CASE ~check_zero(prod.x, prod.y)
      BY <3>2 DEF Factored, MUL
    <3> QED  BY <3>1, <3>2
  <2> HIDE DEF X, Y
  <2>3. X * Y - 16 * prod.p.m = (X % 16) * (Y % 16)
    BY <2>1, <2>2, LostProduct
  <2>4. X % 16 \in 0..15 /\ Y % 16 \in 0..15
    BY <2>1
  <2>5. (X % 16) * (Y % 16) \in 0..225
    BY <2>4, LostBound
  <2> QED  BY <2>3, <2>5 DEF X, Y
<1> QED  BY <1>1, ProductOfFactors, PTL

-----------------------------------------------------------------------------
(***************************************************************************)
(* A product fits its width.                                               *)
(***************************************************************************)
ZeroProduct == [s |-> 0, e |-> 0, m |-> 0, low |-> 0]

\* The magnitudes of products that are not zero.
Magnitude == {m \in Nat : 1010 <= m /\ m <= 4064}

\* The product of two significands, without what is left out.
LEMMA SignificandProduct ==
  ASSUME NEW x \in Nat, NEW y \in Nat, x < 128, y < 128
  PROVE  mul_mant(128 + x, 128 + y) \in Magnitude
<1>1. PICK X \in Nat, Y \in Nat : X = 128 + x /\ Y = 128 + y
  BY SMT
<1>2. PICK lost \in 0..225 : lost = (X % 16) * (Y % 16)
  <2>1. X % 16 \in 0..15 /\ Y % 16 \in 0..15
    BY SMT
  <2>2. PICK b \in 0..15, d \in 0..15 : b = X % 16 /\ d = Y % 16
    BY <2>1, SMT
  <2>3. b * d \in 0..225
    BY LostBound
  <2> QED BY <2>2, <2>3, SMT
<1>3. X * Y - 16 * mul_mant(X, Y) = lost
  BY <1>2, LostProduct
<1>4. PICK xy \in Nat : xy = X * Y
  BY SMT
<1>5. 16384 <= xy /\ xy <= 65025
  BY <1>1, <1>4, SMT
<1>6. PICK m \in Int : m = mul_mant(X, Y)
  BY SMT DEF mul_mant
<1>7. xy - 16 * m = lost
  BY <1>3, <1>4, <1>6, SMT
<1>8. 0 <= lost /\ lost <= 225 /\ lost \in Int
  BY SMT
<1>9. 1010 <= m /\ m <= 4064
  BY <1>5, <1>7, <1>8, SMT
<1> QED BY <1>1, <1>6, <1>9, SMT DEF Magnitude

\* A product has its widths, and is negative only if it is not zero.
LEMMA MulType ==
  ASSUME NEW x \in Bfloat, NEW y \in Bfloat, NEW negate \in 0..1
  PROVE  /\ MUL(x, y, negate) \in AluProduct
         /\ check_zero(x, y) => MUL(x, y, negate) = ZeroProduct
         /\ MUL(x, y, negate).s = 1 => MUL(x, y, negate).m \in Magnitude
<1>1. /\ x.s \in Bits(1) /\ x.e \in Bits(8) /\ x.m \in Bits(7)
      /\ y.s \in Bits(1) /\ y.e \in Bits(8) /\ y.m \in Bits(7)
  BY DEF Bfloat
<1>2. CASE check_zero(x, y)
  <2>1. MUL(x, y, negate) = ZeroProduct
    BY <1>2 DEF MUL, ZeroProduct
  <2>2. 0 \in Bits(1) /\ 0 \in Bits(5) /\ 0 \in Bits(12) /\ 0 \in Bits(3)
    BY Widths, SMT
  <2>3. ZeroProduct \in AluProduct /\ ZeroProduct.s = 0
    BY <2>2 DEF ZeroProduct, AluProduct
  <2> QED BY <2>1, <2>3
<1>3. CASE ~check_zero(x, y)
  <2>1. PICK xe \in Nat, ye \in Nat : xe = x.e /\ ye = y.e
    BY <1>1, Widths, SMT
  <2>2. PICK e \in Nat : e = exp_bias_sub(x, y)
    BY <2>1, SMT DEF exp_bias_sub
  <2>3. e < 256
    BY <1>3, <2>2, SMT DEF check_zero
  <2>4. e \div 8 \in Bits(5) /\ e % 8 \in Bits(3)
    <3>1. e \div 8 \in Nat /\ e \div 8 < 32 /\ e % 8 \in Nat /\ e % 8 < 8
      BY <2>3, SMT
    <3> QED BY <3>1, Widths, SMT
  <2>5. PICK xm \in Nat, ym \in Nat : xm = x.m /\ ym = y.m /\ xm < 128 /\ ym < 128
    BY <1>1, Widths, SMT
  <2>6. PICK m \in Magnitude : m = mul_mant(128 + x.m, 128 + y.m)
    <3>1. mul_mant(128 + xm, 128 + ym) \in Magnitude
      BY <2>5, SignificandProduct
    <3> QED BY <2>5, <3>1
  <2>7. m \in Bits(12)
    <3>1. m \in Nat /\ m < 4096
      BY SMT DEF Magnitude
    <3> QED BY <3>1, Widths, SMT
  <2>8. PICK s \in Bits(1) : s = IF e \div 8 = 0 THEN 0 ELSE Xor(Xor(x.s, y.s), negate)
    <3>1. PICK a \in 0..1, b \in 0..1 : a = x.s /\ b = y.s
      BY <1>1, Widths, SMT
    <3>2. Xor(Xor(a, b), negate) \in 0..1
      BY SMT DEF Xor
    <3>3. 0 \in Bits(1) /\ Xor(Xor(a, b), negate) \in Bits(1)
      BY <3>2, Widths, SMT
    <3> QED BY <3>1, <3>3
  <2>9. MUL(x, y, negate) = [s |-> s, e |-> e \div 8, m |-> m, low |-> e % 8]
    BY <1>3, <2>2, <2>6, <2>8 DEF MUL
  <2>10. MUL(x, y, negate) \in AluProduct
    BY <2>4, <2>7, <2>9 DEF AluProduct
  <2>11. MUL(x, y, negate).m \in Magnitude
    BY <2>9
  <2> QED BY <1>3, <2>10, <2>11
<1> QED BY <1>2, <1>3

\* Aligning loses nothing of a product but its last bits.
LEMMA AlignType ==
  ASSUME NEW p \in AluProduct
  PROVE  /\ mant_align(p) \in Nat /\ mant_align(p) < 65536
         /\ p.m = 0 => mant_align(p) = 0
         /\ p.m \in Magnitude => mant_align(p) > 0
<1>1. p.m \in Bits(12) /\ p.low \in Bits(3)
  BY DEF AluProduct
<1>2. PICK n \in Nat, l \in Nat : n = p.m /\ l = p.low /\ n < 4096 /\ l < 8
  BY <1>1, Widths, SMT
<1>3. PICK k \in 1..128 : k = Pow2(l)
  <2>1. l = 0 \/ l = 1 \/ l = 2 \/ l = 3 \/ l = 4 \/ l = 5 \/ l = 6 \/ l = 7
    BY <1>2, SMT
  <2>2. /\ Pow2(0) = 1 /\ Pow2(1) = 2 /\ Pow2(2) = 4 /\ Pow2(3) = 8
        /\ Pow2(4) = 16 /\ Pow2(5) = 32 /\ Pow2(6) = 64 /\ Pow2(7) = 128
    BY SMT DEF Pow2
  <2>3. Pow2(l) \in 1..128
    BY <2>1, <2>2, SMT
  <2> QED BY <2>3
<1>4. PICK u \in Nat : u = n * k
  BY SMT
<1>5. PICK q \in Nat : q = u \div 8
  BY SMT
<1>6. mant_align(p) = q % 65536
  BY <1>2, <1>3, <1>4, <1>5, SMT DEF mant_align
<1>7. q % 65536 \in Nat /\ q % 65536 < 65536
  BY SMT
<1>8. ASSUME n = 0 PROVE q % 65536 = 0
  <2>1. u = 0
    BY <1>4, <1>8, SMT
  <2>2. q = 0
    BY <1>5, <2>1, SMT
  <2> QED BY <2>2, SMT
<1>9. ASSUME n \in Magnitude PROVE q % 65536 > 0
  <2>1. 1010 <= n /\ n <= 4064
    BY <1>9, SMT DEF Magnitude
  <2>2. 1010 <= u /\ u <= 520192
    BY <1>4, <2>1, SMT
  <2>3. 1 <= q /\ q <= 65535
    BY <1>5, <2>2, SMT
  <2>4. q % 65536 = q
    BY <2>3, SMT
  <2> QED BY <2>3, <2>4, SMT
<1> QED BY <1>2, <1>6, <1>7, <1>8, <1>9, SMT

-----------------------------------------------------------------------------
(***************************************************************************)
(* The addition.                                                           *)
(***************************************************************************)
\* What a step is away from the exact sum, in 1/256 of the new accumulator's
\* unit (see StepWithinOneUnit).
Error(p, old, new) ==
  256 * Signed(new.s, new.m) -
    (Signed(p.s, Scaled(mant_align(p), new.e - p.e)) +
     Signed(old.s, Scaled(old.m, new.e - old.e)))

\* An accumulator with its widths that is not a negative zero.
Proper(a) == a \in Acc /\ (a.s = 1 => a.m > 0)

Sound(p, old, new) ==
  /\ Proper(new)
  /\ new.e >= p.e => Error(p, old, new) \in -255..255

\* The units of the last place of a number with a smaller exponent.
LEMMA ScaledValues ==
  ASSUME NEW n \in Nat
  PROVE  Scaled(n, 0) = 256 * n /\ Scaled(n, 1) = n /\ Scaled(n, 2) = n \div 256
BY SMT DEF Scaled

\* Two exponents below, less than one unit is left of it.
LEMMA ScaledSmall ==
  ASSUME NEW n \in Nat, n < 65536, NEW d \in Int, d >= 2
  PROVE  Scaled(n, d) \in Int /\ 0 <= Scaled(n, d) /\ Scaled(n, d) <= 255
<1>1. n \div 256 \in Int /\ 0 <= n \div 256 /\ n \div 256 <= 255
  BY SMT
<1>2. CASE d = 2
  BY <1>1, <1>2, ScaledValues, SMT
<1>3. CASE d > 2
  BY <1>3, SMT DEF Scaled
<1> QED BY <1>2, <1>3, SMT

\* Numbers with the widths of the accumulator make one.
LEMMA MakeAcc ==
  ASSUME NEW s \in 0..1, NEW e \in Bits(5), NEW m \in Bits(16), s = 1 => m > 0
  PROVE  Proper([s |-> s, e |-> e, m |-> m])
<1>1. s \in Bits(1)
  BY Widths, SMT
<1> QED BY <1>1 DEF Proper, Acc

\* The sum r of x and y, which are in 1/256 of its unit, is less than one off.
Within(r, x, y) == -255 <= 256 * r - (x + y) /\ 256 * r - (x + y) <= 255

\* The error of a step, from the signed terms.
LEMMA ErrorOf ==
  ASSUME NEW p, NEW old, NEW new, NEW r \in Int, NEW a \in Int, NEW b \in Int,
         Signed(new.s, new.m) = r,
         Signed(p.s, Scaled(mant_align(p), new.e - p.e)) = a,
         Signed(old.s, Scaled(old.m, new.e - old.e)) = b,
         Within(r, a, b)
  PROVE  Error(p, old, new) \in -255..255
<1>1. ASSUME NEW x \in Int, -255 <= x, x <= 255 PROVE x \in -255..255
  BY <1>1, SMT
<1>2. 256 * r - (a + b) \in Int
  BY SMT
<1>3. Error(p, old, new) = 256 * r - (a + b)
  BY SMT DEF Error
<1> QED BY <1>1, <1>2, <1>3 DEF Within

\* A sign and a magnitude.
LEMMA SignedValues ==
  ASSUME NEW n \in Int
  PROVE  Signed(0, n) = n /\ Signed(1, n) = -n
BY SMT DEF Signed

\* One operand is dropped.
LEMMA DroppedBound ==
  ASSUME NEW s \in 0..1, NEW t \in 0..1, NEW m \in Int, NEW d \in Int, 0 <= d, d <= 255
  PROVE  /\ Within(Signed(s, m), Signed(s, 256 * m), Signed(t, d))
         /\ Within(Signed(s, m), Signed(t, d), Signed(s, 256 * m))
<1>1. PICK k \in Int : k = 256 * m
  BY SMT
<1>2. CASE s = 0 /\ t = 0
  BY <1>1, <1>2, SignedValues, SMT DEF Within
<1>3. CASE s = 0 /\ t = 1
  BY <1>1, <1>3, SignedValues, SMT DEF Within
<1>4. CASE s = 1 /\ t = 0
  BY <1>1, <1>4, SignedValues, SMT DEF Within
<1>5. CASE s = 1 /\ t = 1
  BY <1>1, <1>5, SignedValues, SMT DEF Within
<1> QED BY <1>2, <1>3, <1>4, <1>5, SMT

\* Both operands have the same sign.
LEMMA SumBound ==
  ASSUME NEW s \in 0..1, NEW m \in Int, NEW a \in Int, NEW b \in Int,
         0 <= a + b - 256 * m, a + b - 256 * m <= 255
  PROVE  Within(Signed(s, m), Signed(s, a), Signed(s, b))
<1>1. CASE s = 0
  BY <1>1, SignedValues, SMT DEF Within
<1>2. CASE s = 1
  BY <1>2, SignedValues, SMT DEF Within
<1> QED BY <1>1, <1>2, SMT

\* What a and b have beyond mul and old, which are in units of 256 times
\* theirs, is less than one of those units.
LeftOver(mul, old, a, b) ==
  /\ 0 <= a - 256 * mul /\ 0 <= b - 256 * old
  /\ (a - 256 * mul) + (b - 256 * old) <= 255

\* The operands have different signs: mul and old are what is left of a and b
\* in units of the result, diff the difference in the order of the signs.
LEMMA DifferenceBound ==
  ASSUME NEW s \in 0..1, NEW t \in 0..1, s # t,
         NEW mul \in Int, NEW old \in Int, NEW a \in Int, NEW b \in Int,
         LeftOver(mul, old, a, b),
         NEW diff \in Int, s = 1 => diff = old - mul, s = 0 => diff = mul - old
  PROVE  Within(diff, Signed(s, a), Signed(t, b))
<1>1. CASE s = 1 /\ t = 0
  <2>1. Signed(s, a) = -a /\ Signed(t, b) = b
    BY <1>1, SignedValues
  <2> QED BY <1>1, <2>1, SMT DEF Within, LeftOver
<1>2. CASE s = 0 /\ t = 1
  <2>1. Signed(s, a) = a /\ Signed(t, b) = -b
    BY <1>2, SignedValues
  <2> QED BY <1>2, <2>1, SMT DEF Within, LeftOver
<1> QED BY <1>1, <1>2, SMT

\* The operands p and acc0 in units of the larger exponent le: mul and old; in
\* 1/256 of it: a and b; and in 1/256 of the next one: mul and old again.
Close(p, acc0, mul, old, le, a, b) ==
  /\ mul = mul_aligned(p, acc0.e) /\ old = acc_aligned(p.e, acc0)
  /\ le = IF p.e > acc0.e THEN p.e ELSE acc0.e
  /\ p.e <= le /\ le <= p.e + 1 /\ (le = p.e \/ le = acc0.e)
  /\ mul \in Bits(16) /\ old \in Bits(16) /\ (mul = mant_align(p) \/ old = acc0.m)
  /\ Scaled(mant_align(p), le - p.e) = a /\ Scaled(acc0.m, le - acc0.e) = b
  /\ LeftOver(mul, old, a, b)
  /\ Scaled(mant_align(p), (le + 1) - p.e) = mul
  /\ Scaled(acc0.m, (le + 1) - acc0.e) = old

\* Operands whose exponents are at most one apart.
LEMMA CloseOperands ==
  ASSUME NEW p, NEW acc0,
         NEW pe \in Nat, NEW oe \in Nat, NEW M \in Nat, NEW om \in Nat,
         p.e = pe, acc0.e = oe, mant_align(p) = M, acc0.m = om, M \in Bits(16), om \in Bits(16),
         ~(pe > oe + 1), ~(pe + 1 < oe)
  PROVE  \E mul \in Nat, old \in Nat, le \in Nat, a \in Int, b \in Int :
           Close(p, acc0, mul, old, le, a, b)
<1>0. M < 65536 /\ om < 65536
  BY Widths, SMT
<1>1. /\ Scaled(M, 0) = 256 * M /\ Scaled(M, 1) = M /\ Scaled(M, 2) = M \div 256
      /\ Scaled(om, 0) = 256 * om /\ Scaled(om, 1) = om /\ Scaled(om, 2) = om \div 256
  BY ScaledValues
<1>2. CASE pe = oe
  <2>1. mul_aligned(p, acc0.e) = M /\ acc_aligned(p.e, acc0) = om
    BY <1>2, SMT DEF mul_aligned, acc_aligned
  <2>2. (IF p.e > acc0.e THEN p.e ELSE acc0.e) = pe
    BY <1>2, SMT
  <2>3. /\ pe - pe = 0 /\ pe - oe = 0 /\ (pe + 1) - pe = 1 /\ (pe + 1) - oe = 1
        /\ pe <= pe /\ pe <= pe + 1
    BY <1>2, SMT
  <2>4. PICK a \in Int, b \in Int : a = 256 * M /\ b = 256 * om
    BY SMT
  <2>5. 0 <= a - 256 * M /\ 0 <= b - 256 * om /\ (a - 256 * M) + (b - 256 * om) <= 255
    BY <2>4, SMT
  <2>6. Scaled(M, pe - pe) = a /\ Scaled(om, pe - oe) = b
    BY <1>1, <2>3, <2>4
  <2>7. Scaled(M, (pe + 1) - pe) = M /\ Scaled(om, (pe + 1) - oe) = om
    BY <1>1, <2>3
  <2>8. Close(p, acc0, M, om, pe, a, b)
    BY <2>1, <2>2, <2>3, <2>5, <2>6, <2>7, SMT DEF Close, LeftOver
  <2> QED BY <2>8, Zenon
<1>3. CASE pe = oe + 1
  <2>0. PICK q \in Nat : q = om \div 256
    BY SMT
  <2>1. mul_aligned(p, acc0.e) = M /\ acc_aligned(p.e, acc0) = q
    BY <1>3, <2>0, SMT DEF mul_aligned, acc_aligned
  <2>2. (IF p.e > acc0.e THEN p.e ELSE acc0.e) = pe
    BY <1>3, SMT
  <2>3. /\ pe - pe = 0 /\ pe - oe = 1 /\ (pe + 1) - pe = 1 /\ (pe + 1) - oe = 2
        /\ pe <= pe /\ pe <= pe + 1
    BY <1>3, SMT
  <2>4. PICK a \in Int, b \in Int : a = 256 * M /\ b = om
    BY SMT
  <2>5. /\ 0 <= a - 256 * M /\ 0 <= b - 256 * q /\ (a - 256 * M) + (b - 256 * q) <= 255
        /\ q < 65536
    BY <1>0, <2>0, <2>4, SMT
  <2>6. q \in Bits(16)
    BY <2>5, Widths, SMT
  <2>7. Scaled(M, pe - pe) = a /\ Scaled(om, pe - oe) = b
    BY <1>1, <2>3, <2>4
  <2>8. Scaled(M, (pe + 1) - pe) = M /\ Scaled(om, (pe + 1) - oe) = q
    BY <1>1, <2>0, <2>3
  <2>9. Close(p, acc0, M, q, pe, a, b)
    BY <2>1, <2>2, <2>3, <2>5, <2>6, <2>7, <2>8, SMT DEF Close, LeftOver
  <2> QED BY <2>9, Zenon
<1>4. CASE pe + 1 = oe
  <2>0. PICK q \in Nat : q = M \div 256
    BY SMT
  <2>1. mul_aligned(p, acc0.e) = q /\ acc_aligned(p.e, acc0) = om
    BY <1>4, <2>0, SMT DEF mul_aligned, acc_aligned
  <2>2. (IF p.e > acc0.e THEN p.e ELSE acc0.e) = oe
    BY <1>4, SMT
  <2>3. /\ oe - pe = 1 /\ oe - oe = 0 /\ (oe + 1) - pe = 2 /\ (oe + 1) - oe = 1
        /\ pe <= oe /\ oe <= pe + 1
    BY <1>4, SMT
  <2>4. PICK a \in Int, b \in Int : a = M /\ b = 256 * om
    BY SMT
  <2>5. /\ 0 <= a - 256 * q /\ 0 <= b - 256 * om /\ (a - 256 * q) + (b - 256 * om) <= 255
        /\ q < 65536
    BY <1>0, <2>0, <2>4, SMT
  <2>6. q \in Bits(16)
    BY <2>5, Widths, SMT
  <2>7. Scaled(M, oe - pe) = a /\ Scaled(om, oe - oe) = b
    BY <1>1, <2>3, <2>4
  <2>8. Scaled(M, (oe + 1) - pe) = q /\ Scaled(om, (oe + 1) - oe) = om
    BY <1>1, <2>0, <2>3
  <2>9. Close(p, acc0, q, om, oe, a, b)
    BY <2>1, <2>2, <2>3, <2>5, <2>6, <2>7, <2>8, SMT DEF Close, LeftOver
  <2> QED BY <2>9, Zenon
<1> QED BY <1>2, <1>3, <1>4, SMT

\* A step keeps the widths, makes no negative zero and loses less than a unit.
LEMMA AddSound ==
  ASSUME NEW p \in AluProduct, NEW acc0, Proper(acc0), p.s = 1 => p.m \in Magnitude
  PROVE  Sound(p, acc0, ADD(p, acc0))
<1>1. p.s \in Bits(1) /\ p.e \in Bits(5)
  BY SMT DEF AluProduct
<1>2. PICK ps \in 0..1, pe \in Nat, M \in Nat :
        p.s = ps /\ p.e = pe /\ mant_align(p) = M /\ pe \in Bits(5) /\ M \in Bits(16)
  <2>1. mant_align(p) \in Bits(16) /\ mant_align(p) \in Nat
    BY AlignType, Widths, SMT
  <2>2. p.s \in 0..1 /\ p.e \in Nat
    BY <1>1, Widths, SMT
  <2> QED BY <1>1, <2>1, <2>2, Zenon
<1>3. /\ acc0.s \in Bits(1) /\ acc0.e \in Bits(5) /\ acc0.m \in Bits(16)
      /\ acc0 = [s |-> acc0.s, e |-> acc0.e, m |-> acc0.m]
      /\ acc0.s = 1 => acc0.m > 0
  BY SMT DEF Proper, Acc
<1>4. PICK os \in 0..1, oe \in Nat, om \in Nat :
        acc0.s = os /\ acc0.e = oe /\ acc0.m = om /\ oe \in Bits(5) /\ om \in Bits(16)
  <2>1. acc0.s \in 0..1 /\ acc0.e \in Nat /\ acc0.m \in Nat
    BY <1>3, Widths, SMT
  <2> QED BY <1>3, <2>1, Zenon
<1>5. M < 65536 /\ om < 65536 /\ pe < 32 /\ oe < 32
  BY <1>2, <1>4, Widths, SMT
<1>6. (ps = 1 => M > 0) /\ (os = 1 => om > 0)
  BY <1>2, <1>3, <1>4, AlignType, SMT
<1>7. ASSUME NEW rs \in 0..1, NEW re \in Nat, NEW rm \in Nat,
             re \in Bits(5), rm \in Bits(16), rs = 1 => rm > 0, NEW a \in Int, NEW b \in Int,
             re >= pe =>
               /\ Scaled(M, re - pe) = a /\ Scaled(om, re - oe) = b
               /\ Within(Signed(rs, rm), Signed(ps, a), Signed(os, b))
      PROVE  Sound(p, acc0, [s |-> rs, e |-> re, m |-> rm])
  <2> DEFINE new == [s |-> rs, e |-> re, m |-> rm]
  <2>1. Proper(new)
    BY <1>7, MakeAcc, SMT
  <2>2. new.s = rs /\ new.e = re /\ new.m = rm
    BY SMT
  <2> HIDE DEF new
  <2>3. ASSUME new.e >= p.e PROVE Error(p, acc0, new) \in -255..255
    <3>1. re >= pe
      BY <1>2, <2>2, <2>3, SMT
    <3>2. PICK r \in Int, x \in Int, y \in Int :
            r = Signed(rs, rm) /\ x = Signed(ps, a) /\ y = Signed(os, b)
      <4>1. ASSUME NEW s \in 0..1, NEW n \in Int PROVE Signed(s, n) \in Int
        BY SMT DEF Signed
      <4>2. rm \in Int
        BY SMT
      <4>3. Signed(rs, rm) \in Int /\ Signed(ps, a) \in Int /\ Signed(os, b) \in Int
        BY <4>1, <4>2, SMT
      <4> QED BY <4>3, SMT
    <3>3. Signed(new.s, new.m) = r
      BY <2>2, <3>2, SMT
    <3>4. Signed(p.s, Scaled(mant_align(p), new.e - p.e)) = x
      BY <1>2, <1>7, <2>2, <3>1, <3>2, SMT
    <3>5. Signed(acc0.s, Scaled(acc0.m, new.e - acc0.e)) = y
      BY <1>4, <1>7, <2>2, <3>1, <3>2, SMT
    <3>6. Within(r, x, y)
      BY <1>7, <3>1, <3>2, SMT
    <3> QED BY <3>3, <3>4, <3>5, <3>6, ErrorOf, Zenon
  <2>4. Sound(p, acc0, new)
    BY <2>1, <2>3, SMT DEF Sound
  <2> QED BY <2>4, SMT DEF new
<1>8. CASE pe > oe + 1
  <2>1. ADD(p, acc0) = [s |-> ps, e |-> pe, m |-> M]
    BY <1>2, <1>4, <1>8, SMT DEF ADD
  <2>2. PICK d \in Int : d = pe - oe /\ d >= 2
    BY <1>8, SMT
  <2>3. PICK b \in Int : b = Scaled(om, d) /\ 0 <= b /\ b <= 255
    BY <1>5, <2>2, ScaledSmall, SMT
  <2>4. PICK a \in Int : a = 256 * M
    BY SMT
  <2>5. pe - pe = 0
    BY SMT
  <2>6. Scaled(M, pe - pe) = a /\ Scaled(om, pe - oe) = b
    BY <2>2, <2>3, <2>4, <2>5, ScaledValues, SMT
  <2>7. M \in Int
    BY SMT
  <2>8. Within(Signed(ps, M), Signed(ps, a), Signed(os, b))
    BY <2>3, <2>4, <2>7, DroppedBound, SMT
  <2>9. Sound(p, acc0, [s |-> ps, e |-> pe, m |-> M])
    BY <1>2, <1>4, <1>6, <1>7, <2>6, <2>8, Zenon
  <2> QED BY <2>1, <2>9, SMT
<1>9. CASE pe + 1 < oe
  <2>1. ADD(p, acc0) = [s |-> os, e |-> oe, m |-> om]
    <3>1. ADD(p, acc0) = acc0
      BY <1>2, <1>4, <1>9, SMT DEF ADD
    <3> QED BY <1>3, <1>4, <3>1, SMT
  <2>2. PICK d \in Int : d = oe - pe /\ d >= 2
    BY <1>9, SMT
  <2>3. PICK a \in Int : a = Scaled(M, d) /\ 0 <= a /\ a <= 255
    BY <1>5, <2>2, ScaledSmall, SMT
  <2>4. PICK b \in Int : b = 256 * om
    BY SMT
  <2>5. oe - oe = 0
    BY SMT
  <2>6. Scaled(M, oe - pe) = a /\ Scaled(om, oe - oe) = b
    BY <2>2, <2>3, <2>4, <2>5, ScaledValues, SMT
  <2>7. om \in Int
    BY SMT
  <2>8. Within(Signed(os, om), Signed(ps, a), Signed(os, b))
    BY <2>3, <2>4, <2>7, DroppedBound, SMT
  <2>9. Sound(p, acc0, [s |-> os, e |-> oe, m |-> om])
    BY <1>2, <1>4, <1>6, <1>7, <2>6, <2>8, Zenon
  <2> QED BY <2>1, <2>9, SMT
<1>10. CASE ~(pe > oe + 1) /\ ~(pe + 1 < oe)
  <2>1. ADD(p, acc0) = AddClose(p, acc0)
    BY <1>2, <1>4, <1>10, SMT DEF ADD
  <2>2. PICK mul \in Nat, old \in Nat, le \in Nat, a \in Int, b \in Int :
          Close(p, acc0, mul, old, le, a, b)
    BY <1>2, <1>4, <1>10, CloseOperands, Zenon
  <2>3. /\ mul = mul_aligned(p, acc0.e) /\ old = acc_aligned(p.e, acc0)
        /\ le = IF p.e > acc0.e THEN p.e ELSE acc0.e
    BY <2>2, SMT DEF Close
  <2>4. /\ mul \in Bits(16) /\ old \in Bits(16) /\ (mul = M \/ old = om)
        /\ pe <= le /\ le <= pe + 1 /\ (le = pe \/ le = oe)
        /\ Scaled(M, le - pe) = a /\ Scaled(om, le - oe) = b
        /\ LeftOver(mul, old, a, b)
        /\ Scaled(M, (le + 1) - pe) = mul /\ Scaled(om, (le + 1) - oe) = old
    BY <1>2, <1>4, <2>2, SMT DEF Close
  <2>5. mul < 65536 /\ old < 65536 /\ le < 32
    <3>1. mul < 65536 /\ old < 65536
      BY <2>4, Widths, SMT
    <3>2. le < 32
      BY <1>5, <2>4, SMT
    <3> QED BY <3>1, <3>2
  <2>6. mul \in Int /\ old \in Int /\ le \in Bits(5)
    BY <2>5, Widths, SMT
  <2>7. CASE ps = os
    <3>1. PICK sum \in Nat : sum = mul + old
      BY SMT
    <3>2. AddClose(p, acc0) = Carried(ps, le, sum)
      BY <1>2, <1>4, <2>3, <2>7, <3>1, SMT DEF AddClose
    <3>3. ps = 1 => sum > 0
      BY <1>6, <2>4, <2>7, <3>1, SMT
    <3>4. CASE sum < 65536
      <4>1. Carried(ps, le, sum) = [s |-> ps, e |-> le, m |-> sum]
        BY <3>4, SMT DEF Carried
      <4>2. sum \in Int /\ 0 <= a + b - 256 * sum /\ a + b - 256 * sum <= 255
        BY <2>4, <3>1, SMT DEF LeftOver
      <4>3. Within(Signed(ps, sum), Signed(ps, a), Signed(os, b))
        BY <2>7, <4>2, SumBound, SMT
      <4>4. sum \in Bits(16)
        BY <3>4, Widths, SMT
      <4>5. Sound(p, acc0, [s |-> ps, e |-> le, m |-> sum])
        BY <1>7, <2>4, <2>6, <3>3, <4>3, <4>4, SMT
      <4> QED BY <2>1, <3>2, <4>1, <4>5, SMT
    <3>5. CASE ~(sum < 65536)
      <4>1. PICK e \in Nat, m \in Nat : e = (le + 1) % 32 /\ m = sum \div 256
        BY SMT
      <4>2. Carried(ps, le, sum) = [s |-> ps, e |-> e, m |-> m]
        BY <3>5, <4>1, SMT DEF Carried
      <4>3. m \in Bits(16) /\ e \in Bits(5) /\ m > 0
        <5>1. m < 65536 /\ m > 0 /\ e < 32
          BY <2>5, <3>1, <3>5, <4>1, SMT
        <5> QED BY <5>1, Widths, SMT
      <4>4. m \in Int /\ 0 <= mul + old - 256 * m /\ mul + old - 256 * m <= 255
        BY <3>1, <4>1, SMT
      <4>5. Within(Signed(ps, m), Signed(ps, mul), Signed(os, old))
        BY <2>6, <2>7, <4>4, SumBound, SMT
      <4>6. e >= pe => e = le + 1
        <5>1. CASE le = 31
          <6>1. e = 0
            BY <4>1, <5>1, SMT
          <6>2. pe >= 30
            BY <2>4, <5>1, SMT
          <6> QED BY <6>1, <6>2, SMT
        <5>2. CASE le < 31
          BY <4>1, <5>2, SMT
        <5> QED BY <2>5, <5>1, <5>2, SMT
      <4>7. e >= pe => Scaled(M, e - pe) = mul /\ Scaled(om, e - oe) = old
        BY <2>4, <4>6, SMT
      <4>8. Sound(p, acc0, [s |-> ps, e |-> e, m |-> m])
        BY <1>7, <2>6, <4>3, <4>5, <4>7, Zenon
      <4> QED BY <2>1, <3>2, <4>2, <4>8, SMT
    <3> QED BY <3>4, <3>5, SMT
  <2>8. CASE ps # os
    <3>1. PICK diff \in Int : diff = IF ps = 1 THEN old - mul ELSE mul - old
      <4>1. old - mul \in Int /\ mul - old \in Int
        BY SMT
      <4> QED BY <4>1, Zenon
    <3>2. (ps = 1 => diff = old - mul) /\ (ps = 0 => diff = mul - old)
      BY <3>1, SMT
    <3>3. AddClose(p, acc0) = [s |-> IF diff < 0 THEN 1 ELSE 0, e |-> le,
                               m |-> IF diff < 0 THEN -diff ELSE diff]
      BY <1>2, <1>4, <2>3, <2>8, <3>1, SMT DEF AddClose
    <3>4. Within(diff, Signed(ps, a), Signed(os, b))
      BY <2>4, <2>6, <2>8, <3>2, DifferenceBound, Zenon
    <3>5. diff < 65536 /\ -diff < 65536
      BY <2>5, <3>1, SMT
    <3>6. CASE diff < 0
      <4>1. PICK m \in Nat : m = -diff
        BY <3>6, SMT
      <4>2. m > 0 /\ m \in Bits(16)
        <5>1. m > 0 /\ m < 65536
          BY <3>5, <3>6, <4>1, SMT
        <5> QED BY <5>1, Widths, SMT
      <4>3. AddClose(p, acc0) = [s |-> 1, e |-> le, m |-> m]
        BY <3>3, <3>6, <4>1, SMT
      <4>4. Signed(1, m) = diff
        BY <4>1, SignedValues, SMT
      <4>5. Sound(p, acc0, [s |-> 1, e |-> le, m |-> m])
        BY <1>7, <2>4, <2>6, <3>4, <4>2, <4>4, SMT
      <4> QED BY <2>1, <4>3, <4>5, SMT
    <3>7. CASE ~(diff < 0)
      <4>1. diff \in Nat /\ diff \in Bits(16)
        <5>1. diff \in Nat
          BY <3>7, SMT
        <5> QED BY <3>5, <5>1, Widths, SMT
      <4>2. AddClose(p, acc0) = [s |-> 0, e |-> le, m |-> diff]
        BY <3>3, <3>7, SMT
      <4>3. Signed(0, diff) = diff
        BY SignedValues
      <4>4. Sound(p, acc0, [s |-> 0, e |-> le, m |-> diff])
        BY <1>7, <2>4, <2>6, <3>4, <4>1, <4>3, SMT
      <4> QED BY <2>1, <4>2, <4>4, SMT
    <3> QED BY <3>6, <3>7, SMT
  <2> QED BY <2>7, <2>8, SMT
<1> QED BY <1>8, <1>9, <1>10, SMT

\* The product of a zero adds nothing.
LEMMA AddZero ==
  ASSUME NEW acc0, Proper(acc0)
  PROVE  ADD(ZeroProduct, acc0) = acc0
<1>1. /\ acc0.s \in Bits(1) /\ acc0.e \in Bits(5) /\ acc0.m \in Bits(16)
      /\ acc0 = [s |-> acc0.s, e |-> acc0.e, m |-> acc0.m]
      /\ acc0.s = 1 => acc0.m > 0
  BY DEF Proper, Acc
<1>2. PICK s \in 0..1, e \in Nat, m \in Nat :
        acc0.s = s /\ acc0.e = e /\ acc0.m = m /\ m \in Bits(16)
  <2>1. acc0.s \in 0..1 /\ acc0.e \in Nat /\ acc0.m \in Nat
    BY <1>1, Widths, SMT
  <2> QED BY <1>1, <2>1, Zenon
<1>3. m < 65536 /\ (s = 1 => m > 0)
  BY <1>1, <1>2, Widths, SMT
<1>4. ZeroProduct.s = 0 /\ ZeroProduct.e = 0 /\ ZeroProduct.m = 0 /\ ZeroProduct.low = 0
  BY DEF ZeroProduct
<1>5. mant_align(ZeroProduct) = 0
  <2>1. 0 \in Bits(1) /\ 0 \in Bits(5) /\ 0 \in Bits(12) /\ 0 \in Bits(3)
    BY Widths, SMT
  <2>2. ZeroProduct \in AluProduct
    BY <2>1 DEF ZeroProduct, AluProduct
  <2> QED BY <1>4, <2>2, AlignType, SMT
<1>6. CASE e > 1
  BY <1>2, <1>4, <1>6, SMT DEF ADD
<1>7. CASE ~(e > 1)
  <2>1. ADD(ZeroProduct, acc0) = AddClose(ZeroProduct, acc0)
    BY <1>2, <1>4, <1>7, SMT DEF ADD
  <2>2. mul_aligned(ZeroProduct, acc0.e) = 0
    BY <1>5, SMT DEF mul_aligned
  <2>3. acc_aligned(ZeroProduct.e, acc0) = m
    BY <1>2, <1>4, SMT DEF acc_aligned
  <2>4. (IF ZeroProduct.e > acc0.e THEN ZeroProduct.e ELSE acc0.e) = e
    BY <1>2, <1>4, SMT
  <2>5. CASE s = 0
    <3>1. AddClose(ZeroProduct, acc0) = Carried(0, e, 0 + m)
      BY <1>2, <1>4, <2>2, <2>3, <2>4, <2>5, SMT DEF AddClose
    <3>2. Carried(0, e, 0 + m) = [s |-> 0, e |-> e, m |-> m]
      BY <1>3, SMT DEF Carried
    <3> QED BY <1>1, <1>2, <2>1, <2>5, <3>1, <3>2, SMT
  <2>6. CASE s = 1
    <3>1. PICK diff \in Int : diff = 0 - m
      BY SMT
    <3>2. diff < 0 /\ -diff = m
      BY <1>3, <2>6, <3>1, SMT
    <3>3. AddClose(ZeroProduct, acc0) = [s |-> IF diff < 0 THEN 1 ELSE 0, e |-> e,
                                         m |-> IF diff < 0 THEN -diff ELSE diff]
      BY <1>2, <1>4, <2>2, <2>3, <2>4, <2>6, <3>1, SMT DEF AddClose
    <3>4. AddClose(ZeroProduct, acc0) = [s |-> 1, e |-> e, m |-> m]
      BY <3>2, <3>3, SMT
    <3> QED BY <1>1, <1>2, <2>1, <2>6, <3>4, SMT
  <2> QED BY <2>5, <2>6, SMT
<1> QED BY <1>6, <1>7, SMT

-----------------------------------------------------------------------------
(***************************************************************************)
(* The accumulation.                                                       *)
(***************************************************************************)
\* The accumulator is the sum of the last product and what was there before.
AluInv ==
  /\ Factored /\ prod.negate \in 0..1 /\ step \in 0..STEPS
  /\ Proper(acc) /\ Proper(before)
  /\ step = 0 => acc = ZeroAcc
  /\ step > 0 => acc = ADD(prod.p, before)

\* The accumulator keeps its widths and is never a negative zero, which the
\* adder (ADD_module_OPT) would turn into a positive one.
THEOREM AluInductive == AluSpec => []AluInv
<1>1. ONE \in Bfloat /\ 0 \in 0..1
  BY OneIsBfloat, SMT
<1>2. Proper(ZeroAcc)
  <2>1. 0 \in Bits(1) /\ 0 \in Bits(5) /\ 0 \in Bits(16)
    BY Widths, SMT
  <2> QED BY <2>1, SMT DEF ZeroAcc, Proper, Acc
<1>3. 0 \in 0..STEPS /\ ~(0 > 0)
  BY StepsAssumption, SMT
<1>4. NoProduct.negate = 0
  BY SMT DEF NoProduct
<1>5. AluInit => AluInv
  <2>1. AluInit => Factored
    BY <1>1 DEF AluInit, Factored, NoProduct
  <2> QED BY <1>1, <1>2, <1>3, <1>4, <2>1 DEF AluInit, AluInv
<1>6. AluInv /\ [AluNext]_alu_vars => AluInv'
  <2> SUFFICES ASSUME AluInv, [AluNext]_alu_vars PROVE AluInv'
    OBVIOUS
  <2>1. ASSUME NEW x \in Bfloat, NEW y \in Bfloat, NEW n \in 0..1, step < STEPS,
               Accumulate(x, y, n)
        PROVE  AluInv'
    <3>1. Factored' /\ prod'.negate = n /\ prod'.p = MUL(x, y, n)
      BY <2>1 DEF Accumulate, Factored
    <3>2. MUL(x, y, n) \in AluProduct /\ (MUL(x, y, n).s = 1 => MUL(x, y, n).m \in Magnitude)
      BY MulType, Zenon
    <3>3. acc' = ADD(prod'.p, acc) /\ before' = acc /\ step' = step + 1
      BY <2>1, <3>1 DEF Accumulate
    <3>4. Proper(acc)
      BY DEF AluInv
    <3>5. Sound(prod'.p, acc, acc')
      BY <3>1, <3>2, <3>3, <3>4, AddSound, Zenon
    <3>6. Proper(acc')
      BY <3>5, Zenon DEF Sound
    <3>7. step' \in 0..STEPS /\ step' # 0
      BY <2>1, <3>3, StepsAssumption, SMT DEF AluInv
    <3> QED BY <3>1, <3>3, <3>4, <3>6, <3>7, Zenon DEF AluInv
  <2>2. CASE step < STEPS /\ \E x \in Inputs, y \in Factors : Multiply(x, y)
    BY <1>1, <2>1, <2>2, InputsAssumption DEF Multiply
  <2>3. CASE step < STEPS /\ \E x \in Inputs, negate \in 0..1 : AddOne(x, negate)
    BY <1>1, <2>1, <2>3, InputsAssumption DEF AddOne
  <2>4. CASE ClearAcc
    <3>1. Factored'
      BY <1>1, <2>4 DEF ClearAcc, Factored, NoProduct
    <3> QED BY <1>1, <1>2, <1>3, <1>4, <2>4, <3>1 DEF ClearAcc, AluInv
  <2>5. CASE UNCHANGED alu_vars
    BY <2>5 DEF alu_vars, AluInv, Factored
  <2> QED BY <2>2, <2>3, <2>4, <2>5 DEF AluNext
<1> QED BY <1>5, <1>6, PTL DEF AluSpec

\* What holds of the product of the last step.
LEMMA LastProduct ==
  ASSUME AluInv
  PROVE  /\ prod.p \in AluProduct
         /\ prod.p.s = 1 => prod.p.m \in Magnitude
         /\ prod.x.e = 0 \/ prod.y.e = 0 => prod.p = ZeroProduct
<1>1. /\ prod.x \in Bfloat /\ prod.y \in Bfloat /\ prod.negate \in 0..1
      /\ prod.p = MUL(prod.x, prod.y, prod.negate)
  BY DEF AluInv, Factored
<1>2. prod.x.e = 0 \/ prod.y.e = 0 => check_zero(prod.x, prod.y)
  BY DEF check_zero
<1> QED BY <1>1, <1>2, MulType, Zenon

\* A step loses less than a unit of the accumulator, for all numbers and any
\* number of steps, through alignment, dropping, cancellation and carry, except
\* where the carry leaves the exponent (ADD_module_OPT).
THEOREM StepErrorBounded == AluSpec => []StepWithinOneUnit
<1>1. AluInv => StepWithinOneUnit
  <2> SUFFICES ASSUME AluInv PROVE StepWithinOneUnit
    OBVIOUS
  <2>1. prod.p \in AluProduct /\ (prod.p.s = 1 => prod.p.m \in Magnitude)
    BY LastProduct, Zenon
  <2>2. AluTypeOK
    BY <2>1, Zenon DEF AluTypeOK, AluInv, Proper
  <2>3. ASSUME step > 0, acc.e >= prod.p.e
        PROVE  Error(prod.p, before, acc) \in -255..255
    <3>1. acc = ADD(prod.p, before) /\ Proper(before)
      BY <2>3, Zenon DEF AluInv
    <3>2. Sound(prod.p, before, acc)
      BY <2>1, <3>1, AddSound, Zenon
    <3> QED BY <2>3, <3>2 DEF Sound
  <2> QED BY <2>2, <2>3, Zenon DEF StepWithinOneUnit, Error
<1> QED BY <1>1, AluInductive, PTL

\* A factor of zero leaves the accumulator as it was, for all numbers and any
\* number of steps (check_zero of MUL_OPT).
THEOREM ZeroFactor == AluSpec => []ZeroAddsNothing
<1>1. AluInv => ZeroAddsNothing
  <2> SUFFICES ASSUME AluInv, step > 0, prod.x.e = 0 \/ prod.y.e = 0
               PROVE  acc = before
    BY DEF ZeroAddsNothing
  <2>1. prod.p = ZeroProduct
    BY LastProduct, Zenon
  <2>2. acc = ADD(prod.p, before) /\ Proper(before)
    BY DEF AluInv
  <2> QED BY <2>1, <2>2, AddZero, Zenon
<1> QED BY <1>1, AluInductive, PTL

-----------------------------------------------------------------------------
(***************************************************************************)
(* A number added to the cleared accumulator.                              *)
(***************************************************************************)
\* The powers of two up to the width of the accumulator.
LEMMA Powers ==
  /\ Pow2(0) = 1 /\ Pow2(1) = 2 /\ Pow2(2) = 4 /\ Pow2(3) = 8
  /\ Pow2(4) = 16 /\ Pow2(5) = 32 /\ Pow2(6) = 64 /\ Pow2(7) = 128
  /\ Pow2(8) = 256 /\ Pow2(9) = 512 /\ Pow2(10) = 1024 /\ Pow2(11) = 2048
  /\ Pow2(12) = 4096 /\ Pow2(13) = 8192 /\ Pow2(14) = 16384 /\ Pow2(15) = 32768
  /\ Pow2(16) = 65536
BY SMT DEF Pow2

\* The powers grow.
LEMMA PowersGrow ==
  ASSUME NEW i \in 0..15, NEW k \in 0..15, i < k
  PROVE  Pow2(i + 1) <= Pow2(k)
<1>1. \/ i = 0 \/ i = 1 \/ i = 2 \/ i = 3 \/ i = 4 \/ i = 5 \/ i = 6 \/ i = 7
      \/ i = 8 \/ i = 9 \/ i = 10 \/ i = 11 \/ i = 12 \/ i = 13 \/ i = 14
  BY SMT
<1>2. \/ k = 1 \/ k = 2 \/ k = 3 \/ k = 4 \/ k = 5 \/ k = 6 \/ k = 7
      \/ k = 8 \/ k = 9 \/ k = 10 \/ k = 11 \/ k = 12 \/ k = 13 \/ k = 14 \/ k = 15
  BY SMT
<1> QED BY <1>1, <1>2, Powers, SMT

\* There is one position of the leading one.
LEMMA LeadingIs ==
  ASSUME NEW m \in Nat, NEW k \in 0..15, Pow2(k) <= m, m < Pow2(k + 1)
  PROVE  Leading(m) = k
<1> DEFINE P(i) == Pow2(i) <= m /\ m < Pow2(i + 1)
<1>1. \E i \in 0..15 : P(i)
  OBVIOUS
<1>2. Leading(m) \in 0..15 /\ P(Leading(m))
  BY <1>1 DEF Leading
<1>3. PICK i \in 0..15 : i = Leading(m) /\ P(i)
  BY <1>2
<1>4. \A j \in 0..16 : Pow2(j) \in Nat
  <2>1. ASSUME NEW j \in 0..16 PROVE Pow2(j) \in Nat
    <3>1. \/ j = 0 \/ j = 1 \/ j = 2 \/ j = 3 \/ j = 4 \/ j = 5 \/ j = 6 \/ j = 7
          \/ j = 8 \/ j = 9 \/ j = 10 \/ j = 11 \/ j = 12 \/ j = 13 \/ j = 14
          \/ j = 15 \/ j = 16
      BY SMT
    <3> QED BY <3>1, Powers, SMT
  <2> QED BY <2>1
<1>5. i + 1 \in 0..16 /\ k + 1 \in 0..16 /\ i \in 0..16 /\ k \in 0..16
  BY SMT
<1>6. PICK a \in Nat, b \in Nat, c \in Nat, d \in Nat :
        a = Pow2(i) /\ b = Pow2(i + 1) /\ c = Pow2(k) /\ d = Pow2(k + 1)
  BY <1>4, <1>5
<1>7. a <= m /\ m < b /\ c <= m /\ m < d
  BY <1>3, <1>6
<1>8. ~(i < k)
  <2>1. i < k => b <= c
    BY <1>6, PowersGrow
  <2> QED BY <1>7, <2>1, SMT
<1>9. ~(k < i)
  <2>1. k < i => d <= a
    BY <1>6, PowersGrow
  <2> QED BY <1>7, <2>1, SMT
<1>10. i = k
  BY <1>8, <1>9, SMT
<1> QED BY <1>3, <1>10

\* The leading one of a significand shifted by l, and what is left of it when
\* it is shifted back.
Shifted(X, l, k, M) ==
  /\ k = Pow2(l) /\ M = X * k /\ M < 65536 /\ 0 < M /\ M \div k = X
  /\ Pow2(7 + l) <= M /\ M < Pow2((7 + l) + 1)

\* A significand has such a shifted form.
LEMMA ShiftedSignificand ==
  ASSUME NEW X \in Nat, 128 <= X, X < 256, NEW l \in 0..7
  PROVE  \E k \in Nat, M \in Nat : Shifted(X, l, k, M)
<1>1. ASSUME NEW k \in {1, 2, 4, 8, 16, 32, 64, 128}, k = Pow2(l), NEW b \in Nat, NEW c \in Nat,
             b = Pow2(7 + l), c = Pow2((7 + l) + 1), b = 128 * k, c = 256 * k
      PROVE  \E j \in Nat, M \in Nat : Shifted(X, l, j, M)
  <2>1. PICK M \in Nat : M = X * k
    BY <1>1, SMT
  <2>2. k \in Nat /\ k > 0 /\ k <= 128
    BY <1>1, SMT
  <2>3. M < 65536 /\ 0 < M /\ b <= M /\ M < c
    BY <1>1, <2>1, SMT
  <2>4. M \div k = X
    BY <1>1, <2>1, SMT
  <2>5. Shifted(X, l, k, M)
    BY <1>1, <2>1, <2>3, <2>4, SMT DEF Shifted
  <2> QED BY <2>2, <2>5, Zenon
<1>2. CASE l = 0
  BY <1>1, <1>2, Powers, SMT
<1>3. CASE l = 1
  BY <1>1, <1>3, Powers, SMT
<1>4. CASE l = 2
  BY <1>1, <1>4, Powers, SMT
<1>5. CASE l = 3
  BY <1>1, <1>5, Powers, SMT
<1>6. CASE l = 4
  BY <1>1, <1>6, Powers, SMT
<1>7. CASE l = 5
  BY <1>1, <1>7, Powers, SMT
<1>8. CASE l = 6
  BY <1>1, <1>8, Powers, SMT
<1>9. CASE l = 7
  BY <1>1, <1>9, Powers, SMT
<1> QED BY <1>2, <1>3, <1>4, <1>5, <1>6, <1>7, <1>8, <1>9, SMT

\* The adder takes a product of exponent 1 or more over into the cleared
\* accumulator.
LEMMA AddToCleared ==
  ASSUME NEW p, NEW t \in 0..1, NEW q \in Nat, NEW M \in Nat,
         p.s = t, p.e = q, mant_align(p) = M, q >= 1, 0 < M, M < 65536
  PROVE  ADD(p, ZeroAcc) = [s |-> t, e |-> q, m |-> M]
<1>1. ZeroAcc.s = 0 /\ ZeroAcc.e = 0 /\ ZeroAcc.m = 0
  BY SMT DEF ZeroAcc
<1>2. CASE q > 1
  BY <1>1, <1>2, SMT DEF ADD
<1>3. CASE q = 1
  <2>1. ADD(p, ZeroAcc) = AddClose(p, ZeroAcc)
    BY <1>1, <1>3, SMT DEF ADD
  <2>2. mul_aligned(p, ZeroAcc.e) = M
    BY <1>1, <1>3, SMT DEF mul_aligned
  <2>3. acc_aligned(p.e, ZeroAcc) = 0
    <3>1. 0 \div 256 = 0
      BY SMT
    <3> QED BY <1>1, <1>3, <3>1, SMT DEF acc_aligned
  <2>4. (IF p.e > ZeroAcc.e THEN p.e ELSE ZeroAcc.e) = 1
    BY <1>1, <1>3, SMT
  <2>5. CASE t = 0
    <3>1. AddClose(p, ZeroAcc) = Carried(0, 1, M + 0)
      BY <1>1, <2>2, <2>3, <2>4, <2>5, SMT DEF AddClose
    <3>2. Carried(0, 1, M + 0) = [s |-> 0, e |-> 1, m |-> M]
      BY SMT DEF Carried
    <3> QED BY <1>3, <2>1, <2>5, <3>1, <3>2, SMT
  <2>6. CASE t = 1
    <3>1. PICK diff \in Int : diff = 0 - M
      BY SMT
    <3>2. diff < 0 /\ -diff = M
      BY <3>1, SMT
    <3>3. AddClose(p, ZeroAcc) = [s |-> IF diff < 0 THEN 1 ELSE 0, e |-> 1,
                                  m |-> IF diff < 0 THEN -diff ELSE diff]
      BY <1>1, <2>2, <2>3, <2>4, <2>6, <3>1, SMT DEF AddClose
    <3>4. AddClose(p, ZeroAcc) = [s |-> 1, e |-> 1, m |-> M]
      BY <3>2, <3>3, SMT
    <3> QED BY <1>3, <2>1, <2>6, <3>4, SMT
  <2> QED BY <2>5, <2>6, SMT
<1> QED BY <1>2, <1>3, SMT

\* A number times one, added to the cleared accumulator and normalised.
LEMMA LoadedNumber ==
  ASSUME NEW x \in [s: 0..1, e: 8..255, m: 0..127], NEW negate \in 0..1
  PROVE  NORM(ADD(MUL(x, ONE, negate), ZeroAcc)) = [x EXCEPT !.s = Xor(@, negate)]
<1>1. PICK xs \in 0..1, xe \in 8..255, xm \in 0..127 :
        x = [s |-> xs, e |-> xe, m |-> xm]
  BY Zenon
<1>2. x.s = xs /\ x.e = xe /\ x.m = xm
  BY <1>1
<1>3. ONE.s = 0 /\ ONE.e = 127 /\ ONE.m = 0
  BY SMT DEF ONE
<1>4. exp_bias_sub(x, ONE) = xe
  BY <1>2, <1>3, SMT DEF exp_bias_sub
<1>5. ~check_zero(x, ONE)
  BY <1>2, <1>3, <1>4, SMT DEF check_zero
<1>6. PICK q \in Nat, l \in 0..7 : q = xe \div 8 /\ l = xe % 8
  BY SMT
<1>7. q >= 1 /\ 8 * q + l = xe
  BY <1>6, SMT
<1>8. PICK X \in Nat : X = 128 + xm
  BY SMT
<1>9. 128 <= X /\ X < 256 /\ X % 128 = xm
  BY <1>8, SMT
<1>10. mul_mant(128 + x.m, 128 + ONE.m) = 8 * X
  <2>1. 128 \div 16 = 8 /\ 128 % 16 = 0 /\ 128 + ONE.m = 128
    BY <1>3, SMT
  <2>2. PICK z \in Nat : z = X \div 16
    BY SMT
  <2>3. mul_mant(X, 128) = X * 8 + z * 0
    BY <2>1, <2>2, SMT DEF mul_mant
  <2> QED BY <1>2, <1>8, <2>1, <2>3, SMT
<1>11. PICK t \in 0..1 : t = Xor(xs, negate)
  BY SMT DEF Xor
<1>12. Xor(Xor(x.s, ONE.s), negate) = t
  <2>1. Xor(xs, 0) = xs
    BY SMT DEF Xor
  <2> QED BY <1>2, <1>3, <1>11, <2>1
<1> DEFINE p == MUL(x, ONE, negate)
<1>13. p = [s |-> t, e |-> q, m |-> 8 * X, low |-> l]
  <2>1. ~(q = 0)
    BY <1>7, SMT
  <2> QED BY <1>4, <1>5, <1>6, <1>10, <1>12, <2>1 DEF MUL
<1>14. p.s = t /\ p.e = q /\ p.m = 8 * X /\ p.low = l
  BY <1>13
<1> HIDE DEF p
<1>15. PICK k \in Nat, M \in Nat :
         /\ k = Pow2(l) /\ M = X * k /\ M < 65536 /\ 0 < M /\ M \div k = X
         /\ Pow2(7 + l) <= M /\ M < Pow2((7 + l) + 1)
  <2>1. 128 <= X /\ X < 256
    BY <1>9
  <2>2. \E k \in Nat, M \in Nat : Shifted(X, l, k, M)
    BY <2>1, ShiftedSignificand, Zenon
  <2> QED BY <2>2, SMT DEF Shifted
<1>16. mant_align(p) = M
  <2>1. (8 * X) * k = 8 * M
    BY <1>15, SMT
  <2>2. (8 * M) \div 8 = M /\ M % 65536 = M
    BY <1>15, SMT
  <2> QED BY <1>14, <1>15, <2>1, <2>2 DEF mant_align
<1>17. ADD(p, ZeroAcc) = [s |-> t, e |-> q, m |-> M]
  BY <1>7, <1>14, <1>15, <1>16, AddToCleared, SMT
<1>18. PICK i \in 0..15 : i = 7 + l
  BY SMT
<1>19. Leading(M) = i
  BY <1>15, <1>18, LeadingIs, SMT
<1>20. i >= 7 /\ i - 7 = l /\ (8 * q + i - 7) % 256 = xe
  BY <1>7, <1>18, SMT
<1> DEFINE r == ADD(p, ZeroAcc)
<1>21. r.s = t /\ r.e = q /\ r.m = M /\ M # 0
  BY <1>15, <1>17, SMT
<1> HIDE DEF r
<1>22. NORM(r) = [s |-> t, e |-> xe, m |-> xm]
  BY <1>9, <1>15, <1>19, <1>20, <1>21, SMT DEF NORM
<1>23. [x EXCEPT !.s = Xor(@, negate)] = [s |-> t, e |-> xe, m |-> xm]
  BY <1>1, <1>11, SMT
<1> QED BY <1>22, <1>23 DEF r, p

\* Every number from exponent 8 upwards that is added to the cleared
\* accumulator comes back as it was, or negated if that was asked for: the
\* three modules MUL_OPT, ADD_module_OPT and NORM_stage_DEBUG cancel out.
THEOREM LoadExact == AluSpec => []LoadIsExact
<1>1. AluInv => LoadIsExact
  <2> SUFFICES ASSUME AluInv, step = 0,
                      NEW x \in [s: 0..1, e: 8..255, m: 0..127], NEW negate \in 0..1
               PROVE  NORM(ADD(MUL(x, ONE, negate), acc)) = [x EXCEPT !.s = Xor(@, negate)]
    BY Zenon DEF LoadIsExact
  <2>1. acc = ZeroAcc
    BY Zenon DEF AluInv
  <2> QED BY <2>1, LoadedNumber, Zenon
<1> QED BY <1>1, AluInductive, PTL
=============================================================================
