----------------------------- MODULE BfloatAlu ------------------------------
(***************************************************************************)
(* The arithmetic of a lane: MUL_OPT, the sign rule of                     *)
(* bfloat_MAC_pipe_OPT, ADD_module_OPT and NORM_stage_DEBUG, as functions  *)
(* of their inputs, and the accumulation they implement.                   *)
(*                                                                         *)
(* A bfloat16 number is [s, e, m]: sign, 8-bit exponent, 7-bit fraction.   *)
(* The accumulator is [s, e, m] with a 5-bit exponent and a 16-bit         *)
(* magnitude: its value is m * 2^(8e - 134).  A product is [s, e, m, low]: *)
(* the upper 5 bits of its exponent, a 12-bit magnitude, and the lower 3   *)
(* bits of the exponent (exp_control).                                     *)
(***************************************************************************)
EXTENDS Integers

CONSTANTS Inputs,   \* the numbers read from memory
          Factors,  \* the numbers they are multiplied by
          STEPS     \* bound: products per accumulation

Pow2(n) == 2 ^ n

\* The numbers of w bits.
Bits(w) == 0..(Pow2(w) - 1)

Bfloat  == [s: Bits(1), e: Bits(8), m: Bits(7)]
AluProduct == [s: Bits(1), e: Bits(5), m: Bits(12), low: Bits(3)]
Acc     == [s: Bits(1), e: Bits(5), m: Bits(16)]

ASSUME InputsAssumption == Inputs \subseteq Bfloat /\ Factors \subseteq Bfloat
ASSUME StepsAssumption == STEPS \in Nat

ONE == [s |-> 0, e |-> 127, m |-> 0]
ZeroAcc == [s |-> 0, e |-> 0, m |-> 0]

Xor(s, t) == (s + t) % 2

-----------------------------------------------------------------------------
(***************************************************************************)
(* MUL_OPT.  The product of the significands leaves out the product of     *)
(* their lower halves.                                                     *)
(***************************************************************************)
\* A defective variant: the cross product is left out as well.
mul_mant_HighOnly(x, y) == x * (y \div 16)

mul_mant(x, y) == x * (y \div 16) + (x \div 16) * (y % 16)

\* Defective variants: the bias is 128; only one factor is tested for zero.
exp_bias_sub_128(x, y) == (x.e + y.e - 128) % 512
check_zero_FirstOnly(x, y) == x.e = 0 \/ (x.e + y.e - 127) % 512 >= 256

\* exp_bias_sub is a 9-bit difference; its top bit flags both underflow and
\* overflow, and either makes the product zero.
exp_bias_sub(x, y) == (x.e + y.e - 127) % 512
check_zero(x, y) == x.e = 0 \/ y.e = 0 \/ exp_bias_sub(x, y) >= 256

\* A product with an exponent below 8 loses its sign (mul_result_zero).
\* negate is set for the negated side of a difference.
MUL(x, y, negate) ==
  LET e == exp_bias_sub(x, y)
  IN  IF check_zero(x, y) THEN [s |-> 0, e |-> 0, m |-> 0, low |-> 0]
      ELSE [s |-> IF e \div 8 = 0 THEN 0 ELSE Xor(Xor(x.s, y.s), negate),
            e |-> e \div 8,
            m |-> mul_mant(128 + x.m, 128 + y.m),
            low |-> e % 8]

-----------------------------------------------------------------------------
(***************************************************************************)
(* ADD_module_OPT.                                                         *)
(***************************************************************************)
mant_align(p) == ((p.m * Pow2(p.low)) \div 8) % 65536

\* Of two exponents one apart, the smaller number is shifted by a byte.
mul_aligned(p, acc_e) ==
  IF p.e + 1 = acc_e THEN mant_align(p) \div 256 ELSE mant_align(p)

\* A defective variant: the accumulator is not shifted.
acc_aligned_NoShift(p_e, acc) == acc.m

acc_aligned(p_e, acc) == IF p_e = acc.e + 1 THEN acc.m \div 256 ELSE acc.m

\* mant_ovf: a sum of 17 bits moves to the next exponent.
Carried(s, e, sum) ==
  IF sum < 65536 THEN [s |-> s, e |-> e, m |-> sum]
  ELSE [s |-> s, e |-> (e + 1) % 32, m |-> sum \div 256]

\* The exponents are at most one apart (cases 2 to 4 of the code).
AddClose(p, acc) ==
  LET mul == mul_aligned(p, acc.e)
      old == acc_aligned(p.e, acc)
      large_exp == IF p.e > acc.e THEN p.e ELSE acc.e
      diff == IF p.s = 1 THEN old - mul ELSE mul - old
  IN  IF p.s = acc.s THEN Carried(p.s, large_exp, mul + old)
      ELSE [s |-> IF diff < 0 THEN 1 ELSE 0, e |-> large_exp,
            m |-> IF diff < 0 THEN -diff ELSE diff]

\* Otherwise the larger one is kept and the other dropped.
ADD(p, acc) ==
  IF p.e > acc.e + 1 THEN [s |-> p.s, e |-> p.e, m |-> mant_align(p)]
  ELSE IF p.e + 1 < acc.e THEN acc
  ELSE AddClose(p, acc)

-----------------------------------------------------------------------------
(***************************************************************************)
(* NORM_stage_DEBUG: one line of the code per position of the leading one. *)
(***************************************************************************)
Leading(m) == CHOOSE i \in 0..15 : Pow2(i) <= m /\ m < Pow2(i + 1)

NORM(acc) ==
  IF acc.m = 0 THEN [s |-> acc.s, e |-> 8 * acc.e, m |-> 0]
  ELSE LET i == Leading(acc.m)
           shifted == IF i >= 7 THEN acc.m \div Pow2(i - 7)
                      ELSE acc.m * Pow2(7 - i)
       IN  [s |-> acc.s, e |-> (8 * acc.e + i - 7) % 256, m |-> shifted % 128]

-----------------------------------------------------------------------------
(***************************************************************************)
(* An accumulation, one product at a time.                                 *)
(***************************************************************************)
VARIABLES acc,     \* vACC of the lane
          before,  \* history: vACC before the last step
          prod,    \* history: the product of the last step, and its factors
          step     \* history: steps since the accumulator was cleared

alu_vars == <<acc, before, prod, step>>

NoProduct == [x |-> ONE, y |-> ONE, negate |-> 0, p |-> MUL(ONE, ONE, 0)]

AluInit == acc = ZeroAcc /\ before = ZeroAcc /\ prod = NoProduct /\ step = 0

Accumulate(x, y, negate) ==
  /\ prod' = [x |-> x, y |-> y, negate |-> negate, p |-> MUL(x, y, negate)]
  /\ acc' = ADD(MUL(x, y, negate), acc)
  /\ before' = acc
  /\ step' = step + 1

\* A step of a matrix product or an element-wise product.
Multiply(x, y) == Accumulate(x, y, 0)

\* A step of a sum or a difference: the other factor is one.
AddOne(x, negate) == Accumulate(x, ONE, negate)

\* The result was written: the accumulator is cleared.
ClearAcc == acc' = ZeroAcc /\ before' = ZeroAcc /\ prod' = NoProduct /\ step' = 0

AluNext ==
  \/ step < STEPS /\ \E x \in Inputs, y \in Factors : Multiply(x, y)
  \/ step < STEPS /\ \E x \in Inputs, negate \in 0..1 : AddOne(x, negate)
  \/ ClearAcc

AluSpec == AluInit /\ [][AluNext]_alu_vars

-----------------------------------------------------------------------------
AluTypeOK ==
  /\ acc \in Acc /\ before \in Acc /\ step \in 0..STEPS
  /\ prod.p \in AluProduct

\* The product of the significands is at most 225 units too small, of the 16
\* that its last bit stands for (bank_top_GDDR6.v:1887: only three of the four
\* partial products are computed).
ProductTruncated ==
  LET X == 128 + prod.x.m
      Y == 128 + prod.y.m
  IN  prod.p.m > 0 => X * Y - 16 * prod.p.m \in 0..225

\* n units of the last place of a number whose exponent is d smaller than the
\* accumulator's, in 1/256 of the accumulator's unit, towards zero.
Scaled(n, d) == CASE d = 0 -> 256 * n
                  [] d = 1 -> n
                  [] d = 2 -> n \div 256
                  [] OTHER -> 0

Signed(s, n) == IF s = 1 THEN -n ELSE n

\* A step loses less than one unit in the last place of the new accumulator,
\* through alignment, the dropping of the smaller operand, cancellation and
\* carry (ADD_module_OPT), unless the carry leaves the 5-bit exponent.  (With
\* the widths of the accumulator and the product.)
StepWithinOneUnit ==
  LET p == prod.p
      exact == Signed(p.s, Scaled(mant_align(p), acc.e - p.e)) +
               Signed(before.s, Scaled(before.m, acc.e - before.e))
      got == 256 * Signed(acc.s, acc.m)
  IN  /\ AluTypeOK
      /\ step > 0 /\ acc.e >= p.e => got - exact \in -255..255

\* A factor of zero leaves the accumulator as it was, whatever the other
\* factor (check_zero of MUL_OPT).  BankPipe relies on it: in the cycles in
\* which no operand B was loaded the second factor is zero.
ZeroAddsNothing ==
  step > 0 /\ (prod.x.e = 0 \/ prod.y.e = 0) => acc = before

\* Every number added to the cleared accumulator comes back as it was, or
\* negated if that was asked for: multiplying by one, aligning to the
\* accumulator's exponent in steps of 8 and normalising again is exact, from
\* exponent 8 upwards.
LoadIsExact ==
  step = 0 =>
    \A x \in [s: 0..1, e: 8..255, m: 0..127], negate \in 0..1 :
      NORM(ADD(MUL(x, ONE, negate), acc)) = [x EXCEPT !.s = Xor(@, negate)]
=============================================================================
