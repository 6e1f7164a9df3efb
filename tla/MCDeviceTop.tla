---------------------------- MODULE MCDeviceTop -----------------------------
(***************************************************************************)
(* Chains and control sequences for DeviceTop.  The addresses are those of *)
(* vcs_sim/sim/testbench.v; the operands are a few beats long.             *)
(***************************************************************************)
EXTENDS DeviceTop

A_BASE == 16777216      \* 32'h0100_0000
B_BASE == 16785408      \* 32'h0100_2000
C_BASE == 16793600      \* 32'h0100_4000
DUMMY  == 33554432      \* the side of the transfer that is not an operand

\* Data that looks like an indirect descriptor.
Noise == [Desc!ZeroWord EXCEPT !.indirect = TRUE, !.src = 4]

\* Data that does not.
Silence == Desc!ZeroWord

Source(type, base, n, config) ==
  [word |-> [Desc!ZeroWord EXCEPT !.src = base, !.dst = DUMMY, !.size = 32 * n,
             !.info = [dst |-> FALSE, type |-> {type}, config |-> config]],
   type |-> type, base |-> base, beats |-> n]

Result(base, n, config) ==
  [word |-> [Desc!ZeroWord EXCEPT !.src = DUMMY, !.dst = base, !.size = 32 * n,
             !.info = [dst |-> TRUE, type |-> {"C"}, config |-> config]],
   type |-> "C", base |-> base, beats |-> n]

\* A source operand at args + offset, the address given to the host by reg.
Indirect(type, reg, offset, n, config) ==
  LET d == Source(type, reg + offset, n, config)
  IN  [d EXCEPT !.word.indirect = TRUE, !.word.immediate = TRUE,
                !.word.src = offset]

Args == [A |-> A_BASE, B |-> B_BASE, C |-> C_BASE]

\* Switch on, then clear.
OnThenClear == << [addr |-> Desc!AIM_WORK_SIG, args |-> Desc!NoArgs],
                  [addr |-> Desc!HPC_CLR_SIG, args |-> Desc!NoArgs] >>
WithArgs == OnThenClear \o
              << [addr |-> Desc!MM_INDIRECT_ARGS, args |-> Args] >>

\* Vector, matrix, result; then the next vector.
MatVec == << Source("A", A_BASE, 1, 1), Source("B", B_BASE, 2, 1),
             Result(C_BASE, 2, 1) >>
\* Operands of the same type one after the other, of different sizes, two of
\* them indirect, with the argument registers as the code selects them.
Repeat == << Indirect("A", B_BASE, 64, 2, 1), Source("A", A_BASE, 1, 2),
             Indirect("B", C_BASE, 128, 1, 2), Result(A_BASE + 64, 1, 2),
             Result(A_BASE + 128, 2, 3) >>

\* The address just past the result operand.
Neighbours == {C_BASE + 64}
=============================================================================
