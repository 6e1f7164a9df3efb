---------------------------- MODULE MCBfloatAlu -----------------------------
(***************************************************************************)
(* Numbers for BfloatAlu.                                                  *)
(***************************************************************************)
EXTENDS BfloatAlu

Number(s, e, m) == [s |-> s, e |-> e, m |-> m]

\* Zero, small, one, numbers whose exponents fall into the same, the next and
\* the next but one step of the accumulator, and the largest.
Samples == {Number(0, 0, 0), Number(1, 12, 5), Number(0, 127, 0),
            Number(1, 127, 85), Number(0, 126, 127), Number(0, 134, 127),
            Number(1, 135, 127), Number(1, 136, 1), Number(1, 143, 127),
            Number(0, 143, 127), Number(0, 151, 64), Number(0, 254, 127)}
SampleFactors == {Number(0, 0, 0), Number(1, 127, 127), Number(0, 134, 127)}
=============================================================================
