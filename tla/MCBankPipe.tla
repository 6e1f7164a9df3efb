----------------------------- MODULE MCBankPipe -----------------------------
(***************************************************************************)
(* BankPipe with vectors of three elements.                                *)
(***************************************************************************)
EXTENDS BankPipe

\* A matrix-vector product, an element-wise product and a difference, A and B
\* broadcast or not.
Configs ==
  { [NoConfig EXCEPT !.op = "MAC", !.dup = TRUE, !.castA = TRUE],
    [NoConfig EXCEPT !.op = "MUL"],
    [NoConfig EXCEPT !.op = "SUB", !.startB = TRUE, !.castB = TRUE] }
=============================================================================
