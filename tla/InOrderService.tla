--------------------------- MODULE InOrderService ---------------------------
(***************************************************************************)
(* What the descriptor unit, the operand sequencer and the banks rely on   *)
(* the request path for: the read and write commands seen on the memory    *)
(* bus reach them one at a time, in bus order, each exactly once, and a    *)
(* read reaches them together with the data the memory returned for it.    *)
(* A write to a result operand ("bypass") is not queued: it reaches them   *)
(* in the cycle in which it is on the bus, and holds the others back.      *)
(***************************************************************************)
EXTENDS Naturals, Sequences

CONSTANTS Tag,     \* everything about a command except its direction
          Data,    \* the words the memory returns
          NoData   \* stands for the data of a write

\* A command with the data that belongs to it.
Request == [rd: {TRUE}, tag: Tag, data: Data] \cup
           [rd: {FALSE}, tag: Tag, data: {NoData}]

VARIABLES pending,    \* accepted requests, oldest first
          delivered   \* the request of the last cycle: <<>>, or <<request>>

vars == <<pending, delivered>>

Init == pending = <<>> /\ delivered = <<>>

\* Hand over the oldest request, if there is one and it is ready, and accept
\* the command on the bus, if there is one.
Cycle(accepted) ==
  /\ \/ /\ pending # <<>>
        /\ delivered' = <<Head(pending)>>
        /\ pending' = Tail(pending) \o accepted
     \/ /\ delivered' = <<>>
        /\ pending' = pending \o accepted

\* A result write goes straight through; nothing else moves.
Bypass(w) ==
  /\ delivered' = <<w>>
  /\ UNCHANGED pending

Reset ==
  /\ pending' = <<>>
  /\ delivered' = <<>>

Next ==
  \/ Cycle(<<>>)
  \/ \E q \in Request : Cycle(<<q>>)
  \/ \E t \in Tag : Bypass([rd |-> FALSE, tag |-> t, data |-> NoData])
  \/ Reset

Spec == Init /\ [][Next]_vars
=============================================================================
