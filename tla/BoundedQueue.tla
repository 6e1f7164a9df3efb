---------------------------- MODULE BoundedQueue ----------------------------
(***************************************************************************)
(* What a client of the device's FIFOs relies on: a first-in first-out     *)
(* queue of at most Capacity words.  "taken" is the word the client        *)
(* latched at its last read.                                               *)
(***************************************************************************)
EXTENDS Naturals, Sequences

CONSTANTS Word,      \* the words that are queued
          Capacity   \* how many of them fit

VARIABLES queue, taken

vars == <<queue, taken>>

Init == queue = <<>> /\ taken \in Word

Enqueue(w) ==
  /\ Len(queue) < Capacity
  /\ queue' = Append(queue, w)
  /\ UNCHANGED taken

Dequeue ==
  /\ queue # <<>>
  /\ queue' = Tail(queue)
  /\ taken' = Head(queue)

\* A read and a write in the same clock cycle.
Exchange(w) ==
  /\ queue # <<>>
  /\ queue' = Append(Tail(queue), w)
  /\ taken' = Head(queue)

Clear ==
  /\ queue' = <<>>
  /\ UNCHANGED taken

Next ==
  \/ \E w \in Word : Enqueue(w) \/ Exchange(w)
  \/ Dequeue
  \/ Clear

Spec == Init /\ [][Next]_vars
=============================================================================
