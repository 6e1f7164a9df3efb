----------------------------- MODULE TaskDeque ------------------------------
(***************************************************************************)
(* What a RunQueue promises: a deque of tasks in which every task leaves   *)
(* exactly once, popped at its front, popped at its back, or revoked from  *)
(* wherever it is by the thread whose tag it carries.  Each operation is   *)
(* atomic.                                                                 *)
(***************************************************************************)
EXTENDS Integers, Sequences

CONSTANTS Owner, Others, Watchers, Work, NoWork, NoThread

VARIABLES
  deque,  \* from back to front: [w, tag]
  got     \* the task a thread has claimed and not yet moved out

Thread == {Owner} \cup Others \cup Watchers

Entry == [w: Work, tag: Others \cup {NoThread}]

Init == deque = <<>> /\ got = [t \in Thread |-> NoWork]

PushFront ==
  LET d == deque
  IN
  /\ UNCHANGED got
  /\ deque' \in {Append(d, [w |-> w, tag |-> NoThread]) : w \in Work}

PushBack ==
  LET d == deque
  IN
  /\ UNCHANGED got
  /\ deque' \in {<<e>> \o d : e \in Entry}

PopFront ==
  /\ got[Owner] = NoWork /\ deque # <<>>
  /\ got' = [got EXCEPT ![Owner] = deque[Len(deque)].w]
  /\ deque' = SubSeq(deque, 1, Len(deque) - 1)

PopBack(t) ==
  /\ got[t] = NoWork /\ deque # <<>>
  /\ got' = [got EXCEPT ![t] = Head(deque).w]
  /\ deque' = Tail(deque)

RevokeWithTag(t) ==
  LET d == deque
  IN
  /\ UNCHANGED got
  /\ deque' \in {SubSeq(d, 1, i - 1) \o SubSeq(d, i + 1, Len(d)) :
                  i \in {i \in 1..Len(d) : d[i].tag = t}}

Return(t) ==
  /\ got[t] # NoWork
  /\ got' = [got EXCEPT ![t] = NoWork]
  /\ UNCHANGED deque

Next ==
  \/ PushFront \/ PushBack \/ PopFront
  \/ \E t \in Others : PopBack(t) \/ RevokeWithTag(t)
  \/ \E t \in Thread : Return(t)

Spec == Init /\ [][Next]_<<deque, got>>
=============================================================================
