------------------------------ MODULE RunQueue ------------------------------
(***************************************************************************)
(* The run queue of a thread-pool worker                                   *)
(* (EigenNonBlockingThreadPool.h, class RunQueue): an array whose elements *)
(* are claimed by compare-and-swap.  The owner pushes and pops at the      *)
(* front without a lock; other threads push, pop and revoke at the back    *)
(* under a mutex; any thread may ask whether the queue is empty.           *)
(*                                                                         *)
(* An action is one atomic access, with the unsynchronised accesses that   *)
(* the element's state kBusy or the mutex protects.  Atomics are           *)
(* sequentially consistent.  A load of a state and the compare-and-swap    *)
(* that follows it are one step: either of them failing has the effect of  *)
(* the whole step failing at that instant.  An operation that returns      *)
(* without effect (push into a full queue, pop from an empty one) is no    *)
(* step.  The tag of a thread is the thread: see ParallelSection for tags  *)
(* that are not unique.                                                    *)
(***************************************************************************)
EXTENDS Integers, Sequences, FiniteSets

CONSTANTS
  kSize,      \* elements of the array
  Owner,      \* the worker that owns the queue
  Others,     \* the threads that push, pop and revoke at the back
  Watchers,   \* threads that only ask whether it is empty
  Work, NoWork, NoThread,
  MAX_OFFERS  \* tagged tasks a thread may have to revoke at a time

ASSUME SizeAssumption == kSize \in Nat /\ kSize > 2
ASSUME ThreadAssumption ==
  /\ Owner \notin Others \cup Watchers /\ NoThread \notin Others
  /\ Others \cap Watchers = {}
ASSUME WorkAssumption == NoWork \notin Work

Thread == {Owner} \cup Others \cup Watchers
Slot == 0..(kSize - 1)
ElemState == {"kEmpty", "kBusy", "kReady", "kRevoked"}

VARIABLES
  front_, back_,  \* rolling indices, without their modification counters
  array_,         \* [Slot -> [state, tag, w]]
  mutex_,
  pc,             \* what each thread does next
  elem, item,     \* the element it has claimed and the task it pushes
  offers,         \* the elements it has got from PushBackWithTag
  moved,          \* SizeOrNotEmpty: front_ was stored since it was read
  maybe_zero,     \* SizeOrNotEmpty: the indices it has read are equal
  present         \* history: the tasks in the queue since Empty was called

queue_vars == <<front_, back_, array_, mutex_>>
local_vars == <<elem, item, offers>>
empty_vars == <<moved, maybe_zero, present>>
vars == <<queue_vars, pc, local_vars, empty_vars>>

Elem(state, tag, w) == [state |-> state, tag |-> tag, w |-> w]

\* An index holds log2(kSize) + 1 bits.
Index == 0..(2 * kSize - 1)
Up(i) == (i + 1) % (2 * kSize)
Down(i) == (i + 2 * kSize - 1) % (2 * kSize)
kMask(i) == i % kSize

Init ==
  /\ front_ = 0 /\ back_ = 0 /\ mutex_ = NoThread
  /\ array_ = [s \in Slot |-> Elem("kEmpty", NoThread, NoWork)]
  /\ pc = [t \in Thread |-> "idle"]
  /\ elem = [t \in Thread |-> 0]
  /\ item = [t \in Thread |-> NoWork]
  /\ offers = [t \in Others |-> {}]
  /\ moved = [t \in Watchers |-> FALSE]
  /\ maybe_zero = [t \in Watchers |-> FALSE]
  /\ present = [t \in Watchers |-> {}]

-----------------------------------------------------------------------------
(***************************************************************************)
(* The pieces that the operations are made of.                             *)
(***************************************************************************)
Goto(t, l) == pc' = [pc EXCEPT ![t] = l]
At(t, l) == pc[t] = l

InEmpty(t) == pc[t] \in {"Empty_back", "Empty_front"}

\* Tasks that are neither in the array nor about to be.  A popped task is the
\* caller's once it has been moved out of its element.
Fresh == Work \ ({array_[s].w : s \in Slot} \cup {item[t] : t \in Thread})

\* kEmpty, kReady or kRevoked to kBusy.
Claim(t, s) ==
  /\ array_' = [array_ EXCEPT ![s].state = "kBusy"]
  /\ elem' = [elem EXCEPT ![t] = s]

\* A task leaves the queue: nobody can rely on having seen it.
Leaves(w) == present' = [t \in Watchers |-> present[t] \ {w}]

StoreFront(i) ==
  /\ front_' = i
  /\ moved' = [t \in Watchers |-> InEmpty(t)]

Return(t) ==
  /\ Goto(t, "idle")
  /\ elem' = [elem EXCEPT ![t] = 0]
  /\ item' = [item EXCEPT ![t] = NoWork]

-----------------------------------------------------------------------------
(***************************************************************************)
(* The owner: PushFront and PopFront.                                      *)
(***************************************************************************)
PushFront(w) ==
  LET e == kMask(front_)
  IN
  /\ At(Owner, "idle") /\ array_[e].state = "kEmpty"
  /\ Claim(Owner, e)
  /\ item' = [item EXCEPT ![Owner] = w]
  /\ Goto(Owner, "PushFront_index")
  /\ UNCHANGED <<front_, back_, mutex_, offers, empty_vars>>

\* A defective variant: only the modification counter of front_ is raised.
PushFrontIndex_CounterOnly ==
  /\ At(Owner, "PushFront_index")
  /\ StoreFront(front_)
  /\ Goto(Owner, "PushFront_ready")
  /\ UNCHANGED <<back_, array_, mutex_, local_vars, maybe_zero, present>>

PushFrontIndex ==
  /\ At(Owner, "PushFront_index")
  /\ StoreFront(Up(front_))
  /\ Goto(Owner, "PushFront_ready")
  /\ UNCHANGED <<back_, array_, mutex_, local_vars, maybe_zero, present>>

PushFrontReady ==
  /\ At(Owner, "PushFront_ready")
  /\ array_' = [array_ EXCEPT
                  ![elem[Owner]] = Elem("kReady", NoThread, item[Owner])]
  /\ Return(Owner)
  /\ UNCHANGED <<front_, back_, mutex_, offers, empty_vars>>

\* The first element, if it is revoked or ready.  In the loop that drains
\* revoked elements an element in another state ends the operation.
PopFront ==
  LET e == kMask(Down(front_))
  IN
  /\ At(Owner, "idle") \/ At(Owner, "PopFront")
  /\ \/ /\ array_[e].state = "kRevoked"
        /\ Claim(Owner, e)
        /\ Goto(Owner, "PopFront_drain")
        /\ UNCHANGED present
     \/ /\ array_[e].state = "kReady"
        /\ Claim(Owner, e)
        /\ Goto(Owner, "PopFront_take")
        /\ Leaves(array_[e].w)
     \/ /\ array_[e].state \notin {"kRevoked", "kReady"}
        /\ At(Owner, "PopFront") /\ Goto(Owner, "idle")
        /\ UNCHANGED <<array_, elem, present>>
  /\ UNCHANGED <<front_, back_, mutex_, item, offers, moved, maybe_zero>>

PopFrontEmpty ==
  /\ \/ At(Owner, "PopFront_drain") /\ Goto(Owner, "PopFront_drained")
     \/ At(Owner, "PopFront_take") /\ Goto(Owner, "PopFront_taken")
  /\ array_' = [array_ EXCEPT
                  ![elem[Owner]] = Elem("kEmpty", NoThread, NoWork)]
  /\ UNCHANGED <<front_, back_, mutex_, local_vars, empty_vars>>

\* A defective variant: draining a revoked element does not move the front.
PopFrontIndex_DrainStays ==
  /\ \/ /\ At(Owner, "PopFront_drained")
        /\ Goto(Owner, "PopFront")
        /\ elem' = [elem EXCEPT ![Owner] = 0]
        /\ StoreFront(front_)
        /\ UNCHANGED item
     \/ At(Owner, "PopFront_taken") /\ Return(Owner) /\ StoreFront(Down(front_))
  /\ UNCHANGED <<back_, array_, mutex_, offers, maybe_zero, present>>

PopFrontIndex ==
  /\ \/ /\ At(Owner, "PopFront_drained")
        /\ Goto(Owner, "PopFront")
        /\ elem' = [elem EXCEPT ![Owner] = 0]
        /\ UNCHANGED item
     \/ At(Owner, "PopFront_taken") /\ Return(Owner)
  /\ StoreFront(Down(front_))
  /\ UNCHANGED <<back_, array_, mutex_, offers, maybe_zero, present>>

-----------------------------------------------------------------------------
(***************************************************************************)
(* The other threads: PushBack, PushBackWithTag, PopBack, RevokeWithTag.   *)
(***************************************************************************)

\* The tag is the thread's own in PushBackWithTag and the default in PushBack.
PushBack(t, w) ==
  LET e == kMask(Down(back_))
  IN
  /\ At(t, "idle") /\ mutex_ = NoThread
  /\ array_[e].state = "kEmpty"
  /\ mutex_' = t
  /\ Claim(t, e)
  /\ item' = [item EXCEPT ![t] = w]
  /\ \/ Goto(t, "PushBack_index")
     \/ Goto(t, "PushBackWithTag_index") /\ Cardinality(offers[t]) < MAX_OFFERS
  /\ UNCHANGED <<front_, back_, offers, empty_vars>>

PushBackIndex(t) ==
  /\ \/ At(t, "PushBack_index") /\ Goto(t, "PushBack_ready")
     \/ At(t, "PushBackWithTag_index") /\ Goto(t, "PushBackWithTag_ready")
  /\ back_' = Down(back_)
  /\ UNCHANGED <<front_, array_, mutex_, local_vars, empty_vars>>

PushBackReady(t) ==
  /\ \/ /\ At(t, "PushBack_ready")
        /\ array_' = [array_ EXCEPT
                        ![elem[t]] = Elem("kReady", NoThread, item[t])]
        /\ UNCHANGED offers
     \/ /\ At(t, "PushBackWithTag_ready")
        /\ array_' = [array_ EXCEPT ![elem[t]] = Elem("kReady", t, item[t])]
        /\ offers' = [offers EXCEPT ![t] = @ \cup {elem[t]}]
  /\ mutex_' = NoThread
  /\ Return(t)
  /\ UNCHANGED <<front_, back_, empty_vars>>

\* Empty has said that there may be an element.  Its answer is true of the
\* instant at which it read back_ (EmptyMissesNothing), so it is one step.
PopBackBegin(t) ==
  /\ At(t, "idle") /\ front_ # back_
  /\ Goto(t, "PopBack")
  /\ UNCHANGED <<queue_vars, local_vars, empty_vars>>

\* The last element.
PopBack(t) ==
  LET e == kMask(back_)
  IN
  /\ \/ At(t, "PopBack") /\ mutex_ = NoThread
     \/ At(t, "PopBack_locked")
  /\ \/ /\ array_[e].state = "kRevoked"
        /\ mutex_' = t
        /\ Claim(t, e)
        /\ Goto(t, "PopBack_drain")
        /\ UNCHANGED present
     \/ /\ array_[e].state = "kReady"
        /\ mutex_' = t
        /\ Claim(t, e)
        /\ Goto(t, "PopBack_take")
        /\ Leaves(array_[e].w)
     \/ /\ array_[e].state \notin {"kRevoked", "kReady"}
        /\ mutex_' = NoThread
        /\ Goto(t, "idle")
        /\ UNCHANGED <<array_, elem, present>>
  /\ UNCHANGED <<front_, back_, item, offers, moved, maybe_zero>>

PopBackEmpty(t) ==
  /\ \/ At(t, "PopBack_drain") /\ Goto(t, "PopBack_drained")
     \/ At(t, "PopBack_take") /\ Goto(t, "PopBack_taken")
  /\ array_' = [array_ EXCEPT ![elem[t]] = Elem("kEmpty", NoThread, NoWork)]
  /\ UNCHANGED <<front_, back_, mutex_, local_vars, empty_vars>>

PopBackIndex(t) ==
  /\ \/ /\ At(t, "PopBack_drained")
        /\ Goto(t, "PopBack_locked")
        /\ elem' = [elem EXCEPT ![t] = 0]
        /\ UNCHANGED <<item, mutex_>>
     \/ At(t, "PopBack_taken") /\ Return(t) /\ mutex_' = NoThread
  /\ back_' = Up(back_)
  /\ UNCHANGED <<front_, array_, offers, empty_vars>>

\* The caller gives up the offer, whether or not the task is still there.
RevokeWithTag(t, s) ==
  /\ At(t, "idle") /\ mutex_ = NoThread /\ s \in offers[t]
  /\ offers' = [offers EXCEPT ![t] = @ \ {s}]
  /\ IF array_[s].state = "kReady"
     THEN mutex_' = t /\ Claim(t, s) /\ Goto(t, "Revoke_check")
     ELSE UNCHANGED <<mutex_, array_, elem, pc>>
  /\ UNCHANGED <<front_, back_, item, empty_vars>>

\* A defective variant: whatever is in the slot is revoked.
RevokeCheck_AnyTag(t) ==
  LET e == elem[t]
  IN
  /\ At(t, "Revoke_check")
  /\ \/ /\ kMask(back_) # e
        /\ array_' = [array_ EXCEPT ![e] = Elem("kRevoked", NoThread, NoWork)]
        /\ mutex_' = NoThread /\ Return(t)
     \/ /\ kMask(back_) = e
        /\ array_' = [array_ EXCEPT ![e] = Elem("kEmpty", NoThread, NoWork)]
        /\ Goto(t, "Revoke_index")
        /\ UNCHANGED <<mutex_, elem, item>>
  /\ Leaves(array_[e].w)
  /\ UNCHANGED <<front_, back_, offers, moved, maybe_zero>>

\* With the element claimed: the slot holds somebody else's task, a task that
\* is not the last, or the last one.
RevokeCheck(t) ==
  LET e == elem[t]
  IN
  /\ At(t, "Revoke_check")
  /\ \/ /\ array_[e].tag # t
        /\ array_' = [array_ EXCEPT ![e].state = "kReady"]
        /\ mutex_' = NoThread /\ Return(t)
        /\ UNCHANGED present
     \/ /\ array_[e].tag = t /\ kMask(back_) # e
        /\ array_' = [array_ EXCEPT ![e] = Elem("kRevoked", NoThread, NoWork)]
        /\ mutex_' = NoThread /\ Return(t)
        /\ Leaves(array_[e].w)
     \/ /\ array_[e].tag = t /\ kMask(back_) = e
        /\ array_' = [array_ EXCEPT ![e] = Elem("kEmpty", NoThread, NoWork)]
        /\ Goto(t, "Revoke_index")
        /\ Leaves(array_[e].w)
        /\ UNCHANGED <<mutex_, elem, item>>
  /\ UNCHANGED <<front_, back_, offers, moved, maybe_zero>>

RevokeIndex(t) ==
  /\ At(t, "Revoke_index")
  /\ back_' = Up(back_)
  /\ mutex_' = NoThread
  /\ Return(t)
  /\ UNCHANGED <<front_, array_, offers, empty_vars>>

-----------------------------------------------------------------------------
(***************************************************************************)
(* Empty: a snapshot of the two indices, taken again when front_ was       *)
(* stored in between.  The modification counters make every store visible, *)
(* so the value read from front_ is its value now or is discarded; that    *)
(* the counters do not wrap around during one call is assumed.             *)
(***************************************************************************)

\* The tasks that are in the queue, or claimed by a revocation that may fail.
Contents ==
  {array_[s].w : s \in {s \in Slot : array_[s].state = "kReady"}}
    \cup {array_[elem[t]].w : t \in {t \in Others : At(t, "Revoke_check")}}

Empty(t) ==
  /\ At(t, "idle")
  /\ Goto(t, "Empty_back")
  /\ present' = [present EXCEPT ![t] = Contents]
  /\ UNCHANGED <<queue_vars, local_vars, moved, maybe_zero>>

EmptyBack(t) ==
  /\ At(t, "Empty_back")
  /\ Goto(t, "Empty_front")
  /\ maybe_zero' = [maybe_zero EXCEPT ![t] = ~moved[t] /\ front_ = back_]
  /\ UNCHANGED <<queue_vars, local_vars, moved, present>>

\* The answer is maybe_zero, for the caller to use.
EmptyFront(t) ==
  /\ At(t, "Empty_front")
  /\ IF moved[t]
     THEN Goto(t, "Empty_back") /\ UNCHANGED present
     ELSE Goto(t, "idle") /\ present' = [present EXCEPT ![t] = {}]
  /\ moved' = [moved EXCEPT ![t] = FALSE]
  /\ maybe_zero' = [maybe_zero EXCEPT ![t] = FALSE]
  /\ UNCHANGED <<queue_vars, local_vars>>

-----------------------------------------------------------------------------
OwnerStep ==
  \/ \E w \in Fresh : PushFront(w)
  \/ PushFrontIndex \/ PushFrontReady
  \/ PopFront \/ PopFrontEmpty \/ PopFrontIndex

OtherStep(t) ==
  \/ \E w \in Fresh : PushBack(t, w)
  \/ PushBackIndex(t) \/ PushBackReady(t)
  \/ PopBackBegin(t) \/ PopBack(t) \/ PopBackEmpty(t) \/ PopBackIndex(t)
  \/ \E s \in Slot : RevokeWithTag(t, s)
  \/ RevokeCheck(t) \/ RevokeIndex(t)

Next ==
  \/ OwnerStep
  \/ \E t \in Others : OtherStep(t)
  \/ \E t \in Watchers : Empty(t) \/ EmptyBack(t) \/ EmptyFront(t)

Spec == Init /\ [][Next]_vars

-----------------------------------------------------------------------------
OwnerLabel ==
  {"idle", "PushFront_index", "PushFront_ready", "PopFront", "PopFront_drain",
   "PopFront_drained", "PopFront_take", "PopFront_taken"}
\* Where a thread holds the mutex.
Locked ==
  {"PushBack_index", "PushBackWithTag_index", "PushBack_ready",
   "PushBackWithTag_ready", "PopBack_locked", "PopBack_drain", "PopBack_drained",
   "PopBack_take", "PopBack_taken", "Revoke_check", "Revoke_index"}

TypeOK ==
  /\ pc \in [Thread -> OwnerLabel \cup Locked \cup {"PopBack", "Empty_back", "Empty_front"}]
  /\ pc[Owner] \in OwnerLabel
  /\ \A t \in Others : pc[t] \in Locked \cup {"idle", "PopBack"}
  /\ \A t \in Watchers : pc[t] = "idle" \/ InEmpty(t)
  /\ front_ \in Index /\ back_ \in Index
  /\ array_ \in [Slot -> [state: ElemState, tag: Others \cup {NoThread},
                          w: Work \cup {NoWork}]]
  /\ mutex_ \in Others \cup {NoThread}
  /\ elem \in [Thread -> Slot] /\ item \in [Thread -> Work \cup {NoWork}]
  /\ offers \in [Others -> SUBSET Slot]
  /\ moved \in [Watchers -> BOOLEAN] /\ maybe_zero \in [Watchers -> BOOLEAN]
  /\ present \in [Watchers -> SUBSET Work]

\* "Emptiness plays critical role in thread pool blocking": a thread that is
\* about to be told that the queue is empty has not overlooked a task that
\* was in the queue all the time.  Indices are read one by one, while pushes
\* store their index before the task is there and pops after it has gone.
EmptyMissesNothing ==
  \A t \in Watchers :
    At(t, "Empty_front") /\ ~moved[t] /\ maybe_zero[t] => present[t] = {}

\* The first and last positions, corrected for a pop that has emptied its
\* element and not yet stored the index.
Last ==
  IF \E t \in Others : pc[t] \in {"PopBack_drain", "PopBack_drained",
                        "PopBack_take", "PopBack_taken", "Revoke_index"}
  THEN Up(back_) ELSE back_
First ==
  IF pc[Owner] \in {"PopFront_drain", "PopFront_drained", "PopFront_take",
                    "PopFront_taken"}
  THEN Down(front_) ELSE front_

Length == (First - Last + 2 * kSize) % (2 * kSize)
Position(i) == kMask(Last + i - 1)

\* No element is lost and no index runs away: between the indices there is no
\* empty element, outside them there is no task, and the queue never holds
\* more than kSize, though the indices may be kSize + 1 apart.  (With the types
\* of all variables.)
WindowExact ==
  /\ TypeOK
  /\ Length <= kSize
  /\ \A i \in 1..Length : array_[Position(i)].state # "kEmpty"
  /\ \A s \in Slot \ {Position(i) : i \in 1..Length} :
       array_[s].state \in {"kEmpty", "kBusy"}

\* The sequences of a finite set of numbers in increasing order: there is one.
Orders(S) ==
  {s \in [1..Cardinality(S) -> S] : \A i, j \in DOMAIN s : i < j => s[i] < s[j]}

\* The tasks between the indices, from back to front.  An element claimed by a
\* push has no task yet; one claimed by a revocation still has it.
DequeOf ==
  LET TasksAt(s) == [k \in DOMAIN s |-> [w |-> array_[Position(s[k])].w,
                                         tag |-> array_[Position(s[k])].tag]]
  IN  CHOOSE d \in {TasksAt(s) :
                      s \in Orders({i \in 1..Length : array_[Position(i)].w # NoWork})} : TRUE
GotOf ==
  [t \in Thread |->
     IF pc[t] \in {"PopFront_take", "PopBack_take"} THEN array_[elem[t]].w
     ELSE NoWork]

Deque == INSTANCE TaskDeque WITH deque <- DequeOf, got <- GotOf

\* The queue is a deque of atomic operations: a task is popped once or revoked
\* once and never both, the front is the front and the back the back, and a
\* revocation removes nobody else's task.
ImplementsDeque == Deque!Spec
=============================================================================
