--------------------------- MODULE RunQueueProofs ---------------------------
(***************************************************************************)
(* The safety of the run queue for an array of any size and any number of  *)
(* threads: the indices enclose exactly the elements in use, a thread that *)
(* is told that the queue is empty has not overlooked a task, and every    *)
(* step is one operation of a deque (TaskDeque) or none.                   *)
(***************************************************************************)
EXTENDS RunQueue, WellFoundedInduction, SequenceTheorems, FunctionTheorems, FiniteSetTheorems,
        TLAPS

-----------------------------------------------------------------------------
(***************************************************************************)
(* The inductive invariant.                                                *)
(***************************************************************************)

\* The elements from index b to index f.
Apart(f, b) == (f - b + 2 * kSize) % (2 * kSize)
Inside(f, b, s) == \E i \in 1..Apart(f, b) : s = kMask(b + i - 1)
InWindow(s) == Inside(First, Last, s)

\* A thread that holds the mutex is the one that has taken it.
MutexInv == \A t \in Others : pc[t] \in Locked => mutex_ = t

\* The elements between the indices are in use, the others are not.
WindowInv ==
  /\ Apart(First, Last) <= kSize
  /\ \A s \in Slot :
       IF InWindow(s) THEN array_[s].state # "kEmpty"
       ELSE array_[s].state \in {"kEmpty", "kBusy"}

\* Where a thread has claimed an element: one next to the window, or the one
\* at its end.
OwnerOut == {"PushFront_index", "PopFront_drain", "PopFront_take"}
OtherOut == {"PushBack_index", "PushBackWithTag_index", "PopBack_drain", "PopBack_take"}
OtherIn == {"PushBack_ready", "PushBackWithTag_ready"}
Pushing == {"PushFront_index", "PushFront_ready", "PushBack_index", "PushBackWithTag_index",
            "PushBack_ready", "PushBackWithTag_ready"}
OwnerClaims == OwnerOut \cup {"PushFront_ready"}
OtherClaims == OtherOut \cup OtherIn \cup {"Revoke_check"}

\* A claimed element is busy and where its claimer expects it.
OwnerInv ==
  /\ pc[Owner] \in OwnerClaims => array_[elem[Owner]].state = "kBusy"
  /\ pc[Owner] \in OwnerOut => elem[Owner] = kMask(First) /\ ~InWindow(elem[Owner])
  /\ pc[Owner] = "PushFront_ready" =>
       elem[Owner] = kMask(Down(First)) /\ InWindow(elem[Owner])
OtherInv(t) ==
  /\ pc[t] \in OtherClaims => array_[elem[t]].state = "kBusy"
  /\ pc[t] \in OtherOut => elem[t] = kMask(Down(Last)) /\ ~InWindow(elem[t])
  /\ pc[t] \in OtherIn => elem[t] = kMask(Last) /\ InWindow(elem[t])
  /\ pc[t] = "Revoke_check" => InWindow(elem[t]) /\ array_[elem[t]].w \in Work
  /\ pc[Owner] \in OwnerClaims /\ pc[t] \in OtherClaims => elem[Owner] # elem[t]

\* What is ready to be popped, or about to be, is a task.
WorkInv ==
  /\ \A s \in Slot : array_[s].state = "kReady" => array_[s].w \in Work
  /\ \A t \in Thread : pc[t] \in Pushing => item[t] \in Work

\* The tasks that Empty may not overlook are there, and there is none when the
\* indices have been found equal.
EmptyInv(t) ==
  /\ InEmpty(t) => present[t] \subseteq Contents
  /\ At(t, "Empty_front") /\ maybe_zero[t] => present[t] = {}

IInv ==
  /\ TypeOK /\ MutexInv /\ WindowInv /\ OwnerInv /\ WorkInv
  /\ \A t \in Others : OtherInv(t)
  /\ \A t \in Watchers : EmptyInv(t)

-----------------------------------------------------------------------------
(***************************************************************************)
(* The arithmetic of the rolling indices.                                  *)
(***************************************************************************)

\* A remainder of something less than one, two or three times the divisor.
LEMMA SmallMod ==
  ASSUME NEW T \in Nat \ {0}, NEW x \in Int
  PROVE  /\ x \in 0..(T - 1) => x % T = x
         /\ x \in T..(2 * T - 1) => x % T = x - T
         /\ x \in (2 * T)..(3 * T - 1) => x % T = x - 2 * T
<1>1. ASSUME x \in 0..(T - 1) PROVE x % T = x
  BY <1>1
<1>2. ASSUME x \in T..(2 * T - 1) PROVE x % T = x - T
  <2>1. PICK r \in 0..(T - 1) : x = T * 1 + r
    <3>1. x - T \in 0..(T - 1) /\ x = T * 1 + (x - T)
      BY <1>2
    <3> QED BY <3>1
  <2> QED BY <2>1
<1>3. ASSUME x \in (2 * T)..(3 * T - 1) PROVE x % T = x - 2 * T
  <2>1. PICK r \in 0..(T - 1) : x = T * 2 + r
    <3>1. x - 2 * T \in 0..(T - 1) /\ x = T * 2 + (x - 2 * T)
      BY <1>3
    <3> QED BY <3>1
  <2> QED BY <2>1
<1> QED BY <1>1, <1>2, <1>3

\* One step up and down, and the element that an index stands for.
LEMMA IndexStep ==
  ASSUME NEW i \in Index
  PROVE  /\ Up(i) = (IF i = 2 * kSize - 1 THEN 0 ELSE i + 1) /\ Up(i) \in Index
         /\ Down(i) = (IF i = 0 THEN 2 * kSize - 1 ELSE i - 1) /\ Down(i) \in Index
         /\ Up(Down(i)) = i /\ Down(Up(i)) = i
<1>0. kSize \in Nat /\ 2 * kSize \in Nat \ {0} /\ i \in 0..(2 * kSize - 1)
  BY SizeAssumption DEF Index
<1> DEFINE T == 2 * kSize
<1>1. \A x \in Int : /\ x \in 0..(T - 1) => x % T = x
                     /\ x \in T..(2 * T - 1) => x % T = x - T
  BY <1>0, SmallMod
<1> HIDE DEF T
<1>2. ASSUME NEW j \in 0..(T - 1)
      PROVE  /\ (j + 1) % T = IF j = T - 1 THEN 0 ELSE j + 1
             /\ (j + T - 1) % T = IF j = 0 THEN T - 1 ELSE j - 1
  <2>0. T \in Nat \ {0}
    BY <1>0 DEF T
  <2>1. PICK y \in Int : y = j + 1
    OBVIOUS
  <2>2. PICK z \in Int : z = j + T - 1
    BY <2>0
  <2>3. y % T = IF j = T - 1 THEN 0 ELSE j + 1
    BY <1>1, <2>0, <2>1
  <2>4. z % T = IF j = 0 THEN T - 1 ELSE j - 1
    BY <1>1, <2>0, <2>2
  <2> QED BY <2>1, <2>2, <2>3, <2>4
<1>3. ASSUME NEW j \in Index
      PROVE  /\ Up(j) = IF j = 2 * kSize - 1 THEN 0 ELSE j + 1
             /\ Down(j) = IF j = 0 THEN 2 * kSize - 1 ELSE j - 1
  BY <1>2 DEF Up, Down, Index, T
<1>4. Up(i) \in Index /\ Down(i) \in Index
  BY <1>0, <1>3 DEF Index
<1> QED BY <1>0, <1>3, <1>4

\* The element that a position stands for.
LEMMA MaskValue ==
  ASSUME NEW x \in 0..(3 * kSize - 1)
  PROVE  kMask(x) = (IF x < kSize THEN x ELSE IF x < 2 * kSize THEN x - kSize
                     ELSE x - 2 * kSize)
         /\ kMask(x) \in Slot
<1>0. kSize \in Nat \ {0} /\ x \in Int
  BY SizeAssumption
<1>1. /\ x \in 0..(kSize - 1) => x % kSize = x
      /\ x \in kSize..(2 * kSize - 1) => x % kSize = x - kSize
      /\ x \in (2 * kSize)..(3 * kSize - 1) => x % kSize = x - 2 * kSize
  BY <1>0, SmallMod
<1> QED BY <1>0, <1>1 DEF kMask, Slot

\* How far the indices are from each other.
LEMMA ApartValue ==
  ASSUME NEW f \in Index, NEW b \in Index
  PROVE  /\ Apart(f, b) = IF f >= b THEN f - b ELSE f - b + 2 * kSize
         /\ Apart(f, b) \in Index
<1>0. kSize \in Nat /\ f \in 0..(2 * kSize - 1) /\ b \in 0..(2 * kSize - 1)
  BY SizeAssumption DEF Index
<1> DEFINE T == 2 * kSize
           x == f - b + T
<1>1. T \in Nat \ {0} /\ x \in Int
  BY <1>0, SizeAssumption
<1>2. /\ x \in 0..(T - 1) => x % T = x
      /\ x \in T..(2 * T - 1) => x % T = x - T
  BY <1>1, SmallMod
<1> QED BY <1>0, <1>2 DEF Apart, Index

\* An element is in the window when it is less than the window's length away
\* from its beginning.
LEMMA InsideValue ==
  ASSUME NEW f \in Index, NEW b \in Index, Apart(f, b) <= kSize, NEW s \in Slot
  PROVE  Inside(f, b, s) <=>
           (IF s >= kMask(b) THEN s - kMask(b) ELSE s - kMask(b) + kSize) < Apart(f, b)
<1>0. kSize \in Nat /\ kSize > 2 /\ b \in 0..(2 * kSize - 1) /\ s \in 0..(kSize - 1)
  BY SizeAssumption DEF Index, Slot
<1>1. kMask(b) = (IF b < kSize THEN b ELSE b - kSize)
  <2>1. b \in 0..(3 * kSize - 1)
    BY <1>0
  <2> QED BY <1>0, <2>1, MaskValue
<1> DEFINE D == Apart(f, b)
           o == IF s >= kMask(b) THEN s - kMask(b) ELSE s - kMask(b) + kSize
<1>2. D \in 0..kSize
  BY ApartValue, <1>0 DEF Index
<1>3. ASSUME NEW i \in 1..D
      PROVE  s = kMask(b + i - 1) <=> i = o + 1
  <2>1. PICK x \in 0..(3 * kSize - 1) : x = b + i - 1
    BY <1>0, <1>2
  <2>2. kMask(x) = IF x < kSize THEN x ELSE IF x < 2 * kSize THEN x - kSize
                   ELSE x - 2 * kSize
    BY MaskValue
  <2> HIDE DEF D
  <2>3. s = kMask(x) <=> i = o + 1
    BY <1>0, <1>1, <1>2, <2>1, <2>2
  <2> QED BY <2>1, <2>3
<1>4. o \in 0..(kSize - 1)
  BY <1>0, <1>1
<1>5. Inside(f, b, s) <=> \E i \in 1..D : i = o + 1
  BY <1>3 DEF Inside
<1> HIDE DEF D, o
<1>6. (\E i \in 1..D : i = o + 1) <=> o < D
  BY <1>2, <1>4
<1> QED BY <1>5, <1>6 DEF D, o

\* The elements of indices.
LEMMA MaskIndex ==
  ASSUME NEW i \in Index
  PROVE  kMask(i) = (IF i < kSize THEN i ELSE i - kSize) /\ kMask(i) \in Slot
<1>1. kSize \in Nat /\ i \in 0..(3 * kSize - 1) /\ i < 2 * kSize
  BY SizeAssumption DEF Index
<1> QED BY <1>1, MaskValue

\* The elements at the ends of a window.
LEMMA Ends ==
  ASSUME NEW f \in Index, NEW b \in Index, Apart(f, b) <= kSize
  PROVE  /\ Inside(f, b, kMask(f)) <=> Apart(f, b) = kSize
         /\ Inside(f, b, kMask(Down(f))) <=> Apart(f, b) # 0
         /\ Inside(f, b, kMask(b)) <=> Apart(f, b) # 0
         /\ Inside(f, b, kMask(Down(b))) <=> Apart(f, b) = kSize
<1>0. kSize \in Nat /\ kSize > 2 /\ b \in 0..(2 * kSize - 1) /\ f \in 0..(2 * kSize - 1)
  BY SizeAssumption DEF Index
<1>1. Apart(f, b) = IF f >= b THEN f - b ELSE f - b + 2 * kSize
  BY ApartValue
<1>2. /\ kMask(f) = (IF f < kSize THEN f ELSE f - kSize) /\ kMask(f) \in Slot
      /\ kMask(b) = (IF b < kSize THEN b ELSE b - kSize) /\ kMask(b) \in Slot
  BY MaskIndex
<1>3. PICK f1 \in Index : f1 = Down(f)
  BY IndexStep
<1>4. PICK b1 \in Index : b1 = Down(b)
  BY IndexStep
<1>5. /\ f1 = (IF f = 0 THEN 2 * kSize - 1 ELSE f - 1)
      /\ b1 = (IF b = 0 THEN 2 * kSize - 1 ELSE b - 1)
  BY <1>3, <1>4, IndexStep
<1>6. /\ kMask(f1) = (IF f1 < kSize THEN f1 ELSE f1 - kSize) /\ kMask(f1) \in Slot
      /\ kMask(b1) = (IF b1 < kSize THEN b1 ELSE b1 - kSize) /\ kMask(b1) \in Slot
  BY MaskIndex
<1>7. \A s \in Slot : Inside(f, b, s) <=>
        (IF s >= kMask(b) THEN s - kMask(b) ELSE s - kMask(b) + kSize) < Apart(f, b)
  BY InsideValue
<1>8. Inside(f, b, kMask(f)) <=> Apart(f, b) = kSize
  <2>1. Inside(f, b, kMask(f)) <=>
          (IF kMask(f) >= kMask(b) THEN kMask(f) - kMask(b) ELSE kMask(f) - kMask(b) + kSize)
            < Apart(f, b)
    BY <1>2, <1>7
  <2> QED BY <2>1, <1>0, <1>1, <1>2
<1>9. Inside(f, b, kMask(f1)) <=> Apart(f, b) # 0
  <2>1. Inside(f, b, kMask(f1)) <=>
          (IF kMask(f1) >= kMask(b) THEN kMask(f1) - kMask(b) ELSE kMask(f1) - kMask(b) + kSize)
            < Apart(f, b)
    BY <1>6, <1>7
  <2> QED BY <2>1, <1>0, <1>1, <1>2, <1>5, <1>6
<1>10. Inside(f, b, kMask(b)) <=> Apart(f, b) # 0
  <2>1. Inside(f, b, kMask(b)) <=>
          (IF kMask(b) >= kMask(b) THEN kMask(b) - kMask(b) ELSE kMask(b) - kMask(b) + kSize)
            < Apart(f, b)
    BY <1>2, <1>7
  <2> QED BY <2>1, <1>0, <1>1, <1>2
<1>11. Inside(f, b, kMask(b1)) <=> Apart(f, b) = kSize
  <2>1. Inside(f, b, kMask(b1)) <=>
          (IF kMask(b1) >= kMask(b) THEN kMask(b1) - kMask(b) ELSE kMask(b1) - kMask(b) + kSize)
            < Apart(f, b)
    BY <1>6, <1>7
  <2> QED BY <2>1, <1>0, <1>1, <1>2, <1>5, <1>6
<1> QED BY <1>3, <1>4, <1>8, <1>9, <1>10, <1>11

\* The window grows or shrinks by one element at its front.
LEMMA FrontMoves ==
  ASSUME NEW f \in Index, NEW b \in Index, Apart(f, b) <= kSize
  PROVE  /\ Apart(f, b) < kSize =>
              /\ Apart(Up(f), b) <= kSize
              /\ \A s \in Slot : Inside(Up(f), b, s) <=> (Inside(f, b, s) \/ s = kMask(f))
         /\ Apart(f, b) # 0 =>
              /\ Apart(Down(f), b) <= kSize
              /\ \A s \in Slot :
                   Inside(Down(f), b, s) <=> (Inside(f, b, s) /\ s # kMask(Down(f)))
<1>0. kSize \in Nat /\ kSize > 2 /\ b \in 0..(2 * kSize - 1) /\ f \in 0..(2 * kSize - 1)
  BY SizeAssumption DEF Index
<1>1. /\ kMask(f) = (IF f < kSize THEN f ELSE f - kSize) /\ kMask(f) \in Slot
      /\ kMask(b) = (IF b < kSize THEN b ELSE b - kSize) /\ kMask(b) \in Slot
  BY MaskIndex
<1>2. ASSUME NEW g \in Index
      PROVE  Apart(g, b) = IF g >= b THEN g - b ELSE g - b + 2 * kSize
  BY ApartValue
<1>3. ASSUME NEW g \in Index, Apart(g, b) <= kSize, NEW s \in Slot
      PROVE  Inside(g, b, s) <=>
               (IF s >= kMask(b) THEN s - kMask(b) ELSE s - kMask(b) + kSize) < Apart(g, b)
  BY <1>3, InsideValue
<1>4. ASSUME Apart(f, b) < kSize
      PROVE  /\ Apart(Up(f), b) <= kSize
             /\ \A s \in Slot : Inside(Up(f), b, s) <=> (Inside(f, b, s) \/ s = kMask(f))
  <2>1. PICK g \in Index : g = Up(f)
    BY IndexStep
  <2>2. g = IF f = 2 * kSize - 1 THEN 0 ELSE f + 1
    BY <2>1, IndexStep
  <2>3. Apart(g, b) = Apart(f, b) + 1 /\ Apart(f, b) \in 0..(kSize - 1)
    BY <1>0, <1>2, <1>4, <2>2
  <2>4. Apart(g, b) <= kSize
    BY <1>0, <1>4, <2>3
  <2>5. ASSUME NEW s \in Slot PROVE Inside(g, b, s) <=> (Inside(f, b, s) \/ s = kMask(f))
    <3>1. s \in 0..(kSize - 1)
      BY DEF Slot
    <3>2. /\ Inside(g, b, s) <=>
               (IF s >= kMask(b) THEN s - kMask(b) ELSE s - kMask(b) + kSize) < Apart(g, b)
          /\ Inside(f, b, s) <=>
               (IF s >= kMask(b) THEN s - kMask(b) ELSE s - kMask(b) + kSize) < Apart(f, b)
      BY <1>3, <2>4
    <3>3. Apart(f, b) = IF f >= b THEN f - b ELSE f - b + 2 * kSize
      BY <1>2
    <3> QED BY <1>0, <1>1, <2>2, <2>3, <3>1, <3>2, <3>3
  <2> QED BY <2>1, <2>4, <2>5
<1>5. ASSUME Apart(f, b) # 0
      PROVE  /\ Apart(Down(f), b) <= kSize
             /\ \A s \in Slot :
                  Inside(Down(f), b, s) <=> (Inside(f, b, s) /\ s # kMask(Down(f)))
  <2>1. PICK g \in Index : g = Down(f)
    BY IndexStep
  <2>2. g = (IF f = 0 THEN 2 * kSize - 1 ELSE f - 1)
        /\ kMask(g) = (IF g < kSize THEN g ELSE g - kSize)
    BY <2>1, IndexStep, MaskIndex
  <2>3. Apart(g, b) = Apart(f, b) - 1 /\ Apart(f, b) \in 1..kSize
    BY <1>0, <1>2, <1>5, <2>2
  <2>4. Apart(g, b) <= kSize
    BY <1>0, <2>3
  <2>5. ASSUME NEW s \in Slot PROVE Inside(g, b, s) <=> (Inside(f, b, s) /\ s # kMask(g))
    <3>1. s \in 0..(kSize - 1)
      BY DEF Slot
    <3>2. /\ Inside(g, b, s) <=>
               (IF s >= kMask(b) THEN s - kMask(b) ELSE s - kMask(b) + kSize) < Apart(g, b)
          /\ Inside(f, b, s) <=>
               (IF s >= kMask(b) THEN s - kMask(b) ELSE s - kMask(b) + kSize) < Apart(f, b)
      BY <1>3, <2>4
    <3>3. Apart(f, b) = IF f >= b THEN f - b ELSE f - b + 2 * kSize
      BY <1>2
    <3> QED BY <1>0, <1>1, <2>2, <2>3, <3>1, <3>2, <3>3
  <2> QED BY <2>1, <2>4, <2>5
<1> QED BY <1>4, <1>5

\* The window grows or shrinks by one element at its back.
LEMMA BackMoves ==
  ASSUME NEW f \in Index, NEW b \in Index, Apart(f, b) <= kSize
  PROVE  /\ Apart(f, b) < kSize =>
              /\ Apart(f, Down(b)) <= kSize
              /\ \A s \in Slot :
                   Inside(f, Down(b), s) <=> (Inside(f, b, s) \/ s = kMask(Down(b)))
         /\ Apart(f, b) # 0 =>
              /\ Apart(f, Up(b)) <= kSize
              /\ \A s \in Slot : Inside(f, Up(b), s) <=> (Inside(f, b, s) /\ s # kMask(b))
<1>0. kSize \in Nat /\ kSize > 2 /\ b \in 0..(2 * kSize - 1) /\ f \in 0..(2 * kSize - 1)
  BY SizeAssumption DEF Index
<1>1. ASSUME NEW c \in Index
      PROVE  /\ Apart(f, c) = IF f >= c THEN f - c ELSE f - c + 2 * kSize
             /\ kMask(c) = IF c < kSize THEN c ELSE c - kSize
             /\ c \in 0..(2 * kSize - 1)
  BY ApartValue, MaskIndex DEF Index
<1>2. ASSUME NEW c \in Index, Apart(f, c) <= kSize, NEW s \in Slot
      PROVE  Inside(f, c, s) <=>
               (IF s >= kMask(c) THEN s - kMask(c) ELSE s - kMask(c) + kSize) < Apart(f, c)
  BY <1>2, InsideValue
<1>3. ASSUME Apart(f, b) < kSize
      PROVE  /\ Apart(f, Down(b)) <= kSize
             /\ \A s \in Slot :
                  Inside(f, Down(b), s) <=> (Inside(f, b, s) \/ s = kMask(Down(b)))
  <2>1. PICK c \in Index : c = Down(b)
    BY IndexStep
  <2>2. c = IF b = 0 THEN 2 * kSize - 1 ELSE b - 1
    BY <2>1, IndexStep
  <2>3. Apart(f, c) = Apart(f, b) + 1 /\ Apart(f, b) \in 0..(kSize - 1)
    BY <1>0, <1>1, <1>3, <2>2
  <2>4. Apart(f, c) <= kSize
    BY <1>0, <1>3, <2>3
  <2>5. ASSUME NEW s \in Slot PROVE Inside(f, c, s) <=> (Inside(f, b, s) \/ s = kMask(c))
    <3>1. s \in 0..(kSize - 1)
      BY DEF Slot
    <3>2. /\ kMask(b) = IF b < kSize THEN b ELSE b - kSize
          /\ kMask(c) = IF c < kSize THEN c ELSE c - kSize
      BY <1>1
    <3>3. /\ Inside(f, c, s) <=>
               (IF s >= kMask(c) THEN s - kMask(c) ELSE s - kMask(c) + kSize) < Apart(f, c)
          /\ Inside(f, b, s) <=>
               (IF s >= kMask(b) THEN s - kMask(b) ELSE s - kMask(b) + kSize) < Apart(f, b)
      BY <1>2, <2>4
    <3> QED BY <1>0, <2>2, <2>3, <3>1, <3>2, <3>3
  <2> QED BY <2>1, <2>4, <2>5
<1>4. ASSUME Apart(f, b) # 0
      PROVE  /\ Apart(f, Up(b)) <= kSize
             /\ \A s \in Slot : Inside(f, Up(b), s) <=> (Inside(f, b, s) /\ s # kMask(b))
  <2>1. PICK c \in Index : c = Up(b)
    BY IndexStep
  <2>2. c = IF b = 2 * kSize - 1 THEN 0 ELSE b + 1
    BY <2>1, IndexStep
  <2>3. Apart(f, c) = Apart(f, b) - 1 /\ Apart(f, b) \in 1..kSize
    BY <1>0, <1>1, <1>4, <2>2
  <2>4. Apart(f, c) <= kSize
    BY <1>0, <2>3
  <2>5. ASSUME NEW s \in Slot PROVE Inside(f, c, s) <=> (Inside(f, b, s) /\ s # kMask(b))
    <3>1. s \in 0..(kSize - 1)
      BY DEF Slot
    <3>2. /\ kMask(b) = IF b < kSize THEN b ELSE b - kSize
          /\ kMask(c) = IF c < kSize THEN c ELSE c - kSize
      BY <1>1
    <3>3. /\ Inside(f, c, s) <=>
               (IF s >= kMask(c) THEN s - kMask(c) ELSE s - kMask(c) + kSize) < Apart(f, c)
          /\ Inside(f, b, s) <=>
               (IF s >= kMask(b) THEN s - kMask(b) ELSE s - kMask(b) + kSize) < Apart(f, b)
      BY <1>2, <2>4
    <3> QED BY <1>0, <2>2, <2>3, <3>1, <3>2, <3>3
  <2> QED BY <2>1, <2>4, <2>5
<1> QED BY <1>3, <1>4

-----------------------------------------------------------------------------
(***************************************************************************)
(* Steps that change one element, or move one element into or out of the   *)
(* window.                                                                 *)
(***************************************************************************)

\* All elements but this one stay what and where they are.
Around(e) ==
  \A s \in Slot \ {e} : array_'[s] = array_[s] /\ (InWindow(s)' <=> InWindow(s))

\* What the element is after the step suits where it is.
Suits(e) ==
  /\ IF InWindow(e)' THEN array_'[e].state # "kEmpty"
     ELSE array_'[e].state \in {"kEmpty", "kBusy"}
  /\ array_'[e].state = "kReady" => array_'[e].w \in Work

\* The element holds a task that Empty may not overlook.
Held(s) ==
  \/ array_[s].state = "kReady"
  \/ \E t \in Others : pc[t] = "Revoke_check" /\ elem[t] = s

\* The window suits the elements after such a step.
LEMMA WindowKept ==
  ASSUME IInv, NEW e \in Slot, Around(e), Suits(e), Apart(First, Last)' <= kSize
  PROVE  /\ WindowInv'
         /\ \A s \in Slot : array_'[s].state = "kReady" => array_'[s].w \in Work
<1>1. ASSUME NEW s \in Slot
      PROVE  /\ IF InWindow(s)' THEN array_'[s].state # "kEmpty"
                ELSE array_'[s].state \in {"kEmpty", "kBusy"}
             /\ array_'[s].state = "kReady" => array_'[s].w \in Work
  <2>1. CASE s = e
    BY <2>1 DEF Suits
  <2>2. CASE s # e
    BY <2>2 DEF Around, IInv, WindowInv, WorkInv
  <2> QED BY <2>1, <2>2
<1> QED BY <1>1 DEF WindowInv

\* The tasks that count, element by element.
LEMMA ContentsHeld ==
  ASSUME TypeOK
  PROVE  \A x : x \in Contents <=> \E s \in Slot : Held(s) /\ x = array_[s].w
<1>1. \A t \in Others : elem[t] \in Slot
  BY DEF TypeOK, Thread
<1> QED BY <1>1 DEF Contents, Held, At

\* Empty overlooks nothing when tasks come, and when they go by Leaves.
LEMMA EmptyKept ==
  ASSUME IInv, TypeOK', NEW e \in Slot,
         \A s \in Slot \ {e} : array_'[s] = array_[s] /\ (Held(s) => Held(s)'),
         \A u \in Watchers : pc'[u] = pc[u] /\ maybe_zero'[u] = maybe_zero[u],
         \/ /\ \A u \in Watchers : present'[u] = present[u]
            /\ Held(e) => Held(e)' /\ array_'[e].w = array_[e].w
         \/ \A u \in Watchers : present'[u] = present[u] \ {array_[e].w}
  PROVE  \A u \in Watchers : EmptyInv(u)'
<1> SUFFICES ASSUME NEW u \in Watchers PROVE EmptyInv(u)'
  OBVIOUS
<1>1. EmptyInv(u) /\ present'[u] \subseteq present[u]
  BY DEF IInv
<1>2. ASSUME InEmpty(u), NEW x \in present'[u] PROVE x \in Contents'
  <2>1. x \in Contents
    BY <1>1, <1>2 DEF EmptyInv
  <2>2. PICK s \in Slot : Held(s) /\ x = array_[s].w
    BY <2>1, ContentsHeld DEF IInv
  <2>3. Held(s)' /\ array_'[s].w = array_[s].w
    <3>1. CASE s = e
      BY <1>2, <2>2, <3>1
    <3>2. CASE s # e
      BY <2>2, <3>2
    <3> QED BY <3>1, <3>2
  <2>4. \A t \in Others : elem'[t] \in Slot
    BY DEF TypeOK, Thread
  <2> QED BY <2>2, <2>3, <2>4 DEF Contents, Held, At
<1>3. pc'[u] = pc[u] /\ maybe_zero'[u] = maybe_zero[u]
  OBVIOUS
<1>4. InEmpty(u)' <=> InEmpty(u)
  BY <1>3 DEF InEmpty
<1> QED BY <1>1, <1>2, <1>3, <1>4 DEF EmptyInv, At

-----------------------------------------------------------------------------
(***************************************************************************)
(* Who does what.                                                          *)
(***************************************************************************)

\* Where a thread has emptied an element at the back without storing the index.
Popped == {"PopBack_drain", "PopBack_drained", "PopBack_take", "PopBack_taken", "Revoke_index"}

\* The threads are different ones.
LEMMA Threads ==
  /\ Owner \in Thread /\ Others \subseteq Thread /\ Watchers \subseteq Thread
  /\ Owner \notin Others /\ Owner \notin Watchers /\ Others \cap Watchers = {}
  BY ThreadAssumption DEF Thread

\* What the owner leaves alone.
LEMMA OwnerFrame ==
  ASSUME TypeOK, OwnerStep
  PROVE  /\ back_' = back_ /\ mutex_' = mutex_ /\ offers' = offers /\ maybe_zero' = maybe_zero
         /\ \A t \in Thread \ {Owner} : pc'[t] = pc[t] /\ elem'[t] = elem[t] /\ item'[t] = item[t]
         /\ Last' = Last
<1>1. /\ back_' = back_ /\ mutex_' = mutex_ /\ offers' = offers /\ maybe_zero' = maybe_zero
  BY DEF OwnerStep, PushFront, PushFrontIndex, PushFrontReady, PopFront, PopFrontEmpty,
     PopFrontIndex, local_vars, empty_vars
<1>2. \E x : pc' = [pc EXCEPT ![Owner] = x]
  BY DEF OwnerStep, PushFront, PushFrontIndex, PushFrontReady, PopFront, PopFrontEmpty,
     PopFrontIndex, Goto, Return
<1>3. elem' = elem \/ \E x : elem' = [elem EXCEPT ![Owner] = x]
  BY DEF OwnerStep, PushFront, PushFrontIndex, PushFrontReady, PopFront, PopFrontEmpty,
     PopFrontIndex, Claim, Return, local_vars
<1>4. item' = item \/ \E x : item' = [item EXCEPT ![Owner] = x]
  BY DEF OwnerStep, PushFront, PushFrontIndex, PushFrontReady, PopFront, PopFrontEmpty,
     PopFrontIndex, Return, local_vars
<1>5. DOMAIN pc = Thread /\ DOMAIN elem = Thread /\ DOMAIN item = Thread
  BY DEF TypeOK
<1>6. \A t \in Thread \ {Owner} : pc'[t] = pc[t] /\ elem'[t] = elem[t] /\ item'[t] = item[t]
  BY <1>2, <1>3, <1>4, <1>5
<1>7. \A t \in Others : pc'[t] = pc[t]
  BY <1>6, Threads
<1>8. Last' = Last
  BY <1>1, <1>7 DEF Last, Up
<1> QED BY <1>1, <1>6, <1>8

\* What another thread leaves alone.
LEMMA OtherFrame ==
  ASSUME TypeOK, NEW t \in Others, OtherStep(t)
  PROVE  /\ front_' = front_ /\ moved' = moved /\ maybe_zero' = maybe_zero
         /\ \A u \in Thread \ {t} : pc'[u] = pc[u] /\ elem'[u] = elem[u] /\ item'[u] = item[u]
         /\ First' = First
<1>1. front_' = front_ /\ moved' = moved /\ maybe_zero' = maybe_zero
  BY DEF OtherStep, PushBack, PushBackIndex, PushBackReady, PopBackBegin, PopBack,
     PopBackEmpty, PopBackIndex, RevokeWithTag, RevokeCheck, RevokeIndex,
     queue_vars, local_vars, empty_vars
<1>2. pc' = pc \/ \E x : pc' = [pc EXCEPT ![t] = x]
  BY DEF OtherStep, PushBack, PushBackIndex, PushBackReady, PopBackBegin, PopBack,
     PopBackEmpty, PopBackIndex, RevokeWithTag, RevokeCheck, RevokeIndex, Goto, Return
<1>3. elem' = elem \/ \E x : elem' = [elem EXCEPT ![t] = x]
  BY DEF OtherStep, PushBack, PushBackIndex, PushBackReady, PopBackBegin, PopBack,
     PopBackEmpty, PopBackIndex, RevokeWithTag, RevokeCheck, RevokeIndex, Claim, Return,
     local_vars
<1>4. item' = item \/ \E x : item' = [item EXCEPT ![t] = x]
  BY DEF OtherStep, PushBack, PushBackIndex, PushBackReady, PopBackBegin, PopBack,
     PopBackEmpty, PopBackIndex, RevokeWithTag, RevokeCheck, RevokeIndex, Return, local_vars
<1>5. DOMAIN pc = Thread /\ DOMAIN elem = Thread /\ DOMAIN item = Thread
  BY DEF TypeOK
<1>6. \A u \in Thread \ {t} : pc'[u] = pc[u] /\ elem'[u] = elem[u] /\ item'[u] = item[u]
  BY <1>2, <1>3, <1>4, <1>5
<1>7. pc'[Owner] = pc[Owner]
  BY <1>6, Threads
<1>8. First' = First
  BY <1>1, <1>7 DEF First, Down
<1> QED BY <1>1, <1>6, <1>8

\* The thread that holds the mutex, or that could take it, is alone.
LEMMA OnlyHolder ==
  ASSUME IInv, NEW t \in Others, mutex_ \in {t, NoThread}
  PROVE  /\ \A u \in Others \ {t} : pc[u] \notin Locked
         /\ Last = IF pc[t] \in Popped THEN Up(back_) ELSE back_
<1>1. \A u \in Others \ {t} : pc[u] \notin Locked
  BY ThreadAssumption DEF IInv, MutexInv
<1>2. \A u \in Others : pc[u] \in Popped => u = t
  BY <1>1 DEF Popped, Locked
<1> QED BY <1>1, <1>2 DEF Last, Popped

\* A step of another thread is one under the mutex, or PopBackBegin.
LEMMA MutexStep ==
  ASSUME IInv, NEW t \in Others, OtherStep(t)
  PROVE  /\ MutexInv'
         /\ PopBackBegin(t) \/ mutex_ \in {t, NoThread}
         /\ Last' = (IF pc'[t] \in Popped THEN Up(back_') ELSE back_')
              \/ (PopBackBegin(t) /\ Last' = Last)
<1>0. TypeOK /\ MutexInv
  BY DEF IInv
<1>1. \A u \in Others \ {t} : pc'[u] = pc[u]
  BY <1>0, OtherFrame, Threads
<1>2. CASE PopBackBegin(t)
  <2>1. pc[t] = "idle" /\ pc'[t] = "PopBack" /\ back_' = back_ /\ mutex_' = mutex_
    BY <1>0, <1>2, Threads DEF PopBackBegin, At, Goto, TypeOK, queue_vars
  <2>2. MutexInv'
    BY <1>0, <1>1, <2>1 DEF MutexInv, Locked
  <2>3. \A u \in Others : pc'[u] \in Popped <=> pc[u] \in Popped
    BY <1>1, <2>1 DEF Popped
  <2>4. Last' = Last
    BY <2>1, <2>3 DEF Last, Popped, Up
  <2> QED BY <1>2, <2>2, <2>4
<1>3. CASE ~PopBackBegin(t)
  <2>1. mutex_ \in {t, NoThread}
    <3>1. pc[t] \in Locked => mutex_ = t
      BY <1>0 DEF MutexInv
    <3> QED BY <1>3, <3>1 DEF OtherStep, PushBack, PushBackIndex, PushBackReady, PopBack,
       PopBackEmpty, PopBackIndex, RevokeWithTag, RevokeCheck, RevokeIndex, At, Locked
  <2>2. \A u \in Others \ {t} : pc[u] \notin Locked
    BY <2>1, OnlyHolder
  <2>3. pc'[t] \in Locked => mutex_' = t
    <3>1. pc[t] \in Locked => mutex_ = t
      BY <1>0 DEF MutexInv
    <3>2. ASSUME NEW x PROVE [pc EXCEPT ![t] = x][t] = x
      BY <1>0, Threads DEF TypeOK
    <3>3. CASE (\E w \in Fresh : PushBack(t, w)) \/ PushBackIndex(t) \/ PushBackReady(t)
      BY <3>1, <3>2, <3>3 DEF PushBack, PushBackIndex, PushBackReady, At, Locked, Goto, Return
    <3>4. CASE PopBack(t) \/ PopBackEmpty(t) \/ PopBackIndex(t)
      BY <3>1, <3>2, <3>4 DEF PopBack, PopBackEmpty, PopBackIndex, At, Locked, Goto, Return
    <3>5. CASE (\E s \in Slot : RevokeWithTag(t, s)) \/ RevokeCheck(t) \/ RevokeIndex(t)
      BY <3>1, <3>2, <3>5 DEF RevokeWithTag, RevokeCheck, RevokeIndex, At, Locked, Goto, Return
    <3> QED BY <1>3, <3>3, <3>4, <3>5 DEF OtherStep
  <2>4. MutexInv'
    BY <1>1, <2>2, <2>3 DEF MutexInv
  <2>5. \A u \in Others : pc'[u] \in Popped => u = t
    BY <1>1, <2>2 DEF Popped, Locked
  <2>6. Last' = IF pc'[t] \in Popped THEN Up(back_') ELSE back_'
    BY <2>5 DEF Last, Popped, Up
  <2> QED BY <2>1, <2>4, <2>6
<1> QED BY <1>2, <1>3

-----------------------------------------------------------------------------
(***************************************************************************)
(* The types.                                                              *)
(***************************************************************************)

ElemType == [state: ElemState, tag: Others \cup {NoThread}, w: Work \cup {NoWork}]
Label == OwnerLabel \cup Locked \cup {"PopBack", "Empty_back", "Empty_front"}

\* The elements that the operations write.
LEMMA ElemTypes ==
  /\ Elem("kEmpty", NoThread, NoWork) \in ElemType
  /\ Elem("kRevoked", NoThread, NoWork) \in ElemType
  /\ \A w \in Work \cup {NoWork} : Elem("kReady", NoThread, w) \in ElemType
  /\ \A w \in Work \cup {NoWork}, t \in Others : Elem("kReady", t, w) \in ElemType
  /\ \A x \in ElemType : \A st \in ElemState : [x EXCEPT !.state = st] \in ElemType
  BY DEF Elem, ElemType, ElemState

\* The masked indices are elements.
LEMMA MaskSlots ==
  ASSUME TypeOK
  PROVE  /\ kMask(front_) \in Slot /\ kMask(Down(front_)) \in Slot
         /\ kMask(back_) \in Slot /\ kMask(Down(back_)) \in Slot /\ 0 \in Slot
         /\ Up(front_) \in Index /\ Down(front_) \in Index
         /\ Up(back_) \in Index /\ Down(back_) \in Index
         /\ First \in Index /\ Last \in Index
<1>1. front_ \in Index /\ back_ \in Index
  BY DEF TypeOK
<1>2. /\ Up(front_) \in Index /\ Down(front_) \in Index
      /\ Up(back_) \in Index /\ Down(back_) \in Index
  BY <1>1, IndexStep
<1>3. 0 \in Slot
  BY SizeAssumption DEF Slot
<1>4. First \in Index /\ Last \in Index
  BY <1>1, <1>2 DEF First, Last
<1> QED BY <1>1, <1>2, <1>3, <1>4, MaskIndex

\* An element is claimed, or written.
Written(x) == \E e \in Slot : array_' = [array_ EXCEPT ![e] = x]
Claimed == \E e \in Slot : array_' = [array_ EXCEPT ![e].state = "kBusy"]

\* The array keeps its type.
LEMMA ArrayStep ==
  ASSUME TypeOK,
         array_' = array_ \/ Claimed \/ (\E x \in ElemType : Written(x))
           \/ (\E e \in Slot : array_' = [array_ EXCEPT ![e].state = "kReady"])
  PROVE  array_' \in [Slot -> ElemType]
<1>0. array_ \in [Slot -> ElemType]
  BY DEF TypeOK, ElemType
<1>1. ASSUME NEW e \in Slot, NEW st \in ElemState, array_' = [array_ EXCEPT ![e].state = st]
      PROVE  array_' \in [Slot -> ElemType]
  <2>1. [array_[e] EXCEPT !.state = st] \in ElemType
    BY <1>0, ElemTypes
  <2> QED BY <1>0, <1>1, <2>1
<1>2. ASSUME NEW x \in ElemType, Written(x) PROVE array_' \in [Slot -> ElemType]
  BY <1>0, <1>2 DEF Written
<1> QED BY <1>0, <1>1, <1>2 DEF Claimed, ElemState

\* The owner's steps keep the types.
LEMMA OwnerTypes ==
  ASSUME IInv, OwnerStep
  PROVE  TypeOK'
<1>0. TypeOK
  BY DEF IInv
<1>1. /\ back_' = back_ /\ mutex_' = mutex_ /\ offers' = offers /\ maybe_zero' = maybe_zero
      /\ \A t \in Thread \ {Owner} : pc'[t] = pc[t]
  BY <1>0, OwnerFrame
<1>2. elem[Owner] \in Slot /\ item[Owner] \in Work \cup {NoWork} /\ front_ \in Index
  BY <1>0, Threads DEF TypeOK
<1>3. array_' \in [Slot -> ElemType]
  <2>1. array_' = array_ \/ Claimed \/ (\E x \in ElemType : Written(x))
    BY <1>0, <1>2, MaskSlots, ElemTypes DEF OwnerStep, PushFront, PushFrontIndex, PushFrontReady,
       PopFront, PopFrontEmpty, PopFrontIndex, Claim, Claimed, Written
  <2> QED BY <1>0, <2>1, ArrayStep
<1>4. \E x \in OwnerLabel : pc' = [pc EXCEPT ![Owner] = x]
  BY DEF OwnerStep, PushFront, PushFrontIndex, PushFrontReady, PopFront, PopFrontEmpty,
     PopFrontIndex, Goto, Return, OwnerLabel
<1>5. pc' \in [Thread -> Label] /\ pc'[Owner] \in OwnerLabel
  <2>1. pc \in [Thread -> Label] /\ OwnerLabel \subseteq Label
    BY <1>0 DEF TypeOK, Label
  <2> QED BY <1>4, <2>1, Threads
<1>6. elem' \in [Thread -> Slot]
  <2>1. elem' = elem \/ \E x \in Slot : elem' = [elem EXCEPT ![Owner] = x]
    BY <1>0, MaskSlots DEF OwnerStep, PushFront, PushFrontIndex, PushFrontReady, PopFront,
       PopFrontEmpty, PopFrontIndex, Claim, Return, local_vars
  <2> QED BY <1>0, <2>1 DEF TypeOK
<1>7. item' \in [Thread -> Work \cup {NoWork}]
  <2>1. item' = item \/ \E x \in Work \cup {NoWork} : item' = [item EXCEPT ![Owner] = x]
    BY DEF OwnerStep, PushFront, PushFrontIndex, PushFrontReady, PopFront,
       PopFrontEmpty, PopFrontIndex, Return, local_vars, Fresh
  <2> QED BY <1>0, <2>1 DEF TypeOK
<1>8. front_' \in Index
  BY <1>0, <1>2, MaskSlots DEF OwnerStep, PushFront, PushFrontIndex, PushFrontReady, PopFront,
     PopFrontEmpty, PopFrontIndex, StoreFront
<1>9. moved' \in [Watchers -> BOOLEAN]
  <2>1. moved' = moved \/ moved' = [t \in Watchers |-> InEmpty(t)]
    BY DEF OwnerStep, PushFront, PushFrontIndex, PushFrontReady, PopFront,
       PopFrontEmpty, PopFrontIndex, StoreFront, empty_vars
  <2>2. \A t \in Watchers : InEmpty(t) \in BOOLEAN
    BY SMT DEF InEmpty
  <2>3. [t \in Watchers |-> InEmpty(t)] \in [Watchers -> BOOLEAN]
    BY <2>2, Zenon
  <2>4. moved \in [Watchers -> BOOLEAN]
    BY <1>0 DEF TypeOK
  <2> QED BY <2>1, <2>3, <2>4, Zenon
<1>10. present' \in [Watchers -> SUBSET Work]
  <2>1. present' = present \/ \E w : present' = [t \in Watchers |-> present[t] \ {w}]
    BY DEF OwnerStep, PushFront, PushFrontIndex, PushFrontReady, PopFront,
       PopFrontEmpty, PopFrontIndex, Leaves, empty_vars
  <2> QED BY <1>0, <2>1 DEF TypeOK
<1>11. /\ \A t \in Others : pc'[t] \in Locked \cup {"idle", "PopBack"}
       /\ \A t \in Watchers : pc'[t] = "idle" \/ InEmpty(t)'
  BY <1>0, <1>1, Threads DEF TypeOK, InEmpty
<1> QED BY <1>0, <1>1, <1>3, <1>5, <1>6, <1>7, <1>8, <1>9, <1>10, <1>11
        DEF TypeOK, ElemType, Label

\* The other threads' steps keep the types.
LEMMA OtherTypes ==
  ASSUME IInv, NEW t \in Others, OtherStep(t)
  PROVE  TypeOK'
<1>0. TypeOK
  BY DEF IInv
<1>1. /\ front_' = front_ /\ moved' = moved /\ maybe_zero' = maybe_zero
      /\ \A u \in Thread \ {t} : pc'[u] = pc[u]
  BY <1>0, OtherFrame
<1>2. elem[t] \in Slot /\ item[t] \in Work \cup {NoWork} /\ back_ \in Index /\ t \in Thread
  BY <1>0, Threads DEF TypeOK
<1>3. array_' \in [Slot -> ElemType]
  <2>1. CASE (\E w \in Fresh : PushBack(t, w)) \/ PushBackIndex(t) \/ PopBackBegin(t) \/ PopBack(t)
             \/ PopBackIndex(t) \/ (\E s \in Slot : RevokeWithTag(t, s)) \/ RevokeIndex(t)
    <3>1. array_' = array_ \/ Claimed
      BY <1>0, <2>1, MaskSlots DEF PushBack, PushBackIndex, PopBackBegin, PopBack, PopBackIndex,
         RevokeWithTag, RevokeIndex, Claim, Claimed, queue_vars
    <3> QED BY <1>0, <3>1, ArrayStep
  <2>2. CASE PushBackReady(t) \/ PopBackEmpty(t)
    <3>1. \E x \in ElemType : Written(x)
      BY <1>2, <2>2, ElemTypes DEF PushBackReady, PopBackEmpty, Written
    <3> QED BY <1>0, <3>1, ArrayStep
  <2>3. CASE RevokeCheck(t)
    <3>1. \/ \E x \in ElemType : Written(x)
          \/ \E e \in Slot : array_' = [array_ EXCEPT ![e].state = "kReady"]
      BY <1>2, <2>3, ElemTypes DEF RevokeCheck, Written
    <3> QED BY <1>0, <3>1, ArrayStep
  <2> QED BY <2>1, <2>2, <2>3 DEF OtherStep
<1>4. pc' = pc \/ \E x \in Locked \cup {"idle", "PopBack"} : pc' = [pc EXCEPT ![t] = x]
  BY DEF OtherStep, PushBack, PushBackIndex, PushBackReady, PopBackBegin, PopBack,
     PopBackEmpty, PopBackIndex, RevokeWithTag, RevokeCheck, RevokeIndex, Goto, Return, Locked
<1>5. pc' \in [Thread -> Label] /\ pc'[t] \in Locked \cup {"idle", "PopBack"}
  <2>1. /\ pc \in [Thread -> Label] /\ pc[t] \in Locked \cup {"idle", "PopBack"}
        /\ Locked \cup {"idle", "PopBack"} \subseteq Label
    BY <1>0 DEF TypeOK, Label, OwnerLabel
  <2> QED BY <1>2, <1>4, <2>1
<1>6. elem' \in [Thread -> Slot]
  <2>1. elem' = elem \/ \E x \in Slot : elem' = [elem EXCEPT ![t] = x]
    BY <1>0, MaskSlots DEF OtherStep, PushBack, PushBackIndex, PushBackReady, PopBackBegin,
       PopBack, PopBackEmpty, PopBackIndex, RevokeWithTag, RevokeCheck, RevokeIndex, Claim,
       Return, local_vars
  <2> QED BY <1>0, <2>1 DEF TypeOK
<1>7. item' \in [Thread -> Work \cup {NoWork}]
  <2>1. item' = item \/ \E x \in Work \cup {NoWork} : item' = [item EXCEPT ![t] = x]
    BY DEF OtherStep, PushBack, PushBackIndex, PushBackReady, PopBackBegin, PopBack,
       PopBackEmpty, PopBackIndex, RevokeWithTag, RevokeCheck, RevokeIndex, Return, local_vars,
       Fresh
  <2> QED BY <1>0, <2>1 DEF TypeOK
<1>8. back_' \in Index
  BY <1>0, <1>2, MaskSlots DEF OtherStep, PushBack, PushBackIndex, PushBackReady, PopBackBegin,
     PopBack, PopBackEmpty, PopBackIndex, RevokeWithTag, RevokeCheck, RevokeIndex, queue_vars
<1>9. mutex_' \in Others \cup {NoThread}
  BY <1>0 DEF TypeOK, OtherStep, PushBack, PushBackIndex, PushBackReady, PopBackBegin,
     PopBack, PopBackEmpty, PopBackIndex, RevokeWithTag, RevokeCheck, RevokeIndex, queue_vars
<1>10. present' \in [Watchers -> SUBSET Work]
  <2>1. present' = present \/ \E w : present' = [u \in Watchers |-> present[u] \ {w}]
    BY DEF OtherStep, PushBack, PushBackIndex, PushBackReady, PopBackBegin,
       PopBack, PopBackEmpty, PopBackIndex, RevokeWithTag, RevokeCheck, RevokeIndex, Leaves,
       empty_vars
  <2> QED BY <1>0, <2>1 DEF TypeOK
<1>11. offers' \in [Others -> SUBSET Slot]
  <2>1. offers' = offers \/ (\E e \in Slot : offers' = [offers EXCEPT ![t] = offers[t] \cup {e}])
          \/ (\E e \in Slot : offers' = [offers EXCEPT ![t] = offers[t] \ {e}])
    BY <1>2 DEF OtherStep, PushBack, PushBackIndex, PushBackReady, PopBackBegin,
       PopBack, PopBackEmpty, PopBackIndex, RevokeWithTag, RevokeCheck, RevokeIndex, local_vars
  <2>2. offers \in [Others -> SUBSET Slot]
    BY <1>0 DEF TypeOK
  <2> QED BY <2>1, <2>2
<1>12. /\ pc'[Owner] \in OwnerLabel
       /\ \A u \in Others : pc'[u] \in Locked \cup {"idle", "PopBack"}
       /\ \A u \in Watchers : pc'[u] = "idle" \/ InEmpty(u)'
  <2>1. /\ pc[Owner] \in OwnerLabel
        /\ \A u \in Others : pc[u] \in Locked \cup {"idle", "PopBack"}
        /\ \A u \in Watchers : pc[u] = "idle" \/ InEmpty(u)
    BY <1>0 DEF TypeOK
  <2> QED BY <1>1, <1>5, <2>1, Threads DEF InEmpty
<1> QED BY <1>0, <1>1, <1>3, <1>5, <1>6, <1>7, <1>8, <1>9, <1>10, <1>11, <1>12
        DEF TypeOK, ElemType, Label

\* The watchers' steps keep the types, and change nothing of the queue.
LEMMA WatcherTypes ==
  ASSUME IInv, NEW t \in Watchers, Empty(t) \/ EmptyBack(t) \/ EmptyFront(t)
  PROVE  /\ TypeOK' /\ UNCHANGED <<queue_vars, local_vars>>
         /\ \A u \in Thread \ {t} : pc'[u] = pc[u]
<1>0. TypeOK /\ t \in Thread
  BY Threads DEF IInv
<1>1. UNCHANGED <<queue_vars, local_vars>>
  BY DEF Empty, EmptyBack, EmptyFront
<1>2. \E x \in {"idle", "Empty_back", "Empty_front"} : pc' = [pc EXCEPT ![t] = x]
  BY DEF Empty, EmptyBack, EmptyFront, Goto
<1>3. pc' \in [Thread -> Label] /\ pc'[t] \in {"idle", "Empty_back", "Empty_front"}
      /\ \A u \in Thread \ {t} : pc'[u] = pc[u]
  <2>1. pc \in [Thread -> Label] /\ {"idle", "Empty_back", "Empty_front"} \subseteq Label
    BY <1>0 DEF TypeOK, Label, OwnerLabel
  <2> QED BY <1>0, <1>2, <2>1
<1>4. moved' \in [Watchers -> BOOLEAN] /\ maybe_zero' \in [Watchers -> BOOLEAN]
  BY <1>0 DEF TypeOK, Empty, EmptyBack, EmptyFront
<1>5. Contents \in SUBSET Work
  <2>1. ASSUME NEW s \in Slot, Held(s) PROVE array_[s].w \in Work
    BY <2>1 DEF Held, IInv, WorkInv, OtherInv
  <2> QED BY <1>0, <2>1, ContentsHeld
<1>6. present' \in [Watchers -> SUBSET Work]
  <2>1. present' = present \/ \E x \in SUBSET Work : present' = [present EXCEPT ![t] = x]
    BY <1>5 DEF Empty, EmptyBack, EmptyFront
  <2> QED BY <1>0, <2>1 DEF TypeOK
<1>7. /\ pc'[Owner] \in OwnerLabel
      /\ \A u \in Others : pc'[u] \in Locked \cup {"idle", "PopBack"}
      /\ \A u \in Watchers : pc'[u] = "idle" \/ InEmpty(u)'
  <2>1. /\ pc[Owner] \in OwnerLabel
        /\ \A u \in Others : pc[u] \in Locked \cup {"idle", "PopBack"}
        /\ \A u \in Watchers : pc[u] = "idle" \/ InEmpty(u)
    BY <1>0 DEF TypeOK
  <2> QED BY <1>3, <2>1, Threads DEF InEmpty
<1>8. TypeOK'
  BY <1>0, <1>1, <1>3, <1>4, <1>6, <1>7 DEF TypeOK, Label, queue_vars, local_vars
<1> QED BY <1>1, <1>3, <1>8

-----------------------------------------------------------------------------
(***************************************************************************)
(* The owner's steps.                                                      *)
(***************************************************************************)

\* A step of the owner that keeps to itself keeps the invariant.
LEMMA OwnerCombine ==
  ASSUME IInv, OwnerStep, NEW e \in Slot, Around(e), Suits(e),
         Apart(First, Last)' <= kSize,
         \A t \in Others : pc[t] \in OtherClaims => e # elem[t],
         pc'[Owner] \in OwnerClaims => elem'[Owner] = e,
         OwnerInv',
         pc'[Owner] \in Pushing => item'[Owner] \in Work,
         \/ /\ \A u \in Watchers : present'[u] = present[u]
            /\ array_[e].state # "kReady"
         \/ \A u \in Watchers : present'[u] = present[u] \ {array_[e].w}
  PROVE  IInv'
<1>0. TypeOK /\ TypeOK'
  BY OwnerTypes DEF IInv
<1>1. /\ back_' = back_ /\ mutex_' = mutex_ /\ offers' = offers /\ maybe_zero' = maybe_zero
      /\ \A t \in Thread \ {Owner} : pc'[t] = pc[t] /\ elem'[t] = elem[t] /\ item'[t] = item[t]
      /\ Last' = Last
  BY <1>0, OwnerFrame
<1>2. \A t \in Others : pc'[t] = pc[t] /\ elem'[t] = elem[t]
  BY <1>1, Threads
<1>3. MutexInv'
  BY <1>1, <1>2 DEF IInv, MutexInv
<1>4. WindowInv' /\ \A s \in Slot : array_'[s].state = "kReady" => array_'[s].w \in Work
  BY WindowKept
<1>5. WorkInv'
  <2>1. \A t \in Thread : pc'[t] \in Pushing => item'[t] \in Work
    BY <1>1 DEF IInv, WorkInv
  <2> QED BY <1>4, <2>1 DEF WorkInv
<1>6. ASSUME NEW t \in Others PROVE OtherInv(t)'
  <2>0. elem[t] \in Slot /\ pc'[t] = pc[t] /\ elem'[t] = elem[t] /\ OtherInv(t)
    BY <1>0, <1>2, Threads DEF TypeOK, IInv
  <2>1. CASE pc[t] \in OtherClaims
    <3>1. e # elem[t]
      BY <2>1
    <3>2. array_'[elem[t]] = array_[elem[t]]
      BY <2>0, <3>1 DEF Around
    <3>3. Inside(First', Last', elem[t]) <=> InWindow(elem[t])
      BY <2>0, <3>1 DEF Around, InWindow, Inside, Apart, kMask
    <3>4. InWindow(elem[t])' <=> InWindow(elem[t])
      BY <2>0, <3>3 DEF InWindow, Inside, Apart, kMask
    <3>5. kMask(Last)' = kMask(Last) /\ kMask(Down(Last))' = kMask(Down(Last))
      BY <1>1 DEF kMask, Down
    <3> QED BY <2>0, <3>1, <3>2, <3>4, <3>5 DEF OtherInv
  <2>2. CASE pc[t] \notin OtherClaims
    BY <2>0, <2>2 DEF OtherInv, OtherClaims
  <2> QED BY <2>1, <2>2
<1>7. \A u \in Watchers : EmptyInv(u)'
  <2>1. \A s \in Slot \ {e} : array_'[s] = array_[s] /\ (Held(s) => Held(s)')
    BY <1>2 DEF Around, Held
  <2>2. \A u \in Watchers : pc'[u] = pc[u] /\ maybe_zero'[u] = maybe_zero[u]
    BY <1>1, Threads
  <2>3. Held(e) => array_[e].state = "kReady"
    BY DEF Held, OtherClaims
  <2> QED BY <1>0, <2>1, <2>2, <2>3, EmptyKept
<1> QED BY <1>0, <1>3, <1>4, <1>5, <1>6, <1>7 DEF IInv

\* Where the window is does not change with indices that stay.
LEMMA SameWindow ==
  ASSUME IInv, First' = First, Last' = Last
  PROVE  /\ Apart(First, Last)' <= kSize
         /\ \A s : InWindow(s)' <=> InWindow(s)
  BY DEF IInv, WindowInv, InWindow, Inside, Apart, kMask

\* The window in terms of its new indices.
LEMMA NewWindow ==
  ASSUME NEW f, NEW b, First' = f, Last' = b
  PROVE  /\ Apart(First, Last)' = Apart(f, b)
         /\ \A s : InWindow(s)' <=> Inside(f, b, s)
         /\ \A t : InWindow(elem[t])' <=> Inside(f, b, elem'[t])
         /\ kMask(First)' = kMask(f) /\ kMask(Down(First))' = kMask(Down(f))
         /\ kMask(Last)' = kMask(b) /\ kMask(Down(Last))' = kMask(Down(b))
  BY DEF InWindow, Inside, Apart, kMask, Down

\* Claims are of elements in another state.
LEMMA NotClaimed ==
  ASSUME IInv, NEW e \in Slot, array_[e].state # "kBusy"
  PROVE  /\ \A t \in Others : pc[t] \in OtherClaims => e # elem[t]
         /\ pc[Owner] \in OwnerClaims => e # elem[Owner]
  BY DEF IInv, OtherInv, OwnerInv

\* PushFront claims the element in front of the window.
LEMMA PushFrontInv ==
  ASSUME IInv, OwnerStep, NEW w \in Fresh, PushFront(w)
  PROVE  IInv'
<1>0. TypeOK /\ OwnerInv /\ WindowInv
  BY DEF IInv
<1>1. PICK e \in Slot : e = kMask(front_)
  BY <1>0, MaskSlots
<1>2. /\ pc[Owner] = "idle" /\ array_[e].state = "kEmpty"
      /\ pc'[Owner] = "PushFront_index" /\ elem'[Owner] = e /\ item'[Owner] = w
      /\ array_' = [array_ EXCEPT ![e].state = "kBusy"]
      /\ front_' = front_ /\ present' = present
  BY <1>0, <1>1, Threads DEF PushFront, At, Claim, Goto, TypeOK, empty_vars
<1>3. First = front_ /\ First' = front_ /\ Last' = Last
  BY <1>0, <1>2, OwnerFrame DEF First
<1>4. /\ Apart(First, Last)' <= kSize /\ \A s : InWindow(s)' <=> InWindow(s)
  BY <1>3, SameWindow
<1>5. ~InWindow(e)
  BY <1>0, <1>2 DEF WindowInv
<1>6. array_'[e].state = "kBusy" /\ \A s \in Slot \ {e} : array_'[s] = array_[s]
  BY <1>0, <1>2 DEF TypeOK
<1>7. Around(e) /\ Suits(e)
  BY <1>4, <1>5, <1>6 DEF Around, Suits
<1>8. OwnerInv'
  <2>1. /\ InWindow(elem[Owner])' <=> Inside(First, Last, elem'[Owner])
        /\ kMask(First)' = kMask(First)
    BY <1>3, NewWindow
  <2>2. ~InWindow(elem[Owner])'
    BY <1>2, <1>5, <2>1 DEF InWindow
  <2> QED BY <1>1, <1>2, <1>3, <1>6, <2>1, <2>2 DEF OwnerInv, OwnerOut
<1>9. \A t \in Others : pc[t] \in OtherClaims => e # elem[t]
  BY <1>2, NotClaimed
<1> QED BY <1>2, <1>4, <1>7, <1>8, <1>9, OwnerCombine DEF Fresh

\* PushFrontIndex takes the element into the window.
LEMMA PushFrontIndexInv ==
  ASSUME IInv, OwnerStep, PushFrontIndex
  PROVE  IInv'
<1>0. TypeOK /\ OwnerInv /\ WindowInv
  BY DEF IInv
<1>1. PICK e \in Slot : e = elem[Owner]
  BY <1>0, Threads DEF TypeOK
<1>2. /\ pc[Owner] = "PushFront_index" /\ pc'[Owner] = "PushFront_ready"
      /\ elem' = elem /\ item' = item /\ array_' = array_ /\ front_' = Up(front_)
      /\ present' = present
  BY <1>0, Threads DEF PushFrontIndex, At, StoreFront, Goto, TypeOK, local_vars
<1>3. First = front_ /\ First' = Up(front_) /\ Last' = Last
  BY <1>0, <1>2, OwnerFrame DEF First
<1>4. /\ e = kMask(First) /\ ~Inside(First, Last, e) /\ array_[e].state = "kBusy"
  BY <1>0, <1>1, <1>2 DEF OwnerInv, OwnerOut, OwnerClaims, InWindow
<1>5. First \in Index /\ Last \in Index /\ Apart(First, Last) <= kSize /\ Apart(First, Last) \in Int
      /\ kSize \in Nat
  BY <1>0, MaskSlots, ApartValue, SizeAssumption DEF WindowInv, Index
<1>6. Apart(First, Last) < kSize
  BY <1>4, <1>5, Ends
<1>7. /\ Apart(Up(First), Last) <= kSize
      /\ \A s \in Slot : Inside(Up(First), Last, s) <=> (Inside(First, Last, s) \/ s = kMask(First))
  BY <1>5, <1>6, FrontMoves
<1>8. /\ Apart(First, Last)' = Apart(Up(First), Last)
      /\ \A s : InWindow(s)' <=> Inside(Up(First), Last, s)
      /\ InWindow(elem[Owner])' <=> Inside(Up(First), Last, elem'[Owner])
      /\ kMask(Down(First))' = kMask(Down(Up(First)))
  BY <1>3, NewWindow
<1>9. Around(e) /\ Suits(e)
  BY <1>2, <1>4, <1>7, <1>8 DEF Around, Suits, InWindow
<1>10. OwnerInv'
  <2>1. kMask(Down(First))' = e
    BY <1>4, <1>5, <1>8, IndexStep
  <2>2. InWindow(elem[Owner])'
    BY <1>1, <1>2, <1>4, <1>7, <1>8
  <2>3. array_'[elem'[Owner]].state = "kBusy"
    BY <1>1, <1>2, <1>4
  <2> QED BY <1>1, <1>2, <2>1, <2>2, <2>3 DEF OwnerInv, OwnerOut
<1>11. \A t \in Others : pc[t] \in OtherClaims => e # elem[t]
  BY <1>1, <1>2 DEF IInv, OtherInv, OwnerClaims, OwnerOut
<1>12. item'[Owner] \in Work
  BY <1>2, Threads DEF IInv, WorkInv, Pushing
<1> QED BY <1>1, <1>2, <1>4, <1>7, <1>8, <1>9, <1>10, <1>11, <1>12, OwnerCombine

\* PushFrontReady makes it ready, and PopFrontEmpty empties one that has left
\* the window: the window stays.
LEMMA WriteFrontInv ==
  ASSUME IInv, OwnerStep, PushFrontReady \/ PopFrontEmpty
  PROVE  IInv'
<1>0. TypeOK /\ OwnerInv /\ WindowInv
  BY DEF IInv
<1>1. PICK e \in Slot : e = elem[Owner]
  BY <1>0, Threads DEF TypeOK
<1>2. /\ front_' = front_ /\ present' = present
      /\ \/ /\ pc[Owner] = "PushFront_ready" /\ pc'[Owner] = "idle"
            /\ array_' = [array_ EXCEPT ![e] = Elem("kReady", NoThread, item[Owner])]
         \/ /\ pc[Owner] \in {"PopFront_drain", "PopFront_take"}
            /\ pc'[Owner] \in {"PopFront_drained", "PopFront_taken"}
            /\ array_' = [array_ EXCEPT ![e] = Elem("kEmpty", NoThread, NoWork)]
  BY <1>0, <1>1, Threads DEF PushFrontReady, PopFrontEmpty, At, Return, Goto, TypeOK, empty_vars
<1>3. First' = First /\ Last' = Last
  BY <1>0, <1>2, OwnerFrame DEF First, Down
<1>4. /\ Apart(First, Last)' <= kSize /\ \A s : InWindow(s)' <=> InWindow(s)
  BY <1>3, SameWindow
<1>5. /\ array_[e].state = "kBusy" /\ \A s \in Slot \ {e} : array_'[s] = array_[s]
      /\ \/ /\ array_'[e].state = "kReady" /\ array_'[e].w \in Work /\ InWindow(e)
         \/ array_'[e].state = "kEmpty" /\ ~InWindow(e)
  <2>1. array_[e].state = "kBusy" /\ \A s \in Slot \ {e} : array_'[s] = array_[s]
    BY <1>0, <1>1, <1>2 DEF TypeOK, OwnerInv, OwnerClaims, OwnerOut
  <2>2. CASE pc[Owner] = "PushFront_ready"
    <3>1. item[Owner] \in Work /\ InWindow(e)
      BY <1>0, <1>1, <2>2, Threads DEF IInv, WorkInv, Pushing, OwnerInv
    <3>2. array_'[e] = Elem("kReady", NoThread, item[Owner])
      BY <1>0, <1>2, <2>2 DEF TypeOK
    <3> QED BY <2>1, <3>1, <3>2 DEF Elem
  <2>3. CASE pc[Owner] \in {"PopFront_drain", "PopFront_take"}
    <3>1. ~InWindow(e)
      BY <1>0, <1>1, <2>3 DEF OwnerInv, OwnerOut
    <3>2. array_'[e] = Elem("kEmpty", NoThread, NoWork)
      BY <1>0, <1>2, <2>3 DEF TypeOK
    <3> QED BY <2>1, <3>1, <3>2 DEF Elem
  <2> QED BY <1>2, <2>2, <2>3
<1>6. Around(e) /\ Suits(e)
  BY <1>4, <1>5 DEF Around, Suits
<1>7. pc'[Owner] \notin OwnerClaims /\ pc'[Owner] \notin Pushing
  BY <1>2 DEF OwnerClaims, OwnerOut, Pushing
<1>8. OwnerInv'
  BY <1>7 DEF OwnerInv, OwnerClaims
<1>9. \A t \in Others : pc[t] \in OtherClaims => e # elem[t]
  BY <1>1, <1>2 DEF IInv, OtherInv, OwnerClaims, OwnerOut
<1> QED BY <1>2, <1>4, <1>5, <1>6, <1>7, <1>8, <1>9, OwnerCombine

\* PopFront takes the first element out of the window.
LEMMA PopFrontInv ==
  ASSUME IInv, OwnerStep, PopFront, pc'[Owner] \in {"PopFront_drain", "PopFront_take"}
  PROVE  IInv'
<1>0. TypeOK /\ OwnerInv /\ WindowInv
  BY DEF IInv
<1>1. PICK e \in Slot : e = kMask(Down(front_))
  BY <1>0, MaskSlots
<1>2. /\ pc[Owner] \in {"idle", "PopFront"} /\ array_[e].state \in {"kReady", "kRevoked"}
      /\ elem'[Owner] = e /\ front_' = front_
      /\ array_' = [array_ EXCEPT ![e].state = "kBusy"]
      /\ \/ present' = present /\ array_[e].state # "kReady"
         \/ present' = [t \in Watchers |-> present[t] \ {array_[e].w}]
  BY <1>0, <1>1, Threads DEF PopFront, At, Claim, Goto, TypeOK, Leaves
<1>3. First = front_ /\ First' = Down(First) /\ Last' = Last
  BY <1>0, <1>2, OwnerFrame DEF First, Down
<1>4. Inside(First, Last, e)
  BY <1>0, <1>2 DEF WindowInv, InWindow
<1>5. First \in Index /\ Last \in Index /\ Apart(First, Last) <= kSize
  BY <1>0, MaskSlots DEF WindowInv
<1>6. Apart(First, Last) # 0
  BY <1>1, <1>3, <1>4, <1>5, Ends
<1>7. /\ Apart(Down(First), Last) <= kSize
      /\ \A s \in Slot :
           Inside(Down(First), Last, s) <=> (Inside(First, Last, s) /\ s # kMask(Down(First)))
  BY <1>5, <1>6, FrontMoves
<1>8. /\ Apart(First, Last)' = Apart(Down(First), Last)
      /\ \A s : InWindow(s)' <=> Inside(Down(First), Last, s)
      /\ InWindow(elem[Owner])' <=> Inside(Down(First), Last, elem'[Owner])
      /\ kMask(First)' = kMask(Down(First))
  BY <1>3, NewWindow
<1>9. array_'[e].state = "kBusy" /\ \A s \in Slot \ {e} : array_'[s] = array_[s]
  BY <1>0, <1>2 DEF TypeOK
<1>10. Around(e) /\ Suits(e)
  BY <1>1, <1>3, <1>7, <1>8, <1>9 DEF Around, Suits, InWindow
<1>11. OwnerInv'
  <2>1. kMask(First)' = e /\ ~InWindow(elem[Owner])'
    BY <1>1, <1>2, <1>3, <1>7, <1>8
  <2> QED BY <1>2, <1>9, <2>1 DEF OwnerInv, OwnerOut
<1>12. \A t \in Others : pc[t] \in OtherClaims => e # elem[t]
  BY <1>2, NotClaimed
<1>13. pc'[Owner] \notin Pushing
  BY DEF Pushing
<1>14. \/ (\A u \in Watchers : present'[u] = present[u]) /\ array_[e].state # "kReady"
       \/ \A u \in Watchers : present'[u] = present[u] \ {array_[e].w}
  BY <1>2
<1> QED BY <1>2, <1>7, <1>8, <1>10, <1>11, <1>12, <1>13, <1>14, OwnerCombine

\* A step that leaves array and window as they are, of a thread that has no
\* claim after it, keeps the invariant.
LEMMA StillInv ==
  ASSUME IInv, TypeOK', MutexInv', array_' = array_, First' = First, Last' = Last,
         present' = present, maybe_zero' = maybe_zero, NEW t \in Thread,
         \A u \in Thread \ {t} : pc'[u] = pc[u] /\ elem'[u] = elem[u] /\ item'[u] = item[u],
         t \notin Watchers, pc[t] # "Revoke_check",
         pc'[t] \notin OwnerClaims, pc'[t] \notin OtherClaims, pc'[t] \notin Pushing
  PROVE  IInv'
<1>1. Apart(First, Last)' <= kSize /\ \A s : InWindow(s)' <=> InWindow(s)
  BY SameWindow
<1>2. WindowInv'
  BY <1>1 DEF IInv, WindowInv
<1>3. WorkInv'
  BY DEF IInv, WorkInv
<1>4. /\ \A u : InWindow(elem[u])' <=> Inside(First, Last, elem'[u])
      /\ kMask(First)' = kMask(First) /\ kMask(Down(First))' = kMask(Down(First))
      /\ kMask(Last)' = kMask(Last) /\ kMask(Down(Last))' = kMask(Down(Last))
  BY NewWindow
<1>5. OwnerInv'
  <2>1. CASE t = Owner
    BY <2>1 DEF OwnerInv, OwnerClaims
  <2>2. CASE t # Owner
    <3>1. pc'[Owner] = pc[Owner] /\ elem'[Owner] = elem[Owner] /\ OwnerInv
      BY <2>2, Threads DEF IInv
    <3> QED BY <3>1, <1>4 DEF OwnerInv, InWindow
  <2> QED BY <2>1, <2>2
<1>6. ASSUME NEW u \in Others PROVE OtherInv(u)'
  <2>1. CASE u = t
    BY <2>1 DEF OtherInv, OtherClaims
  <2>2. CASE u # t
    <3>1. pc'[u] = pc[u] /\ elem'[u] = elem[u] /\ OtherInv(u)
      BY <2>2, Threads DEF IInv
    <3>2. pc'[Owner] \in OwnerClaims => pc'[Owner] = pc[Owner] /\ elem'[Owner] = elem[Owner]
      BY Threads
    <3> QED BY <3>1, <3>2, <1>4 DEF OtherInv, InWindow
  <2> QED BY <2>1, <2>2
<1>7. \A u \in Watchers : EmptyInv(u)'
  <2>1. \A u \in Others : pc[u] = "Revoke_check" => pc'[u] = "Revoke_check" /\ elem'[u] = elem[u]
    BY Threads
  <2>2. \A s \in Slot : Held(s) => Held(s)'
    BY <2>1 DEF Held
  <2>3. \A u \in Watchers : pc'[u] = pc[u] /\ maybe_zero'[u] = maybe_zero[u]
    BY Threads
  <2>4. 0 \in Slot
    BY MaskSlots DEF IInv
  <2> QED BY <2>2, <2>3, <2>4, EmptyKept
<1> QED BY <1>2, <1>3, <1>5, <1>6, <1>7 DEF IInv

\* Storing the index after a pop, and finding nothing to pop.
LEMMA FrontStillInv ==
  ASSUME IInv, OwnerStep,
         PopFrontIndex \/ (PopFront /\ pc'[Owner] \notin {"PopFront_drain", "PopFront_take"})
  PROVE  IInv'
<1>0. TypeOK /\ TypeOK' /\ MutexInv
  BY OwnerTypes DEF IInv
<1>1. /\ mutex_' = mutex_ /\ maybe_zero' = maybe_zero /\ Last' = Last
      /\ \A t \in Thread \ {Owner} : pc'[t] = pc[t] /\ elem'[t] = elem[t] /\ item'[t] = item[t]
  BY <1>0, OwnerFrame
<1>2. MutexInv'
  BY <1>0, <1>1, Threads DEF MutexInv
<1>3. /\ array_' = array_ /\ present' = present /\ pc'[Owner] \in {"idle", "PopFront"}
      /\ \/ /\ pc[Owner] \in {"PopFront_drained", "PopFront_taken"} /\ front_' = Down(front_)
         \/ /\ pc[Owner] \in {"idle", "PopFront"} /\ front_' = front_
  BY <1>0, Threads DEF PopFrontIndex, PopFront, At, Goto, Return, StoreFront, TypeOK
<1>4. First' = First
  BY <1>3 DEF First, Down
<1>5. pc'[Owner] \notin OwnerClaims /\ pc'[Owner] \notin OtherClaims /\ pc'[Owner] \notin Pushing
      /\ pc[Owner] # "Revoke_check"
  BY <1>3 DEF OwnerClaims, OwnerOut, OtherClaims, OtherOut, OtherIn, Pushing
<1> QED BY <1>0, <1>1, <1>2, <1>3, <1>4, <1>5, Threads, StillInv

\* The owner's steps keep the invariant.
LEMMA OwnerStepInv ==
  ASSUME IInv, OwnerStep
  PROVE  IInv'
  BY PushFrontInv, PushFrontIndexInv, WriteFrontInv, PopFrontInv, FrontStillInv DEF OwnerStep

-----------------------------------------------------------------------------
(***************************************************************************)
(* The other threads' steps.                                               *)
(***************************************************************************)

\* A step of another thread that keeps to itself keeps the invariant.
LEMMA OtherCombine ==
  ASSUME IInv, NEW t \in Others, OtherStep(t), mutex_ \in {t, NoThread},
         NEW e \in Slot, Around(e), Suits(e),
         Apart(First, Last)' <= kSize,
         pc[Owner] \in OwnerClaims => e # elem[Owner],
         OtherInv(t)',
         pc[t] = "Revoke_check" => e = elem[t],
         pc'[t] \in Pushing => item'[t] \in Work,
         \/ /\ \A u \in Watchers : present'[u] = present[u]
            /\ Held(e) => Held(e)' /\ array_'[e].w = array_[e].w
         \/ \A u \in Watchers : present'[u] = present[u] \ {array_[e].w}
  PROVE  IInv'
<1>0. TypeOK /\ TypeOK'
  BY OtherTypes DEF IInv
<1>1. /\ maybe_zero' = maybe_zero /\ First' = First
      /\ \A u \in Thread \ {t} : pc'[u] = pc[u] /\ elem'[u] = elem[u] /\ item'[u] = item[u]
  BY <1>0, OtherFrame
<1>2. MutexInv'
  BY MutexStep
<1>3. WindowInv' /\ \A s \in Slot : array_'[s].state = "kReady" => array_'[s].w \in Work
  BY WindowKept
<1>4. WorkInv'
  <2>1. \A u \in Thread : pc'[u] \in Pushing => item'[u] \in Work
    BY <1>1 DEF IInv, WorkInv
  <2> QED BY <1>3, <2>1 DEF WorkInv
<1>5. OwnerInv'
  <2>0. elem[Owner] \in Slot /\ pc'[Owner] = pc[Owner] /\ elem'[Owner] = elem[Owner] /\ OwnerInv
    BY <1>0, <1>1, Threads DEF TypeOK, IInv
  <2>1. CASE pc[Owner] \in OwnerClaims
    <3>1. e # elem[Owner]
      BY <2>1
    <3>2. array_'[elem[Owner]] = array_[elem[Owner]]
      BY <2>0, <3>1 DEF Around
    <3>3. Inside(First', Last', elem[Owner]) <=> InWindow(elem[Owner])
      BY <2>0, <3>1 DEF Around, InWindow, Inside, Apart, kMask
    <3>4. InWindow(elem[Owner])' <=> InWindow(elem[Owner])
      BY <2>0, <3>3 DEF InWindow, Inside, Apart, kMask
    <3>5. kMask(First)' = kMask(First) /\ kMask(Down(First))' = kMask(Down(First))
      BY <1>1 DEF kMask, Down
    <3> QED BY <2>0, <3>2, <3>4, <3>5 DEF OwnerInv
  <2>2. CASE pc[Owner] \notin OwnerClaims
    BY <2>0, <2>2 DEF OwnerInv, OwnerClaims
  <2> QED BY <2>1, <2>2
<1>6. \A u \in Others \ {t} : pc[u] \notin Locked /\ pc'[u] = pc[u] /\ elem'[u] = elem[u]
  BY <1>1, OnlyHolder, Threads
<1>7. ASSUME NEW u \in Others PROVE OtherInv(u)'
  <2>1. CASE u = t
    BY <2>1
  <2>2. CASE u # t
    <3>1. pc'[u] \notin OtherClaims
      BY <1>6, <2>2 DEF OtherClaims, OtherOut, OtherIn, Locked
    <3> QED BY <3>1 DEF OtherInv, OtherClaims
  <2> QED BY <2>1, <2>2
<1>8. \A u \in Watchers : EmptyInv(u)'
  <2>1. \A u \in Others : pc[u] = "Revoke_check" => u = t
    BY <1>6 DEF Locked
  <2>2. \A s \in Slot \ {e} : array_'[s] = array_[s] /\ (Held(s) => Held(s)')
    BY <2>1 DEF Around, Held
  <2>3. \A u \in Watchers : pc'[u] = pc[u] /\ maybe_zero'[u] = maybe_zero[u]
    BY <1>1, Threads
  <2> QED BY <1>0, <2>2, <2>3, EmptyKept
<1> QED BY <1>0, <1>2, <1>3, <1>4, <1>5, <1>7, <1>8 DEF IInv

\* The owner's claim is not touched by another thread's step.
LEMMA OwnerClaim ==
  ASSUME IInv, NEW t \in Others, OtherStep(t)
  PROVE  pc'[Owner] = pc[Owner] /\ elem'[Owner] = elem[Owner]
  BY OtherFrame, Threads DEF IInv

\* PushBack claims the element behind the window.
LEMMA PushBackInv ==
  ASSUME IInv, NEW t \in Others, OtherStep(t), NEW w \in Fresh, PushBack(t, w)
  PROVE  IInv'
<1>0. TypeOK /\ WindowInv /\ t \in Thread
  BY Threads DEF IInv
<1>1. PICK e \in Slot : e = kMask(Down(back_))
  BY <1>0, MaskSlots
<1>2. /\ pc[t] = "idle" /\ mutex_ = NoThread /\ array_[e].state = "kEmpty"
      /\ pc'[t] \in {"PushBack_index", "PushBackWithTag_index"}
      /\ elem'[t] = e /\ item'[t] = w
      /\ array_' = [array_ EXCEPT ![e].state = "kBusy"]
      /\ back_' = back_ /\ present' = present
  BY <1>0, <1>1 DEF PushBack, At, Claim, Goto, TypeOK, empty_vars
<1>3. Last = back_ /\ Last' = back_ /\ First' = First
  <2>1. ~PopBackBegin(t)
    BY <1>0, <1>2 DEF PopBackBegin, Goto, TypeOK
  <2> QED BY <1>0, <1>2, <2>1, OnlyHolder, MutexStep, OtherFrame DEF Popped
<1>4. /\ Apart(First, Last)' <= kSize /\ \A s : InWindow(s)' <=> InWindow(s)
  BY <1>3, SameWindow
<1>5. ~InWindow(e)
  BY <1>0, <1>2 DEF WindowInv
<1>6. array_'[e].state = "kBusy" /\ \A s \in Slot \ {e} : array_'[s] = array_[s]
  BY <1>0, <1>2 DEF TypeOK
<1>7. Around(e) /\ Suits(e)
  BY <1>4, <1>5, <1>6 DEF Around, Suits
<1>8. pc[Owner] \in OwnerClaims => e # elem[Owner]
  BY <1>2, NotClaimed
<1>9. OtherInv(t)'
  <2>1. /\ InWindow(elem[t])' <=> Inside(First, Last, elem'[t])
        /\ kMask(Down(Last))' = kMask(Down(Last))
    BY <1>3, NewWindow
  <2>2. ~InWindow(elem[t])' /\ elem'[t] = kMask(Down(Last))'
    BY <1>1, <1>2, <1>3, <1>5, <2>1 DEF InWindow
  <2>3. pc'[t] \notin OtherIn /\ pc'[t] # "Revoke_check"
    BY <1>2 DEF OtherIn
  <2> QED BY <1>2, <1>6, <1>8, <2>2, <2>3, OwnerClaim DEF OtherInv
<1>10. ~Held(e)
  BY <1>2, OnlyHolder DEF Held, Locked
<1> QED BY <1>2, <1>4, <1>7, <1>8, <1>9, <1>10, OtherCombine DEF Fresh

\* PushBackIndex takes it into the window.
LEMMA PushBackIndexInv ==
  ASSUME IInv, NEW t \in Others, OtherStep(t), PushBackIndex(t)
  PROVE  IInv'
<1>0. TypeOK /\ WindowInv /\ t \in Thread /\ MutexInv /\ OtherInv(t)
  BY Threads DEF IInv
<1>1. PICK e \in Slot : e = elem[t]
  BY <1>0 DEF TypeOK
<1>2. /\ pc[t] \in {"PushBack_index", "PushBackWithTag_index"}
      /\ pc'[t] \in {"PushBack_ready", "PushBackWithTag_ready"}
      /\ elem' = elem /\ item' = item /\ array_' = array_
      /\ back_' = Down(back_) /\ present' = present
  BY <1>0 DEF PushBackIndex, At, Goto, TypeOK, empty_vars, local_vars
<1>3. mutex_ = t
  BY <1>0, <1>2 DEF MutexInv, Locked
<1>4. Last = back_ /\ Last' = Down(Last) /\ First' = First
  <2>1. ~PopBackBegin(t)
    BY <1>2 DEF PopBackBegin, At
  <2> QED BY <1>0, <1>2, <1>3, <2>1, OnlyHolder, MutexStep, OtherFrame DEF Popped
<1>5. e = kMask(Down(Last)) /\ ~Inside(First, Last, e) /\ array_[e].state = "kBusy"
  BY <1>0, <1>1, <1>2 DEF OtherInv, OtherOut, OtherClaims, InWindow
<1>6. First \in Index /\ Last \in Index /\ Apart(First, Last) <= kSize /\ Apart(First, Last) \in Int
      /\ kSize \in Nat
  BY <1>0, MaskSlots, ApartValue, SizeAssumption DEF WindowInv, Index
<1>7. Apart(First, Last) < kSize
  BY <1>5, <1>6, Ends
<1>8. /\ Apart(First, Down(Last)) <= kSize
      /\ \A s \in Slot :
           Inside(First, Down(Last), s) <=> (Inside(First, Last, s) \/ s = kMask(Down(Last)))
  BY <1>6, <1>7, BackMoves
<1>9. /\ Apart(First, Last)' = Apart(First, Down(Last))
      /\ \A s : InWindow(s)' <=> Inside(First, Down(Last), s)
      /\ InWindow(elem[t])' <=> Inside(First, Down(Last), elem'[t])
      /\ kMask(Last)' = kMask(Down(Last))
  BY <1>4, NewWindow
<1>10. Around(e) /\ Suits(e)
  BY <1>2, <1>5, <1>8, <1>9 DEF Around, Suits, InWindow
<1>11. pc[Owner] \in OwnerClaims => e # elem[Owner]
  BY <1>0, <1>1, <1>2 DEF OtherInv, OtherClaims, OtherOut
<1>12. OtherInv(t)'
  <2>1. InWindow(elem[t])' /\ elem'[t] = kMask(Last)'
    BY <1>1, <1>2, <1>5, <1>8, <1>9
  <2>2. array_'[elem'[t]].state = "kBusy"
    BY <1>1, <1>2, <1>5
  <2>3. pc'[t] \notin OtherOut /\ pc'[t] # "Revoke_check"
    BY <1>2 DEF OtherOut
  <2> QED BY <1>1, <1>2, <1>11, <2>1, <2>2, <2>3, OwnerClaim DEF OtherInv
<1>13. item'[t] \in Work
  BY <1>0, <1>2 DEF IInv, WorkInv, Pushing
<1>14. ~Held(e)
  BY <1>2, <1>3, <1>5, OnlyHolder DEF Held, Locked
<1> QED BY <1>2, <1>3, <1>8, <1>9, <1>10, <1>11, <1>12, <1>13, <1>14, OtherCombine

\* PushBackReady makes it ready, and PopBackEmpty empties one that has left
\* the window: the window stays.
LEMMA WriteBackInv ==
  ASSUME IInv, NEW t \in Others, OtherStep(t), PushBackReady(t) \/ PopBackEmpty(t)
  PROVE  IInv'
<1>0. TypeOK /\ WindowInv /\ t \in Thread /\ MutexInv /\ OtherInv(t)
  BY Threads DEF IInv
<1>1. PICK e \in Slot : e = elem[t]
  BY <1>0 DEF TypeOK
<1>2. /\ back_' = back_ /\ present' = present
      /\ \/ /\ pc[t] \in {"PushBack_ready", "PushBackWithTag_ready"} /\ pc'[t] = "idle"
            /\ \E tag : array_' = [array_ EXCEPT ![e] = Elem("kReady", tag, item[t])]
         \/ /\ pc[t] \in {"PopBack_drain", "PopBack_take"}
            /\ pc'[t] \in {"PopBack_drained", "PopBack_taken"}
            /\ array_' = [array_ EXCEPT ![e] = Elem("kEmpty", NoThread, NoWork)]
  BY <1>0, <1>1 DEF PushBackReady, PopBackEmpty, At, Return, Goto, TypeOK, empty_vars
<1>3. mutex_ = t
  BY <1>0, <1>2 DEF MutexInv, Locked
<1>4. First' = First /\ Last' = Last
  <2>1. ~PopBackBegin(t)
    BY <1>2 DEF PopBackBegin, At
  <2>2. Last = IF pc[t] \in Popped THEN Up(back_) ELSE back_
    BY <1>3, OnlyHolder
  <2>3. Last' = IF pc'[t] \in Popped THEN Up(back_) ELSE back_
    BY <1>2, <2>1, MutexStep
  <2> QED BY <1>0, <1>2, <2>2, <2>3, OtherFrame DEF Popped
<1>5. /\ Apart(First, Last)' <= kSize /\ \A s : InWindow(s)' <=> InWindow(s)
  BY <1>4, SameWindow
<1>6. /\ array_[e].state = "kBusy" /\ \A s \in Slot \ {e} : array_'[s] = array_[s]
      /\ \/ /\ array_'[e].state = "kReady" /\ array_'[e].w \in Work /\ InWindow(e)
         \/ array_'[e].state = "kEmpty" /\ ~InWindow(e)
  <2>1. array_[e].state = "kBusy" /\ \A s \in Slot \ {e} : array_'[s] = array_[s]
    BY <1>0, <1>1, <1>2 DEF TypeOK, OtherInv, OtherClaims, OtherOut, OtherIn
  <2>2. CASE pc[t] \in {"PushBack_ready", "PushBackWithTag_ready"}
    <3>1. item[t] \in Work /\ InWindow(e)
      BY <1>0, <1>1, <2>2 DEF IInv, WorkInv, Pushing, OtherInv, OtherIn
    <3>2. \E tag : array_'[e] = Elem("kReady", tag, item[t])
      BY <1>0, <1>2, <2>2 DEF TypeOK
    <3> QED BY <2>1, <3>1, <3>2 DEF Elem
  <2>3. CASE pc[t] \in {"PopBack_drain", "PopBack_take"}
    <3>1. ~InWindow(e)
      BY <1>0, <1>1, <2>3 DEF OtherInv, OtherOut
    <3>2. array_'[e] = Elem("kEmpty", NoThread, NoWork)
      BY <1>0, <1>2, <2>3 DEF TypeOK
    <3> QED BY <2>1, <3>1, <3>2 DEF Elem
  <2> QED BY <1>2, <2>2, <2>3
<1>7. Around(e) /\ Suits(e)
  BY <1>5, <1>6 DEF Around, Suits
<1>8. pc'[t] \notin OtherClaims /\ pc'[t] \notin Pushing /\ pc[t] # "Revoke_check"
  BY <1>2 DEF OtherClaims, OtherOut, OtherIn, Pushing
<1>9. OtherInv(t)'
  BY <1>8 DEF OtherInv, OtherClaims
<1>10. pc[Owner] \in OwnerClaims => e # elem[Owner]
  BY <1>0, <1>1, <1>2 DEF OtherInv, OtherClaims, OtherOut, OtherIn
<1>11. ~Held(e)
  BY <1>3, <1>6, <1>8, OnlyHolder DEF Held, Locked
<1> QED BY <1>2, <1>3, <1>5, <1>7, <1>8, <1>9, <1>10, <1>11, OtherCombine

\* PopBack takes the last element out of the window.
LEMMA PopBackInv ==
  ASSUME IInv, NEW t \in Others, OtherStep(t), PopBack(t), pc'[t] # "idle"
  PROVE  IInv'
<1>0. TypeOK /\ WindowInv /\ t \in Thread /\ MutexInv
  BY Threads DEF IInv
<1>1. PICK e \in Slot : e = kMask(back_)
  BY <1>0, MaskSlots
<1>2. /\ pc[t] \in {"PopBack", "PopBack_locked"} /\ array_[e].state \in {"kReady", "kRevoked"}
      /\ pc'[t] \in {"PopBack_drain", "PopBack_take"}
      /\ elem'[t] = e /\ back_' = back_
      /\ array_' = [array_ EXCEPT ![e].state = "kBusy"]
      /\ \/ present' = present /\ array_[e].state # "kReady"
         \/ present' = [u \in Watchers |-> present[u] \ {array_[e].w}]
  BY <1>0, <1>1 DEF PopBack, At, Claim, Goto, TypeOK, Leaves
<1>3. mutex_ \in {t, NoThread} /\ ~PopBackBegin(t)
  BY <1>2, MutexStep DEF PopBackBegin, At
<1>4. Last = back_ /\ Last' = Up(Last) /\ First' = First
  <2>1. Last = back_
    BY <1>2, <1>3, OnlyHolder DEF Popped
  <2>2. Last' = Up(back_)
    BY <1>2, <1>3, MutexStep DEF Popped
  <2> QED BY <1>0, <2>1, <2>2, OtherFrame
<1>5. Inside(First, Last, e)
  BY <1>0, <1>2 DEF WindowInv, InWindow
<1>6. First \in Index /\ Last \in Index /\ Apart(First, Last) <= kSize
  BY <1>0, MaskSlots DEF WindowInv
<1>7. Apart(First, Last) # 0
  BY <1>1, <1>4, <1>5, <1>6, Ends
<1>8. /\ Apart(First, Up(Last)) <= kSize
      /\ \A s \in Slot :
           Inside(First, Up(Last), s) <=> (Inside(First, Last, s) /\ s # kMask(Last))
  BY <1>6, <1>7, BackMoves
<1>9. /\ Apart(First, Last)' = Apart(First, Up(Last))
      /\ \A s : InWindow(s)' <=> Inside(First, Up(Last), s)
      /\ InWindow(elem[t])' <=> Inside(First, Up(Last), elem'[t])
      /\ kMask(Down(Last))' = kMask(Down(Up(Last)))
  BY <1>4, NewWindow
<1>10. array_'[e].state = "kBusy" /\ \A s \in Slot \ {e} : array_'[s] = array_[s]
  BY <1>0, <1>2 DEF TypeOK
<1>11. Around(e) /\ Suits(e)
  BY <1>1, <1>4, <1>8, <1>9, <1>10 DEF Around, Suits, InWindow
<1>12. pc[Owner] \in OwnerClaims => e # elem[Owner]
  BY <1>2, NotClaimed
<1>13. OtherInv(t)'
  <2>1. kMask(Down(Last))' = e
    BY <1>1, <1>4, <1>6, <1>9, IndexStep
  <2>2. ~InWindow(elem[t])'
    BY <1>1, <1>2, <1>4, <1>8, <1>9
  <2>3. pc'[t] \notin OtherIn /\ pc'[t] # "Revoke_check"
    BY <1>2 DEF OtherIn
  <2> QED BY <1>2, <1>10, <1>12, <2>1, <2>2, <2>3, OwnerClaim DEF OtherInv
<1>14. pc'[t] \notin Pushing
  BY <1>2 DEF Pushing
<1>15. Held(e) => array_[e].state = "kReady"
  BY <1>2, <1>3, OnlyHolder DEF Held, Locked
<1>16. \/ (\A u \in Watchers : present'[u] = present[u]) /\ ~Held(e)
       \/ \A u \in Watchers : present'[u] = present[u] \ {array_[e].w}
  BY <1>2, <1>15
<1> QED BY <1>2, <1>3, <1>8, <1>9, <1>11, <1>12, <1>13, <1>14, <1>16, OtherCombine

\* RevokeWithTag claims a ready element, which stays where it is.
LEMMA RevokeWithTagInv ==
  ASSUME IInv, NEW t \in Others, OtherStep(t), NEW e \in Slot, RevokeWithTag(t, e),
         array_[e].state = "kReady"
  PROVE  IInv'
<1>0. TypeOK /\ WindowInv /\ WorkInv /\ t \in Thread
  BY Threads DEF IInv
<1>2. /\ pc[t] = "idle" /\ mutex_ = NoThread /\ pc'[t] = "Revoke_check"
      /\ elem'[t] = e /\ back_' = back_ /\ present' = present
      /\ array_' = [array_ EXCEPT ![e].state = "kBusy"]
  BY <1>0 DEF RevokeWithTag, At, Claim, Goto, TypeOK, empty_vars
<1>3. Last' = Last /\ First' = First
  <2>1. ~PopBackBegin(t)
    BY <1>0, <1>2 DEF PopBackBegin, Goto, TypeOK
  <2> QED BY <1>0, <1>2, <2>1, OnlyHolder, MutexStep, OtherFrame DEF Popped
<1>4. /\ Apart(First, Last)' <= kSize /\ \A s : InWindow(s)' <=> InWindow(s)
  BY <1>3, SameWindow
<1>5. InWindow(e) /\ array_[e].w \in Work
  BY <1>0 DEF WindowInv, WorkInv
<1>6. /\ array_'[e].state = "kBusy" /\ array_'[e].w = array_[e].w
      /\ \A s \in Slot \ {e} : array_'[s] = array_[s]
  BY <1>0, <1>2 DEF TypeOK
<1>7. Around(e) /\ Suits(e)
  BY <1>4, <1>5, <1>6 DEF Around, Suits
<1>8. pc[Owner] \in OwnerClaims => e # elem[Owner]
  BY NotClaimed
<1>9. OtherInv(t)'
  <2>1. InWindow(elem[t])'
    <3>1. InWindow(elem[t])' <=> Inside(First, Last, elem'[t])
      BY <1>3, NewWindow
    <3> QED BY <1>2, <1>5, <3>1 DEF InWindow
  <2>2. pc'[t] \notin OtherIn /\ pc'[t] \notin OtherOut
    BY <1>2 DEF OtherIn, OtherOut
  <2> QED BY <1>2, <1>5, <1>6, <1>8, <2>1, <2>2, OwnerClaim DEF OtherInv
<1>10. Held(e)'
  BY <1>2 DEF Held
<1>11. pc'[t] \notin Pushing
  BY <1>2 DEF Pushing
<1> QED BY <1>2, <1>4, <1>6, <1>7, <1>8, <1>9, <1>10, <1>11, OtherCombine

\* RevokeCheck gives the element back, marks it, or takes the last one out of
\* the window.
LEMMA RevokeCheckInv ==
  ASSUME IInv, NEW t \in Others, OtherStep(t), RevokeCheck(t)
  PROVE  IInv'
<1>0. TypeOK /\ WindowInv /\ t \in Thread /\ MutexInv /\ OtherInv(t)
  BY Threads DEF IInv
<1>1. PICK e \in Slot : e = elem[t]
  BY <1>0 DEF TypeOK
<1>2. /\ pc[t] = "Revoke_check" /\ back_' = back_
      /\ \/ /\ array_' = [array_ EXCEPT ![e].state = "kReady"]
            /\ pc'[t] = "idle" /\ present' = present
         \/ /\ array_' = [array_ EXCEPT ![e] = Elem("kRevoked", NoThread, NoWork)]
            /\ pc'[t] = "idle"
            /\ present' = [u \in Watchers |-> present[u] \ {array_[e].w}]
         \/ /\ array_' = [array_ EXCEPT ![e] = Elem("kEmpty", NoThread, NoWork)]
            /\ pc'[t] = "Revoke_index" /\ kMask(back_) = e
            /\ present' = [u \in Watchers |-> present[u] \ {array_[e].w}]
  BY <1>0, <1>1 DEF RevokeCheck, At, Goto, Return, Leaves, TypeOK
<1>3. mutex_ = t /\ ~PopBackBegin(t)
  BY <1>0, <1>2 DEF MutexInv, Locked, PopBackBegin, At
<1>4. /\ Last = back_ /\ First' = First
      /\ Last' = IF pc'[t] = "Revoke_index" THEN Up(Last) ELSE Last
  <2>1. Last = back_
    BY <1>2, <1>3, OnlyHolder DEF Popped
  <2>2. Last' = IF pc'[t] \in Popped THEN Up(back_) ELSE back_
    BY <1>2, <1>3, MutexStep
  <2> QED BY <1>0, <1>2, <2>1, <2>2, OtherFrame DEF Popped
<1>5. Inside(First, Last, e) /\ array_[e].w \in Work /\ array_[e].state = "kBusy"
      /\ (pc[Owner] \in OwnerClaims => e # elem[Owner])
  BY <1>0, <1>1, <1>2 DEF OtherInv, OtherClaims, InWindow
<1>6. pc'[t] \notin OtherClaims /\ pc'[t] \notin Pushing
  BY <1>2 DEF OtherClaims, OtherOut, OtherIn, Pushing
<1>7. OtherInv(t)'
  BY <1>6 DEF OtherInv, OtherClaims
<1>8. \A s \in Slot \ {e} : array_'[s] = array_[s]
  BY <1>0, <1>2 DEF TypeOK
<1>9. CASE pc'[t] # "Revoke_index"
  <2>1. /\ Apart(First, Last)' <= kSize /\ \A s : InWindow(s)' <=> InWindow(s)
    BY <1>4, <1>9, SameWindow
  <2>2. CASE present' = present /\ array_' = [array_ EXCEPT ![e].state = "kReady"]
    <3>1. array_'[e].state = "kReady" /\ array_'[e].w = array_[e].w
      BY <1>0, <2>2 DEF TypeOK
    <3>2. Around(e) /\ Suits(e)
      BY <1>5, <1>8, <2>1, <3>1 DEF Around, Suits, InWindow
    <3>3. Held(e)'
      BY <3>1 DEF Held
    <3> QED BY <1>1, <1>3, <1>5, <1>6, <1>7, <2>1, <2>2, <3>1, <3>2, <3>3, OtherCombine
  <2>3. CASE /\ present' = [u \in Watchers |-> present[u] \ {array_[e].w}]
             /\ array_' = [array_ EXCEPT ![e] = Elem("kRevoked", NoThread, NoWork)]
    <3>1. array_'[e].state = "kRevoked"
      BY <1>0, <2>3 DEF TypeOK, Elem
    <3>2. Around(e) /\ Suits(e)
      BY <1>5, <1>8, <2>1, <3>1 DEF Around, Suits, InWindow
    <3>3. \A u \in Watchers : present'[u] = present[u] \ {array_[e].w}
      BY <2>3
    <3> QED BY <1>1, <1>3, <1>5, <1>6, <1>7, <2>1, <3>2, <3>3, OtherCombine
  <2> QED BY <1>2, <1>9, <2>2, <2>3
<1>10. CASE pc'[t] = "Revoke_index"
  <2>1. /\ array_' = [array_ EXCEPT ![e] = Elem("kEmpty", NoThread, NoWork)]
        /\ kMask(Last) = e /\ Last' = Up(Last)
        /\ present' = [u \in Watchers |-> present[u] \ {array_[e].w}]
    BY <1>2, <1>4, <1>10
  <2>2. First \in Index /\ Last \in Index /\ Apart(First, Last) <= kSize
    BY <1>0, MaskSlots DEF WindowInv
  <2>3. Apart(First, Last) # 0
    BY <1>5, <2>1, <2>2, Ends
  <2>4. /\ Apart(First, Up(Last)) <= kSize
        /\ \A s \in Slot :
             Inside(First, Up(Last), s) <=> (Inside(First, Last, s) /\ s # kMask(Last))
    BY <2>2, <2>3, BackMoves
  <2>5. /\ Apart(First, Last)' = Apart(First, Up(Last))
        /\ \A s : InWindow(s)' <=> Inside(First, Up(Last), s)
    BY <1>4, <2>1, NewWindow
  <2>6. array_'[e].state = "kEmpty"
    BY <1>0, <2>1 DEF TypeOK, Elem
  <2>7. Around(e) /\ Suits(e)
    BY <1>8, <2>1, <2>4, <2>5, <2>6 DEF Around, Suits, InWindow
  <2>8. \A u \in Watchers : present'[u] = present[u] \ {array_[e].w}
    BY <2>1
  <2> QED BY <1>1, <1>3, <1>5, <1>6, <1>7, <2>4, <2>5, <2>7, <2>8, OtherCombine
<1> QED BY <1>9, <1>10

\* Steps of another thread that leave the elements alone: it begins, finds
\* nothing, or stores the index after a pop.
LEMMA BackStillInv ==
  ASSUME IInv, NEW t \in Others, OtherStep(t),
         \/ PopBackBegin(t) \/ PopBackIndex(t) \/ RevokeIndex(t)
         \/ PopBack(t) /\ pc'[t] = "idle"
         \/ \E s \in Slot : RevokeWithTag(t, s) /\ array_[s].state # "kReady"
  PROVE  IInv'
<1>0. TypeOK /\ TypeOK' /\ t \in Thread /\ t \notin Watchers
  BY OtherTypes, Threads DEF IInv
<1>1. /\ maybe_zero' = maybe_zero /\ First' = First
      /\ \A u \in Thread \ {t} : pc'[u] = pc[u] /\ elem'[u] = elem[u] /\ item'[u] = item[u]
  BY <1>0, OtherFrame
<1>2. /\ array_' = array_ /\ present' = present
      /\ \/ PopBackBegin(t) /\ pc[t] = "idle" /\ pc'[t] = "PopBack"
         \/ /\ pc[t] \in {"PopBack_drained", "PopBack_taken", "Revoke_index"}
            /\ pc'[t] \in {"idle", "PopBack_locked"} /\ back_' = Up(back_)
         \/ /\ pc[t] \in {"idle", "PopBack", "PopBack_locked"} /\ pc'[t] = "idle"
            /\ back_' = back_
  <2>1. ASSUME NEW x PROVE [pc EXCEPT ![t] = x][t] = x
    BY <1>0 DEF TypeOK
  <2>2. CASE PopBackBegin(t)
    BY <2>1, <2>2 DEF PopBackBegin, At, Goto, queue_vars, empty_vars
  <2>3. CASE PopBackIndex(t) \/ RevokeIndex(t)
    BY <2>1, <2>3 DEF PopBackIndex, RevokeIndex, At, Goto, Return, empty_vars
  <2>4. CASE PopBack(t) /\ pc'[t] = "idle"
    BY <2>1, <2>4 DEF PopBack, At, Goto
  <2>5. CASE \E s \in Slot : RevokeWithTag(t, s) /\ array_[s].state # "kReady"
    BY <2>5 DEF RevokeWithTag, At, empty_vars
  <2> QED BY <2>2, <2>3, <2>4, <2>5
<1>3. MutexInv' /\ Last' = Last
  <2>1. CASE PopBackBegin(t)
    <3>1. pc'[t] = "PopBack" /\ back_' = back_ /\ pc[t] = "idle"
      BY <1>0, <2>1 DEF PopBackBegin, Goto, At, TypeOK, queue_vars
    <3>2. \A u \in Others : pc'[u] \in Popped <=> pc[u] \in Popped
      BY <1>1, <3>1, Threads DEF Popped
    <3> QED BY <3>1, <3>2, MutexStep DEF Last, Popped, Up
  <2>2. CASE ~PopBackBegin(t)
    <3>1. Last = IF pc[t] \in Popped THEN Up(back_) ELSE back_
      BY <2>2, MutexStep, OnlyHolder
    <3>2. Last' = IF pc'[t] \in Popped THEN Up(back_') ELSE back_'
      BY <2>2, MutexStep
    <3> QED BY <1>2, <2>2, <3>1, <3>2, MutexStep DEF Popped
  <2> QED BY <2>1, <2>2
<1>4. pc'[t] \notin OwnerClaims /\ pc'[t] \notin OtherClaims /\ pc'[t] \notin Pushing
      /\ pc[t] # "Revoke_check"
  BY <1>2 DEF OwnerClaims, OwnerOut, OtherClaims, OtherOut, OtherIn, Pushing
<1> QED BY <1>0, <1>1, <1>2, <1>3, <1>4, StillInv

\* The other threads' steps keep the invariant.
LEMMA OtherStepInv ==
  ASSUME IInv, NEW t \in Others, OtherStep(t)
  PROVE  IInv'
<1>1. CASE \E w \in Fresh : PushBack(t, w)
  BY <1>1, PushBackInv
<1>2. CASE \E s \in Slot : RevokeWithTag(t, s)
  BY <1>2, RevokeWithTagInv, BackStillInv
<1>3. CASE PushBackIndex(t) \/ PushBackReady(t) \/ PopBackEmpty(t) \/ RevokeCheck(t)
  BY <1>3, PushBackIndexInv, WriteBackInv, RevokeCheckInv
<1>4. CASE PopBack(t)
  BY <1>4, PopBackInv, BackStillInv
<1>5. CASE PopBackBegin(t) \/ PopBackIndex(t) \/ RevokeIndex(t)
  BY <1>5, BackStillInv
<1> QED BY <1>1, <1>2, <1>3, <1>4, <1>5 DEF OtherStep

-----------------------------------------------------------------------------
(***************************************************************************)
(* The watchers' steps.                                                    *)
(***************************************************************************)

\* Equal indices are those of an empty queue: a pop that has not stored its
\* index yet would leave them more than kSize apart.
LEMMA EqualIndices ==
  ASSUME IInv, front_ = back_
  PROVE  Contents = {}
<1>0. TypeOK /\ WindowInv /\ kSize \in Nat /\ kSize > 2
  BY SizeAssumption DEF IInv
<1>1. front_ \in 0..(2 * kSize - 1) /\ front_ \in Index
  BY <1>0 DEF TypeOK, Index
<1>2. PICK f \in Index : f = First
  BY <1>0, MaskSlots
<1>3. PICK b \in Index : b = Last
  BY <1>0, MaskSlots
<1>4. f = front_ \/ f = (IF front_ = 0 THEN 2 * kSize - 1 ELSE front_ - 1)
  BY <1>1, <1>2, IndexStep DEF First
<1>5. b = front_ \/ b = (IF front_ = 2 * kSize - 1 THEN 0 ELSE front_ + 1)
  BY <1>1, <1>3, IndexStep DEF Last
<1>6. /\ Apart(f, b) = IF f >= b THEN f - b ELSE f - b + 2 * kSize
      /\ Apart(f, b) <= kSize
  BY <1>0, <1>2, <1>3, ApartValue DEF WindowInv
<1>7. Apart(f, b) = 0
  BY <1>0, <1>1, <1>4, <1>5, <1>6
<1>8. \A s : ~InWindow(s)
  BY <1>2, <1>3, <1>7 DEF InWindow, Inside
<1>9. \A s \in Slot : ~Held(s)
  <2>1. \A s \in Slot : array_[s].state # "kReady"
    BY <1>0, <1>8 DEF WindowInv
  <2>2. \A t \in Others : pc[t] # "Revoke_check"
    BY <1>8 DEF IInv, OtherInv
  <2> QED BY <2>1, <2>2 DEF Held
<1> QED BY <1>0, <1>9, ContentsHeld

\* The watchers' steps keep the invariant.
LEMMA WatcherStepInv ==
  ASSUME IInv, NEW t \in Watchers, Empty(t) \/ EmptyBack(t) \/ EmptyFront(t)
  PROVE  IInv'
<1>0. TypeOK /\ TypeOK' /\ t \in Thread /\ t # Owner /\ t \notin Others
  BY WatcherTypes, Threads DEF IInv
<1>1. /\ front_' = front_ /\ back_' = back_ /\ array_' = array_ /\ mutex_' = mutex_
      /\ elem' = elem /\ item' = item
      /\ \A u \in Thread \ {t} : pc'[u] = pc[u]
  BY WatcherTypes DEF queue_vars, local_vars
<1>2. pc'[Owner] = pc[Owner] /\ \A u \in Others : pc'[u] = pc[u]
  BY <1>0, <1>1, Threads
<1>3. First' = First /\ Last' = Last
  BY <1>1, <1>2 DEF First, Last, Up, Down
<1>4. Apart(First, Last)' <= kSize /\ \A s : InWindow(s)' <=> InWindow(s)
  BY <1>3, SameWindow
<1>5. MutexInv' /\ WindowInv'
  BY <1>1, <1>2, <1>4 DEF IInv, MutexInv, WindowInv
<1>6. WorkInv'
  <2>1. pc'[t] \notin Pushing
    BY <1>0 DEF TypeOK, InEmpty, Pushing
  <2> QED BY <1>1, <2>1 DEF IInv, WorkInv
<1>7. /\ \A u : InWindow(elem[u])' <=> Inside(First, Last, elem[u])
      /\ kMask(First)' = kMask(First) /\ kMask(Down(First))' = kMask(Down(First))
      /\ kMask(Last)' = kMask(Last) /\ kMask(Down(Last))' = kMask(Down(Last))
  BY <1>1, <1>3, NewWindow
<1>8. OwnerInv'
  BY <1>1, <1>2, <1>7 DEF IInv, OwnerInv, InWindow
<1>9. \A u \in Others : OtherInv(u)'
  BY <1>1, <1>2, <1>7 DEF IInv, OtherInv, InWindow
<1>10. Contents' = Contents
  BY <1>1, <1>2 DEF Contents, At
<1>11. ASSUME NEW u \in Watchers PROVE EmptyInv(u)'
  <2>0. EmptyInv(u) /\ u \in Thread
    BY Threads DEF IInv
  <2>1. CASE u # t
    <3>1. pc'[u] = pc[u]
      BY <1>1, <2>0, <2>1
    <3>2. present'[u] = present[u] /\ maybe_zero'[u] = maybe_zero[u]
      BY <1>0, <2>1 DEF Empty, EmptyBack, EmptyFront, TypeOK
    <3> QED BY <1>10, <2>0, <3>1, <3>2 DEF EmptyInv, InEmpty, At
  <2>2. CASE u = t /\ Empty(t)
    <3>1. pc'[t] = "Empty_back" /\ present'[t] = Contents
      BY <1>0, <2>2 DEF Empty, Goto, TypeOK
    <3> QED BY <1>10, <2>2, <3>1 DEF EmptyInv, InEmpty, At
  <2>3. CASE u = t /\ EmptyBack(t)
    <3>1. /\ pc[t] = "Empty_back" /\ present' = present
          /\ maybe_zero'[t] = (~moved[t] /\ front_ = back_)
      BY <1>0, <2>3 DEF EmptyBack, At, TypeOK
    <3>2. present[t] \subseteq Contents
      BY <2>0, <2>3, <3>1 DEF EmptyInv, InEmpty
    <3>3. maybe_zero'[t] => present'[t] = {}
      BY <3>1, <3>2, EqualIndices
    <3> QED BY <1>10, <2>3, <3>1, <3>2, <3>3 DEF EmptyInv, At
  <2>4. CASE u = t /\ EmptyFront(t)
    <3>1. /\ pc[t] = "Empty_front" /\ pc'[t] \in {"Empty_back", "idle"}
          /\ pc'[t] = "idle" \/ present' = present
      BY <1>0, <2>4 DEF EmptyFront, At, Goto, TypeOK
    <3> QED BY <1>10, <2>0, <2>4, <3>1 DEF EmptyInv, InEmpty, At
  <2> QED BY <2>1, <2>2, <2>3, <2>4
<1> QED BY <1>0, <1>5, <1>6, <1>8, <1>9, <1>11 DEF IInv

-----------------------------------------------------------------------------
(***************************************************************************)
(* The theorems.                                                           *)
(***************************************************************************)

\* The queue starts with the invariant: nothing in the array, the indices equal.
LEMMA InitInv ==
  ASSUME Init
  PROVE  IInv
<1>0. kSize \in Nat /\ kSize > 2 /\ 0 \in Slot /\ 0 \in Index
  BY SizeAssumption DEF Slot, Index
<1>1. TypeOK
  <2>1. pc \in [Thread -> OwnerLabel \cup Locked \cup {"PopBack", "Empty_back", "Empty_front"}]
        /\ \A t \in Thread : pc[t] = "idle"
    BY DEF Init, OwnerLabel
  <2>2. array_ \in [Slot -> ElemType]
    BY ElemTypes DEF Init
  <2>3. moved \in [Watchers -> BOOLEAN] /\ maybe_zero \in [Watchers -> BOOLEAN]
        /\ present \in [Watchers -> SUBSET Work] /\ offers \in [Others -> SUBSET Slot]
    BY DEF Init
  <2>4. elem \in [Thread -> Slot] /\ item \in [Thread -> Work \cup {NoWork}]
    BY <1>0 DEF Init
  <2>5. pc[Owner] \in OwnerLabel /\ (\A t \in Others : pc[t] = "idle")
        /\ (\A t \in Watchers : pc[t] = "idle")
    BY <2>1, Threads DEF OwnerLabel
  <2>6. front_ \in Index /\ back_ \in Index /\ mutex_ \in Others \cup {NoThread}
    BY <1>0 DEF Init
  <2> QED BY <2>1, <2>2, <2>3, <2>4, <2>5, <2>6 DEF TypeOK, ElemType
<1>2. /\ \A t \in Thread : pc[t] = "idle"
      /\ \A s \in Slot : array_[s].state = "kEmpty"
      /\ front_ = 0 /\ back_ = 0
  BY DEF Init, Elem
<1>3. First = 0 /\ Last = 0
  BY <1>2, Threads DEF First, Last
<1>4. Apart(First, Last) = 0
  <2>1. Apart(0, 0) = 0
    BY <1>0, ApartValue
  <2> QED BY <1>3, <2>1
<1>5. \A s : ~InWindow(s)
  BY <1>4 DEF InWindow, Inside
<1>6. WindowInv
  BY <1>0, <1>2, <1>4, <1>5 DEF WindowInv
<1>7. /\ pc[Owner] = "idle" /\ (\A t \in Others : pc[t] = "idle")
      /\ (\A t \in Watchers : pc[t] = "idle")
  BY <1>2, Threads
<1>8. MutexInv /\ OwnerInv /\ \A t \in Others : OtherInv(t)
  BY <1>7 DEF MutexInv, Locked, OwnerInv, OwnerClaims, OwnerOut, OtherInv, OtherClaims, OtherOut,
     OtherIn
<1>9. WorkInv
  BY <1>2 DEF WorkInv, Pushing
<1>10. \A t \in Watchers : EmptyInv(t)
  BY <1>7 DEF EmptyInv, InEmpty, At
<1> QED BY <1>1, <1>6, <1>8, <1>9, <1>10 DEF IInv

\* IInv is an inductive invariant of the run queue.
THEOREM Inductive == Spec => []IInv
<1>1. Init => IInv
  BY InitInv
<1>2. IInv /\ [Next]_vars => IInv'
  <2> SUFFICES ASSUME IInv, [Next]_vars PROVE IInv'
    OBVIOUS
  <2>1. CASE OwnerStep
    BY <2>1, OwnerStepInv
  <2>2. CASE \E t \in Others : OtherStep(t)
    BY <2>2, OtherStepInv
  <2>3. CASE \E t \in Watchers : Empty(t) \/ EmptyBack(t) \/ EmptyFront(t)
    BY <2>3, WatcherStepInv
  <2>4. CASE UNCHANGED vars
    <3>1. /\ UNCHANGED <<front_, back_, array_, mutex_, pc, elem, item, offers>>
          /\ UNCHANGED <<moved, maybe_zero, present>>
      BY <2>4 DEF vars, queue_vars, local_vars, empty_vars
    <3>2. First' = First /\ Last' = Last /\ Contents' = Contents
      BY <3>1 DEF First, Last, Up, Down, Contents, At
    <3>3. TypeOK' /\ MutexInv' /\ WorkInv'
      BY <3>1 DEF IInv, TypeOK, MutexInv, WorkInv, InEmpty
    <3>4. Apart(First, Last)' <= kSize /\ \A s : InWindow(s)' <=> InWindow(s)
      BY <3>2, SameWindow
    <3>5. WindowInv'
      BY <3>1, <3>4 DEF IInv, WindowInv
    <3>6. /\ \A u : InWindow(elem[u])' <=> Inside(First, Last, elem[u])
          /\ kMask(First)' = kMask(First) /\ kMask(Down(First))' = kMask(Down(First))
          /\ kMask(Last)' = kMask(Last) /\ kMask(Down(Last))' = kMask(Down(Last))
      BY <3>1, <3>2, NewWindow
    <3>7. OwnerInv' /\ \A u \in Others : OtherInv(u)'
      BY <3>1, <3>6 DEF IInv, OwnerInv, OtherInv, InWindow
    <3>8. \A u \in Watchers : EmptyInv(u)'
      BY <3>1, <3>2 DEF IInv, EmptyInv, InEmpty, At
    <3> QED BY <3>3, <3>5, <3>7, <3>8 DEF IInv
  <2> QED BY <2>1, <2>2, <2>3, <2>4 DEF Next
<1> QED BY <1>1, <1>2, PTL DEF Spec

\* The indices of the queue enclose exactly the elements in use, whatever the
\* owner and the other threads do, and never more than kSize of them.
THEOREM WindowCorrect == Spec => []WindowExact
<1>1. IInv => WindowExact
  <2> SUFFICES ASSUME IInv PROVE WindowExact
    OBVIOUS
  <2>0. TypeOK /\ WindowInv
    BY DEF IInv
  <2>1. Length = Apart(First, Last)
    BY DEF Length, Apart
  <2>2. ASSUME NEW i \in 1..Length
        PROVE  array_[Position(i)].state # "kEmpty"
    <3>1. InWindow(Position(i))
      BY <2>1 DEF InWindow, Inside, Position
    <3>2. Position(i) \in Slot
      <4>1. Last \in Index /\ First \in Index /\ kSize \in Nat
        BY <2>0, MaskSlots, SizeAssumption
      <4>2. Length \in Nat /\ Length <= kSize
        BY <2>0, <2>1, <4>1, ApartValue DEF Index, WindowInv
      <4>3. PICK x \in 0..(3 * kSize - 1) : x = Last + i - 1
        BY <4>1, <4>2 DEF Index
      <4> QED BY <4>3, MaskValue DEF Position
    <3> QED BY <2>0, <3>1, <3>2 DEF WindowInv
  <2>3. ASSUME NEW s \in Slot, s \notin {Position(i) : i \in 1..Length}
        PROVE  array_[s].state \in {"kEmpty", "kBusy"}
    <3>1. ~InWindow(s)
      BY <2>1, <2>3 DEF InWindow, Inside, Position
    <3> QED BY <2>0, <3>1 DEF WindowInv
  <2> QED BY <2>0, <2>1, <2>2, <2>3 DEF WindowExact, WindowInv
<1> QED BY <1>1, Inductive, PTL

\* A thread that is about to be told that the queue is empty has not overlooked
\* a task that was in it all the time.
THEOREM EmptyCorrect == Spec => []EmptyMissesNothing
<1>1. IInv => EmptyMissesNothing
  BY DEF IInv, EmptyInv, EmptyMissesNothing
<1> QED BY <1>1, Inductive, PTL

-----------------------------------------------------------------------------
(***************************************************************************)
(* A finite set of numbers in increasing order, and the sequences that list *)
(* one.                                                                    *)
(***************************************************************************)

\* A set of natural numbers has a least element.
LEMMA Least ==
  ASSUME NEW T, T \subseteq Nat, T # {}
  PROVE  \E x \in T : \A y \in T : x <= y
<1> DEFINE R == OpToRel(<, Nat)
<1>1. IsWellFoundedOn(R, Nat)
  BY NatLessThanWellFounded
<1>2. \A x, y \in Nat : y < x => <<y, x>> \in R
  BY DEF OpToRel
<1> HIDE DEF R
<1>3. PICK x \in T : \A y \in T : ~(<<y, x>> \in R)
  BY <1>1, WFMin
<1>4. \A y \in T : ~(y < x)
  BY <1>2, <1>3
<1> QED BY <1>4

\* The one sequence that Orders has, as ListOrdered shows.
Ordered(S) == CHOOSE s \in Orders(S) : TRUE

\* The sequence lists the set in increasing order.
Increasing(s) == \A i, j \in DOMAIN s : i < j => s[i] < s[j]
Lists(s, S) == s \in Seq(S) /\ Increasing(s) /\ \A x \in S : \E k \in 1..Len(s) : x = s[k]

\* The same, as a function from numbers, and two that agree up to a place.
IsList(s, n, S) ==
  s \in [1..n -> S] /\ Increasing(s) /\ \A x \in S : \E k \in 1..n : x = s[k]
Agree(s, u, k) == \A i \in DOMAIN s : i < k => s[i] = u[i]

\* Of two lists of the same set, none is ahead of the other.
LEMMA NotAhead ==
  ASSUME NEW n \in Nat, NEW S, S \subseteq Nat, NEW s, NEW u,
         IsList(s, n, S), IsList(u, n, S), NEW k \in 1..n, Agree(s, u, k)
  PROVE  s[k] <= u[k]
<1>1. PICK m \in 1..n : u[k] = s[m]
  BY DEF IsList
<1>2. \A i, j \in 1..n : /\ i < j => s[i] < s[j] /\ u[i] < u[j]
                         /\ s[i] \in Nat /\ u[i] \in Nat
  BY DEF IsList, Increasing
<1>3. CASE m < k
  <2>1. u[k] = u[m] /\ u[m] < u[k]
    BY <1>1, <1>2, <1>3 DEF IsList, Agree
  <2> QED BY <1>2, <2>1
<1>4. CASE m = k
  BY <1>1, <1>2, <1>4
<1>5. CASE k < m
  BY <1>1, <1>2, <1>5
<1> QED BY <1>3, <1>4, <1>5

\* So they are the same.
LEMMA SameList ==
  ASSUME NEW n \in Nat, NEW S, S \subseteq Nat, NEW s, NEW u,
         IsList(s, n, S), IsList(u, n, S)
  PROVE  s = u
<1> DEFINE T == {k \in 1..n : s[k] # u[k]}
<1>0. s \in [1..n -> S] /\ u \in [1..n -> S]
  BY DEF IsList
<1>1. ASSUME T # {} PROVE FALSE
  <2>1. PICK k \in T : \A y \in T : k <= y
    <3>1. T \subseteq Nat
      OBVIOUS
    <3> QED BY <1>1, <3>1, Least
  <2>2. k \in 1..n /\ s[k] # u[k]
    BY <2>1
  <2>3. Agree(s, u, k) /\ Agree(u, s, k)
    <3>1. \A i \in 1..n : i < k => i \notin T
      BY <2>1
    <3> QED BY <1>0, <3>1 DEF Agree
  <2> HIDE DEF T
  <2>4. s[k] <= u[k]
    BY <2>2, <2>3, NotAhead, Zenon
  <2>5. u[k] <= s[k]
    BY <2>2, <2>3, NotAhead, Zenon
  <2>6. s[k] \in Nat /\ u[k] \in Nat
    BY <1>0, <2>2
  <2> QED BY <2>2, <2>4, <2>5, <2>6
<1> QED BY <1>0, <1>1

\* The set that a sequence lists has as many elements, and it is Ordered.
LEMMA ListOrdered ==
  ASSUME NEW S, S \subseteq Nat, NEW s, Lists(s, S)
  PROVE  s = Ordered(S) /\ Orders(S) = {s} /\ IsFiniteSet(S) /\ Cardinality(S) = Len(s)
<1>1. PICK n \in Nat : n = Len(s) /\ s \in [1..n -> S] /\ DOMAIN s = 1..n
  BY DEF Lists
<1>2. \A x \in S : \E k \in 1..n : x = s[k]
  BY <1>1 DEF Lists
<1>3. Increasing(s) /\ \A i, j \in 1..n : i < j => s[i] < s[j]
  BY <1>1 DEF Lists, Increasing
<1>4. \A i, j \in 1..n : s[i] = s[j] => i = j
  <2> SUFFICES ASSUME NEW i \in 1..n, NEW j \in 1..n, i # j PROVE s[i] # s[j]
    OBVIOUS
  <2>1. s[i] \in Nat /\ s[j] \in Nat
    BY <1>1
  <2> QED BY <1>3, <2>1
<1>5. s \in Bijection(1..n, S)
  BY <1>1, <1>2, <1>4 DEF Bijection, Injection, Surjection, IsInjective
<1>6. ExistsBijection(1..n, S)
  BY <1>5 DEF ExistsBijection
<1>7. IsFiniteSet(S) /\ Cardinality(S) = n
  BY <1>6, FS_CountingElements, FS_NatBijection
<1>8. s \in Orders(S)
  BY <1>1, <1>3, <1>7 DEF Orders, Increasing
<1>9. ASSUME NEW u \in Orders(S) PROVE u = s
  <2>0. u \in [1..n -> S] /\ Increasing(u)
    BY <1>7 DEF Orders, Increasing
  <2>1. \A i, j \in 1..n : i < j => u[i] < u[j]
    BY <2>0 DEF Increasing
  <2>2. \A i, j \in 1..n : u[i] = u[j] => i = j
    <3> SUFFICES ASSUME NEW i \in 1..n, NEW j \in 1..n, i # j PROVE u[i] # u[j]
      OBVIOUS
    <3>1. u[i] \in Nat /\ u[j] \in Nat
      BY <2>0
    <3> QED BY <2>1, <3>1
  <2>3. u \in Injection(1..n, S)
    BY <2>0, <2>2 DEF Injection, IsInjective
  <2>4. IsFiniteSet(1..n) /\ Cardinality(1..n) = n
    BY FS_Interval
  <2>5. u \in Surjection(1..n, S)
    BY <1>7, <2>3, <2>4, FS_Injection
  <2>6. \A x \in S : \E k \in 1..n : x = u[k]
    BY <2>5 DEF Surjection
  <2>7. IsList(s, n, S) /\ IsList(u, n, S)
    BY <1>1, <1>2, <1>3, <2>0, <2>6 DEF IsList
  <2> QED BY <2>7, SameList, Zenon
<1>10. s = Ordered(S) /\ Orders(S) = {s}
  BY <1>8, <1>9 DEF Ordered
<1> QED BY <1>1, <1>7, <1>10

\* A number above them all is the last.
LEMMA ListAppend ==
  ASSUME NEW S, S \subseteq Nat, NEW s, Lists(s, S), NEW n \in Nat, \A x \in S : x < n
  PROVE  Lists(Append(s, n), S \cup {n})
<1> DEFINE U == S \cup {n}
           v == Append(s, n)
<1>1. s \in Seq(U) /\ s \in Seq(S) /\ n \in U
  BY DEF Lists
<1>2. v \in Seq(U) /\ Len(v) = Len(s) + 1 /\ Len(s) \in Nat
      /\ \A i \in 1..Len(v) : v[i] = IF i <= Len(s) THEN s[i] ELSE n
  BY <1>1
<1>3. DOMAIN v = 1..Len(v) /\ DOMAIN s = 1..Len(s)
  BY <1>1, <1>2
<1>4. \A i, j \in 1..Len(s) : i < j => s[i] < s[j]
  BY <1>3 DEF Lists, Increasing
<1>5. \A i \in 1..Len(s) : s[i] \in S /\ s[i] < n /\ s[i] \in Nat
  <2>1. \A i \in 1..Len(s) : s[i] \in S
    BY <1>1
  <2> QED BY <2>1
<1> HIDE DEF v, U
<1>6. Increasing(v)
  BY <1>2, <1>3, <1>4, <1>5 DEF Increasing
<1>7. ASSUME NEW x \in U PROVE \E k \in 1..Len(v) : x = v[k]
  <2>1. CASE x = n
    <3>1. x = v[Len(v)]
      BY <1>2, <2>1
    <3> QED BY <1>2, <3>1
  <2>2. CASE x \in S
    <3>1. PICK k \in 1..Len(s) : x = s[k]
      BY <2>2 DEF Lists
    <3>2. k \in 1..Len(v) /\ x = v[k]
      BY <1>2, <3>1
    <3> QED BY <3>2
  <2> QED BY <2>1, <2>2 DEF U
<1> QED BY <1>2, <1>6, <1>7 DEF Lists, v, U

\* Every bounded set of numbers has a list.
LEMMA ListExists ==
  ASSUME NEW n \in Nat, NEW S, S \subseteq 1..n
  PROVE  \E s : Lists(s, S)
<1> DEFINE T == {m \in Nat : \E V : V \subseteq 1..m /\ ~\E s : Lists(s, V)}
<1>1. ASSUME T # {} PROVE FALSE
  <2>1. PICK m \in T : \A y \in T : m <= y
    <3>1. T \subseteq Nat
      OBVIOUS
    <3> QED BY <1>1, <3>1, Least
  <2>2. PICK V : V \subseteq 1..m /\ ~\E s : Lists(s, V)
    BY <2>1
  <2>3. m \in Nat /\ (m # 0 => m - 1 \in Nat /\ m - 1 \notin T)
    BY <2>1
  <2>4. CASE m = 0
    <3>1. V = {}
      BY <2>2, <2>4
    <3>2. Lists(<<>>, V)
      BY <3>1 DEF Lists, Increasing
    <3> QED BY <2>2, <3>2
  <2>5. CASE m # 0
    <3>1. V \ {m} \subseteq 1..(m - 1)
      BY <2>2, <2>3
    <3>2. PICK s : Lists(s, V \ {m})
      BY <2>3, <2>5, <3>1
    <3>3. CASE m \notin V
      <4>1. V \ {m} = V
        BY <3>3
      <4> QED BY <2>2, <3>2, <4>1
    <3>4. CASE m \in V
      <4>1. (V \ {m}) \cup {m} = V
        BY <3>4
      <4>2. V \ {m} \subseteq Nat /\ \A x \in V \ {m} : x < m
        BY <2>3, <3>1
      <4>3. Lists(Append(s, m), (V \ {m}) \cup {m})
        BY <2>3, <3>2, <4>2, ListAppend
      <4> QED BY <2>2, <4>1, <4>3
    <3> QED BY <3>3, <3>4
  <2> QED BY <2>4, <2>5
<1>2. n \notin T
  BY <1>1
<1> QED BY <1>2

\* Ordered lists the set.
LEMMA OrderedLists ==
  ASSUME NEW n \in Nat, NEW S, S \subseteq 1..n
  PROVE  Lists(Ordered(S), S)
<1>1. PICK s : Lists(s, S)
  BY ListExists
<1>2. S \subseteq Nat
  OBVIOUS
<1> QED BY <1>1, <1>2, ListOrdered

\* Numbers that are all moved up by one, below a new first one or not.
LEMMA ListShift ==
  ASSUME NEW S, S \subseteq Nat \ {0}, NEW s, Lists(s, S)
  PROVE  LET v == [k \in 1..Len(s) |-> s[k] + 1]
             U == {x + 1 : x \in S}
         IN  /\ Lists(v, U)
             /\ Lists(<<1>> \o v, {1} \cup U)
<1> DEFINE v == [k \in 1..Len(s) |-> s[k] + 1]
           U == {x + 1 : x \in S}
           w == <<1>> \o v
<1>1. s \in Seq(S) /\ Len(s) \in Nat /\ DOMAIN s = 1..Len(s) /\ \A i \in 1..Len(s) : s[i] \in S
  BY DEF Lists
<1>2. v \in Seq(U) /\ Len(v) = Len(s) /\ DOMAIN v = 1..Len(s)
      /\ \A i \in 1..Len(s) : v[i] = s[i] + 1
  BY <1>1
<1>3. \A i, j \in 1..Len(s) : i < j => s[i] < s[j]
  BY <1>1 DEF Lists, Increasing
<1>4. \A x \in S : \E k \in 1..Len(s) : x = s[k]
  BY DEF Lists
<1>5. \A x \in S : x \in Nat /\ x > 0
  OBVIOUS
<1> DEFINE W == {1} \cup U
<1>6. w \in Seq(W) /\ Len(w) = Len(s) + 1
      /\ \A i \in 1..(Len(s) + 1) : w[i] = IF i = 1 THEN 1 ELSE s[i - 1] + 1
  <2>1. v \in Seq(W) /\ <<1>> \in Seq(W) /\ Len(<<1>>) = 1 /\ <<1>>[1] = 1
    BY <1>2, SeqMonotonic
  <2> HIDE DEF v, W
  <2>2. w \in Seq(W) /\ Len(w) = 1 + Len(v)
        /\ \A i \in 1..(1 + Len(v)) : w[i] = IF i <= 1 THEN <<1>>[i] ELSE v[i - 1]
    BY <2>1, ConcatProperties
  <2>3. ASSUME NEW i \in 1..(Len(s) + 1) PROVE w[i] = IF i = 1 THEN 1 ELSE s[i - 1] + 1
    <3>1. CASE i = 1
      BY <1>1, <1>2, <2>1, <2>2, <3>1
    <3>2. CASE i # 1
      <4>1. i - 1 \in 1..Len(s) /\ ~(i <= 1) /\ i \in 1..(1 + Len(v))
        BY <1>1, <1>2, <3>2
      <4> QED BY <1>2, <2>2, <3>2, <4>1
    <3> QED BY <3>1, <3>2
  <2> QED BY <1>1, <1>2, <2>2, <2>3
<1> HIDE DEF v, w
<1>7. Increasing(v)
  <2>1. \A i \in 1..Len(s) : s[i] \in Nat
    BY <1>1, <1>5
  <2> QED BY <1>2, <1>3, <2>1 DEF Increasing
<1>8. \A x \in U : \E k \in 1..Len(v) : x = v[k]
  <2> SUFFICES ASSUME NEW x \in S PROVE \E k \in 1..Len(v) : x + 1 = v[k]
    OBVIOUS
  <2>1. PICK k \in 1..Len(s) : x = s[k]
    BY <1>4
  <2> QED BY <1>2, <2>1
<1>9. Increasing(w)
  <2>1. DOMAIN w = 1..(Len(s) + 1)
    BY <1>6
  <2> SUFFICES ASSUME NEW i \in 1..(Len(s) + 1), NEW j \in 1..(Len(s) + 1), i < j
               PROVE  w[i] < w[j]
    BY <2>1 DEF Increasing
  <2>2. j # 1 /\ j - 1 \in 1..Len(s)
    BY <1>1
  <2>3. w[j] = s[j - 1] + 1 /\ s[j - 1] \in Nat /\ s[j - 1] > 0
    BY <1>1, <1>5, <1>6, <2>2
  <2>4. CASE i = 1
    BY <1>6, <2>3, <2>4
  <2>5. CASE i # 1
    <3>1. i - 1 \in 1..Len(s) /\ i - 1 < j - 1
      BY <1>1, <2>5
    <3>2. w[i] = s[i - 1] + 1 /\ s[i - 1] \in Nat /\ s[i - 1] < s[j - 1]
      BY <1>1, <1>3, <1>5, <1>6, <2>2, <2>5, <3>1
    <3> QED BY <2>3, <3>2
  <2> QED BY <2>4, <2>5
<1>10. ASSUME NEW x \in W PROVE \E k \in 1..Len(w) : x = w[k]
  <2>1. CASE x = 1
    BY <1>1, <1>6, <2>1
  <2>2. CASE x \in U
    <3>1. PICK k \in 1..Len(s) : x = v[k]
      BY <1>2, <1>8, <2>2
    <3>2. k + 1 \in 1..Len(w) /\ x = w[k + 1]
      BY <1>1, <1>2, <1>6, <3>1
    <3> QED BY <3>2
  <2> QED BY <2>1, <2>2
<1> QED BY <1>2, <1>6, <1>7, <1>8, <1>9, <1>10 DEF Lists, v, w

\* A sequence without its k-th element.
Without(s, k) == SubSeq(s, 1, k - 1) \o SubSeq(s, k + 1, Len(s))

\* What is left of a sequence.
LEMMA WithoutProperties ==
  ASSUME NEW S, NEW s \in Seq(S), NEW k \in 1..Len(s)
  PROVE  /\ Without(s, k) \in Seq(S)
         /\ Len(Without(s, k)) = Len(s) - 1
         /\ \A i \in 1..(Len(s) - 1) : Without(s, k)[i] = IF i < k THEN s[i] ELSE s[i + 1]
<1>0. Len(s) \in Nat /\ k \in 1..Len(s)
  OBVIOUS
<1>1. PICK a : a = SubSeq(s, 1, k - 1)
  OBVIOUS
<1>2. PICK b : b = SubSeq(s, k + 1, Len(s))
  OBVIOUS
<1>3. /\ a \in Seq(S) /\ Len(a) = k - 1
      /\ \A i \in 1..(k - 1) : a[i] = s[i]
  <2>1. \A i \in 1..(k - 1) : s[i] \in S
    BY <1>0
  <2>2. /\ a \in Seq(S)
        /\ Len(a) = IF 1 <= k - 1 THEN k - 1 - 1 + 1 ELSE 0
        /\ \A i \in 1..(k - 1 - 1 + 1) : a[i] = s[1 + i - 1]
    BY <1>0, <1>1, <2>1, SubSeqProperties
  <2> QED BY <1>0, <2>2
<1>4. /\ b \in Seq(S) /\ Len(b) = Len(s) - k
      /\ \A i \in 1..(Len(s) - k) : b[i] = s[k + i]
  <2>1. \A i \in (k + 1)..Len(s) : s[i] \in S
    BY <1>0
  <2>2. /\ b \in Seq(S)
        /\ Len(b) = IF k + 1 <= Len(s) THEN Len(s) - (k + 1) + 1 ELSE 0
        /\ \A i \in 1..(Len(s) - (k + 1) + 1) : b[i] = s[k + 1 + i - 1]
    BY <1>0, <1>2, <2>1, SubSeqProperties
  <2>3. \A i \in 1..(Len(s) - k) : k + 1 + i - 1 = k + i /\ i \in 1..(Len(s) - (k + 1) + 1)
    BY <1>0
  <2> QED BY <1>0, <2>2, <2>3
<1>5. /\ a \o b \in Seq(S) /\ Len(a \o b) = Len(a) + Len(b)
      /\ \A i \in 1..(Len(a) + Len(b)) : (a \o b)[i] = IF i <= Len(a) THEN a[i] ELSE b[i - Len(a)]
  BY <1>3, <1>4, ConcatProperties
<1>6. Len(a) + Len(b) = Len(s) - 1
  BY <1>0, <1>3, <1>4
<1>7. ASSUME NEW i \in 1..(Len(s) - 1)
      PROVE  (a \o b)[i] = IF i < k THEN s[i] ELSE s[i + 1]
  <2>1. CASE i < k
    BY <1>0, <1>3, <1>5, <1>6, <2>1
  <2>2. CASE ~(i < k)
    <3>1. ~(i <= Len(a)) /\ i - Len(a) \in 1..(Len(s) - k) /\ k + (i - Len(a)) = i + 1
      BY <1>0, <1>3, <2>2
    <3>2. (a \o b)[i] = b[i - Len(a)]
      BY <1>5, <1>6, <3>1
    <3> QED BY <1>4, <2>2, <3>1, <3>2
  <2> QED BY <2>1, <2>2
<1> QED BY <1>1, <1>2, <1>5, <1>6, <1>7 DEF Without

\* A set without an element, and a list without its place.
LEMMA ListWithout ==
  ASSUME NEW S, S \subseteq Nat, NEW s, Lists(s, S), NEW k \in 1..Len(s)
  PROVE  Lists(Without(s, k), S \ {s[k]})
<1> DEFINE U == S \ {s[k]}
<1>0. s \in Seq(S) /\ Len(s) \in Nat /\ DOMAIN s = 1..Len(s) /\ \A i \in 1..Len(s) : s[i] \in Nat
  <2>1. s \in Seq(S)
    BY DEF Lists
  <2>2. Len(s) \in Nat /\ DOMAIN s = 1..Len(s) /\ \A i \in 1..Len(s) : s[i] \in S
    BY <2>1
  <2> QED BY <2>1, <2>2
<1>1. PICK v : v = Without(s, k)
  OBVIOUS
<1>2. /\ v \in Seq(S) /\ Len(v) = Len(s) - 1
      /\ \A i \in 1..(Len(s) - 1) : v[i] = IF i < k THEN s[i] ELSE s[i + 1]
  BY <1>0, <1>1, WithoutProperties
<1>3. \A i, j \in 1..Len(s) : i < j => s[i] < s[j]
  BY <1>0 DEF Lists, Increasing
<1>4. DOMAIN v = 1..(Len(s) - 1)
  BY <1>0, <1>2
<1>5. Increasing(v)
  <2> SUFFICES ASSUME NEW i \in 1..(Len(s) - 1), NEW j \in 1..(Len(s) - 1), i < j
               PROVE  v[i] < v[j]
    BY <1>4 DEF Increasing
  <2>1. PICK p \in 1..Len(s) : v[i] = s[p] /\ p = IF i < k THEN i ELSE i + 1
    BY <1>0, <1>2
  <2>2. PICK q \in 1..Len(s) : v[j] = s[q] /\ q = IF j < k THEN j ELSE j + 1
    BY <1>0, <1>2
  <2>3. p < q
    BY <2>1, <2>2
  <2> QED BY <1>3, <2>1, <2>2, <2>3
<1>6. ASSUME NEW i \in 1..(Len(s) - 1) PROVE v[i] \in U
  <2>1. PICK p \in 1..Len(s) : v[i] = s[p] /\ p = IF i < k THEN i ELSE i + 1
    BY <1>0, <1>2
  <2>2. p < k \/ k < p
    BY <2>1
  <2>3. s[p] # s[k]
    BY <1>0, <1>3, <2>2
  <2> QED BY <1>0, <2>1, <2>3
<1>7. v \in Seq(U)
  <2>1. v \in [1..(Len(s) - 1) -> U]
    BY <1>2, <1>4, <1>6
  <2>2. Len(s) - 1 \in Nat
    BY <1>0
  <2> QED BY <2>1, <2>2, SeqDef
<1>8. ASSUME NEW x \in U PROVE \E i \in 1..Len(v) : x = v[i]
  <2>1. PICK p \in 1..Len(s) : x = s[p]
    BY DEF Lists
  <2>2. p # k
    BY <2>1
  <2>3. CASE p < k
    <3>1. p \in 1..(Len(s) - 1) /\ v[p] = s[p]
      BY <1>0, <1>2, <2>3
    <3> QED BY <1>2, <2>1, <3>1
  <2>4. CASE k < p
    <3>1. p - 1 \in 1..(Len(s) - 1) /\ ~(p - 1 < k) /\ p - 1 + 1 = p
      BY <1>0, <2>4
    <3>2. v[p - 1] = s[p]
      BY <1>2, <3>1
    <3> QED BY <1>2, <2>1, <3>1, <3>2
  <2> QED BY <2>2, <2>3, <2>4
<1> QED BY <1>1, <1>5, <1>7, <1>8 DEF Lists

-----------------------------------------------------------------------------
(***************************************************************************)
(* The deque that a window of the array holds.                             *)
(***************************************************************************)
Window(f, b) == f \in Index /\ b \in Index /\ Apart(f, b) <= kSize
Cell(b, i) == kMask(b + i - 1)
Item(x) == [w |-> x.w, tag |-> x.tag]
ItemType == [w: Work, tag: Others \cup {NoThread}]

TaskPlaces(f, b, a) == {i \in 1..Apart(f, b) : a[Cell(b, i)].w # NoWork}
Taken(s, b, a) == [k \in DOMAIN s |-> Item(a[Cell(b, s[k])])]
DequeIn(f, b, a) == Taken(Ordered(TaskPlaces(f, b, a)), b, a)

\* The deque of the window between First and Last, before and after a step.
DequesIn(f, b, a) == {Taken(s, b, a) : s \in Orders(TaskPlaces(f, b, a))}

LEMMA DequeOfIs ==
  /\ DequeOf = CHOOSE d \in DequesIn(First, Last, array_) : TRUE
  /\ DequeOf' = CHOOSE d \in DequesIn(First', Last', array_') : TRUE
  BY DEF DequeOf, DequesIn, TaskPlaces, Taken, Item, Cell, Position, Length, Apart

\* The elements of a window are different ones.
LEMMA Cells ==
  ASSUME NEW f, NEW b, Window(f, b)
  PROVE  /\ Apart(f, b) \in 0..kSize /\ kSize \in Nat
         /\ \A i \in 1..Apart(f, b) : Cell(b, i) \in Slot
         /\ \A i, j \in 1..Apart(f, b) : Cell(b, i) = Cell(b, j) => i = j
<1>0. kSize \in Nat /\ kSize > 2 /\ b \in 0..(2 * kSize - 1) /\ f \in Index /\ b \in Index
      /\ Apart(f, b) <= kSize
  BY SizeAssumption DEF Index, Window
<1>1. Apart(f, b) \in 0..kSize
  BY <1>0, ApartValue DEF Index
<1>2. ASSUME NEW i \in 1..Apart(f, b)
      PROVE  /\ Cell(b, i) = IF b + i - 1 < kSize THEN b + i - 1
                             ELSE IF b + i - 1 < 2 * kSize THEN b + i - 1 - kSize
                             ELSE b + i - 1 - 2 * kSize
             /\ Cell(b, i) \in Slot
  <2>1. PICK x \in 0..(3 * kSize - 1) : x = b + i - 1
    BY <1>0, <1>1
  <2>2. kMask(x) = (IF x < kSize THEN x ELSE IF x < 2 * kSize THEN x - kSize ELSE x - 2 * kSize)
    BY MaskValue
  <2>3. Cell(b, i) = kMask(x)
    BY <2>1 DEF Cell
  <2> HIDE DEF Cell
  <2> QED BY <1>0, <2>1, <2>2, <2>3 DEF Slot
<1>3. ASSUME NEW i \in 1..Apart(f, b), NEW j \in 1..Apart(f, b), Cell(b, i) = Cell(b, j)
      PROVE  i = j
  <2>1. i \in 1..kSize /\ j \in 1..kSize
    <3>1. PICK m \in 0..kSize : m = Apart(f, b)
      BY <1>1
    <3>2. i \in 1..m /\ j \in 1..m
      BY <1>3, <3>1
    <3> QED BY <1>0, <3>2
  <2>2. PICK c : c = Cell(b, i) /\ c = Cell(b, j)
    BY <1>3
  <2>3. /\ c = (IF b + i - 1 < kSize THEN b + i - 1
               ELSE IF b + i - 1 < 2 * kSize THEN b + i - 1 - kSize
               ELSE b + i - 1 - 2 * kSize)
        /\ c = (IF b + j - 1 < kSize THEN b + j - 1
               ELSE IF b + j - 1 < 2 * kSize THEN b + j - 1 - kSize
               ELSE b + j - 1 - 2 * kSize)
    BY <1>2, <1>3, <2>2
  <2> QED BY <1>0, <2>1, <2>3
<1> QED BY <1>0, <1>1, <1>2, <1>3

\* The cells of a window that is shorter by one.
LEMMA FrontCell ==
  ASSUME NEW f, NEW b, Window(f, b), Apart(f, b) # 0
  PROVE  /\ Window(Down(f), b) /\ Apart(Down(f), b) = Apart(f, b) - 1
         /\ Cell(b, Apart(f, b)) = kMask(Down(f))
<1>0. kSize \in Nat /\ kSize > 2 /\ b \in 0..(2 * kSize - 1) /\ f \in 0..(2 * kSize - 1)
      /\ f \in Index /\ b \in Index /\ Apart(f, b) <= kSize
  BY SizeAssumption DEF Index, Window
<1>1. PICK g \in Index : g = Down(f)
  BY <1>0, IndexStep
<1>2. g = (IF f = 0 THEN 2 * kSize - 1 ELSE f - 1) /\ g \in 0..(2 * kSize - 1)
  BY <1>0, <1>1, IndexStep DEF Index
<1>3. /\ Apart(f, b) = (IF f >= b THEN f - b ELSE f - b + 2 * kSize)
      /\ Apart(g, b) = (IF g >= b THEN g - b ELSE g - b + 2 * kSize)
  BY <1>0, ApartValue
<1>4. Apart(g, b) = Apart(f, b) - 1 /\ Apart(f, b) \in 1..kSize
  BY <1>0, <1>2, <1>3
<1>5. kMask(g) = (IF g < kSize THEN g ELSE g - kSize)
  BY MaskIndex
<1>6. PICK x \in 0..(3 * kSize - 1) : x = b + Apart(f, b) - 1
  BY <1>0, <1>4
<1>7. kMask(x) = (IF x < kSize THEN x ELSE IF x < 2 * kSize THEN x - kSize ELSE x - 2 * kSize)
  BY MaskValue
<1>8. x = g \/ x = g + 2 * kSize
  BY <1>0, <1>2, <1>3, <1>6
<1>9. kMask(x) = kMask(g)
  BY <1>0, <1>2, <1>5, <1>7, <1>8
<1> QED BY <1>0, <1>1, <1>4, <1>6, <1>9 DEF Window, Cell

\* The same at the back, where the positions move down by one.
LEMMA BackCell ==
  ASSUME NEW f, NEW b, Window(f, b), Apart(f, b) # 0
  PROVE  /\ Window(f, Up(b)) /\ Apart(f, Up(b)) = Apart(f, b) - 1
         /\ Cell(b, 1) = kMask(b)
         /\ \A i \in 1..(Apart(f, b) - 1) : Cell(Up(b), i) = Cell(b, i + 1)
<1>0. kSize \in Nat /\ kSize > 2 /\ b \in 0..(2 * kSize - 1) /\ f \in 0..(2 * kSize - 1)
      /\ f \in Index /\ b \in Index /\ Apart(f, b) <= kSize
  BY SizeAssumption DEF Index, Window
<1>1. PICK c \in Index : c = Up(b)
  BY <1>0, IndexStep
<1>2. c = (IF b = 2 * kSize - 1 THEN 0 ELSE b + 1) /\ c \in 0..(2 * kSize - 1)
  BY <1>0, <1>1, IndexStep DEF Index
<1>3. /\ Apart(f, b) = (IF f >= b THEN f - b ELSE f - b + 2 * kSize)
      /\ Apart(f, c) = (IF f >= c THEN f - c ELSE f - c + 2 * kSize)
  BY <1>0, ApartValue
<1>4. Apart(f, c) = Apart(f, b) - 1 /\ Apart(f, b) \in 1..kSize
  BY <1>0, <1>2, <1>3
<1>5. Cell(b, 1) = kMask(b)
  <2>1. b + 1 - 1 = b
    BY <1>0
  <2> QED BY <2>1 DEF Cell
<1>6. ASSUME NEW i \in 1..(Apart(f, b) - 1) PROVE Cell(c, i) = Cell(b, i + 1)
  <2>1. PICK x \in 0..(3 * kSize - 1) : x = c + i - 1
    BY <1>0, <1>2, <1>4
  <2>2. PICK y \in 0..(3 * kSize - 1) : y = b + (i + 1) - 1
    BY <1>0, <1>4
  <2>3. /\ kMask(x) = (IF x < kSize THEN x ELSE IF x < 2 * kSize THEN x - kSize ELSE x - 2 * kSize)
        /\ kMask(y) = (IF y < kSize THEN y ELSE IF y < 2 * kSize THEN y - kSize ELSE y - 2 * kSize)
    BY MaskValue
  <2>4. x = y \/ y = x + 2 * kSize
    BY <1>0, <1>2, <2>1, <2>2
  <2>5. kMask(x) = kMask(y)
    BY <1>0, <2>3, <2>4
  <2> QED BY <2>1, <2>2, <2>5 DEF Cell
<1> QED BY <1>0, <1>1, <1>4, <1>5, <1>6 DEF Window

\* Where the tasks are, in order.
LEMMA PlacesListed ==
  ASSUME NEW f, NEW b, Window(f, b), NEW a
  PROVE  /\ TaskPlaces(f, b, a) \subseteq 1..Apart(f, b)
         /\ TaskPlaces(f, b, a) \subseteq Nat \ {0}
         /\ Lists(Ordered(TaskPlaces(f, b, a)), TaskPlaces(f, b, a))
<1>1. Apart(f, b) \in Nat
  BY Cells
<1>2. TaskPlaces(f, b, a) \subseteq 1..Apart(f, b)
  BY DEF TaskPlaces
<1> QED BY <1>1, <1>2, OrderedLists

\* It is the one deque in that window.
LEMMA OneDeque ==
  ASSUME NEW f, NEW b, Window(f, b), NEW a
  PROVE  (CHOOSE d \in DequesIn(f, b, a) : TRUE) = DequeIn(f, b, a)
<1>1. PICK s : s = Ordered(TaskPlaces(f, b, a))
  OBVIOUS
<1>2. Lists(s, TaskPlaces(f, b, a)) /\ TaskPlaces(f, b, a) \subseteq Nat
  BY <1>1, PlacesListed
<1>3. Orders(TaskPlaces(f, b, a)) = {s}
  BY <1>2, ListOrdered
<1>4. DequesIn(f, b, a) = {Taken(s, b, a)}
  BY <1>3 DEF DequesIn
<1> QED BY <1>1, <1>4 DEF DequeIn

\* A deque is a sequence of tasks.
LEMMA DequeType ==
  ASSUME NEW f, NEW b, Window(f, b), NEW a \in [Slot -> ElemType]
  PROVE  /\ DequeIn(f, b, a) \in Seq(ItemType)
         /\ Len(DequeIn(f, b, a)) = Len(Ordered(TaskPlaces(f, b, a)))
         /\ \A k \in 1..Len(DequeIn(f, b, a)) :
              DequeIn(f, b, a)[k] = Item(a[Cell(b, Ordered(TaskPlaces(f, b, a))[k])])
<1> DEFINE P == TaskPlaces(f, b, a)
<1>1. PICK s : s = Ordered(P)
  OBVIOUS
<1>2. Lists(s, P)
  BY <1>1, PlacesListed
<1>3. s \in Seq(P)
  BY <1>2 DEF Lists
<1> HIDE DEF P
<1>4. Len(s) \in Nat /\ DOMAIN s = 1..Len(s) /\ \A k \in 1..Len(s) : s[k] \in P
  BY <1>3
<1>5. ASSUME NEW k \in 1..Len(s) PROVE Item(a[Cell(b, s[k])]) \in ItemType
  <2>1. s[k] \in P
    BY <1>4
  <2>2. Cell(b, s[k]) \in Slot /\ a[Cell(b, s[k])].w # NoWork
    BY <2>1, Cells DEF P, TaskPlaces
  <2>3. a[Cell(b, s[k])] \in ElemType
    BY <2>2
  <2> QED BY <2>2, <2>3 DEF ElemType, Item, ItemType
<1>6. PICK d : d = [k \in 1..Len(s) |-> Item(a[Cell(b, s[k])])]
  OBVIOUS
<1>7. d = DequeIn(f, b, a)
  BY <1>1, <1>4, <1>6 DEF DequeIn, Taken, P
<1>8. d \in [1..Len(s) -> ItemType] /\ \A k \in 1..Len(s) : d[k] = Item(a[Cell(b, s[k])])
  BY <1>5, <1>6
<1>9. d \in Seq(ItemType) /\ Len(d) = Len(s)
  <2>1. d \in Seq(ItemType)
    BY <1>4, <1>8, SeqDef
  <2>2. DOMAIN d = 1..Len(s)
    BY <1>8
  <2> QED BY <1>4, <2>1, <2>2, LenProperties
<1> QED BY <1>1, <1>7, <1>8, <1>9 DEF P

\* A deque read off any list of the places.
LEMMA DequeByList ==
  ASSUME NEW f, NEW b, Window(f, b), NEW a \in [Slot -> ElemType],
         NEW s, Lists(s, TaskPlaces(f, b, a))
  PROVE  /\ Len(DequeIn(f, b, a)) = Len(s)
         /\ \A k \in 1..Len(s) : DequeIn(f, b, a)[k] = Item(a[Cell(b, s[k])])
<1>1. TaskPlaces(f, b, a) \subseteq Nat
  BY PlacesListed
<1>2. s = Ordered(TaskPlaces(f, b, a))
  BY <1>1, ListOrdered
<1> QED BY <1>2, DequeType

\* A deque whose window shrinks at its front.
LEMMA DequeFront ==
  ASSUME NEW f, NEW b, Window(f, b), Apart(f, b) # 0, NEW a \in [Slot -> ElemType]
  PROVE  DequeIn(f, b, a) =
           LET e == kMask(Down(f))
           IN  IF a[e].w = NoWork THEN DequeIn(Down(f), b, a)
               ELSE Append(DequeIn(Down(f), b, a), Item(a[e]))
<1> DEFINE e == kMask(Down(f))
           n == Apart(f, b)
           P == TaskPlaces(f, b, a)
           Q == TaskPlaces(Down(f), b, a)
<1>1. PICK g : g = Down(f) /\ Window(g, b) /\ Apart(g, b) = n - 1 /\ Cell(b, n) = e
  BY FrontCell
<1>2. n \in Nat /\ n # 0 /\ \A i \in 1..n : Cell(b, i) \in Slot
  BY Cells
<1>3. P = IF a[e].w = NoWork THEN Q ELSE Q \cup {n}
  <2>1. \A i \in 1..n : i = n \/ i \in 1..(n - 1)
    BY <1>2
  <2>2. \A i \in 1..(n - 1) : i \in 1..n
    BY <1>2
  <2> QED BY <1>1, <1>2, <2>1, <2>2 DEF TaskPlaces
<1>4. PICK s : s = Ordered(Q) /\ Lists(s, Q)
  BY <1>1, PlacesListed
<1>5. /\ DequeIn(g, b, a) \in Seq(ItemType) /\ Len(DequeIn(g, b, a)) = Len(s)
      /\ \A k \in 1..Len(s) : DequeIn(g, b, a)[k] = Item(a[Cell(b, s[k])])
  BY <1>1, <1>4, DequeType
<1>6. DequeIn(f, b, a) \in Seq(ItemType)
  BY DequeType
<1>7. CASE a[e].w = NoWork
  <2>1. Lists(s, P)
    BY <1>3, <1>4, <1>7
  <2>2. /\ Len(DequeIn(f, b, a)) = Len(s)
        /\ \A k \in 1..Len(s) : DequeIn(f, b, a)[k] = Item(a[Cell(b, s[k])])
    BY <2>1, DequeByList
  <2>3. DequeIn(f, b, a) = DequeIn(g, b, a)
    BY <1>5, <1>6, <2>2, SeqEqual
  <2> QED BY <1>1, <1>7, <2>3
<1>8. CASE a[e].w # NoWork
  <2>1. Q \subseteq Nat /\ \A x \in Q : x < n
    <3>1. Q \subseteq 1..(n - 1)
      BY <1>1, PlacesListed
    <3> QED BY <1>2, <3>1
  <2>2. PICK t : t = Append(s, n)
    OBVIOUS
  <2>3. Lists(t, P)
    BY <1>2, <1>3, <1>4, <1>8, <2>1, <2>2, ListAppend
  <2>4. /\ Len(DequeIn(f, b, a)) = Len(t)
        /\ \A k \in 1..Len(t) : DequeIn(f, b, a)[k] = Item(a[Cell(b, t[k])])
    BY <2>3, DequeByList
  <2>5. /\ Len(s) \in Nat /\ Len(t) = Len(s) + 1
        /\ \A k \in 1..(Len(s) + 1) : t[k] = IF k <= Len(s) THEN s[k] ELSE n
    <3>1. s \in Seq(Nat)
      BY <1>4, <2>1, SeqMonotonic DEF Lists
    <3> QED BY <1>2, <2>2, <3>1
  <2>6. Item(a[e]) \in ItemType
    <3>1. a[e] \in ElemType
      BY <1>1, <1>2
    <3> QED BY <1>8, <3>1 DEF ElemType, ItemType, Item
  <2>7. PICK v : v = Append(DequeIn(g, b, a), Item(a[e]))
    OBVIOUS
  <2>8. /\ v \in Seq(ItemType) /\ Len(v) = Len(s) + 1
        /\ \A k \in 1..(Len(s) + 1) :
             v[k] = IF k <= Len(s) THEN DequeIn(g, b, a)[k] ELSE Item(a[e])
    BY <1>5, <2>5, <2>6, <2>7
  <2>9. ASSUME NEW k \in 1..(Len(s) + 1) PROVE DequeIn(f, b, a)[k] = v[k]
    <3>1. CASE k <= Len(s)
      <4>1. k \in 1..Len(s)
        BY <2>5, <3>1
      <4> QED BY <1>5, <2>4, <2>5, <2>8, <3>1, <4>1
    <3>2. CASE ~(k <= Len(s))
      BY <1>1, <2>4, <2>5, <2>8, <3>2
    <3> QED BY <3>1, <3>2
  <2>10. DequeIn(f, b, a) = v
    BY <1>6, <2>4, <2>5, <2>8, <2>9, SeqEqual
  <2> QED BY <1>1, <1>8, <2>7, <2>10
<1> QED BY <1>7, <1>8

\* A deque whose window shrinks at its back.
LEMMA DequeBack ==
  ASSUME NEW f, NEW b, Window(f, b), Apart(f, b) # 0, NEW a \in [Slot -> ElemType]
  PROVE  DequeIn(f, b, a) =
           LET e == kMask(b)
           IN  IF a[e].w = NoWork THEN DequeIn(f, Up(b), a)
               ELSE <<Item(a[e])>> \o DequeIn(f, Up(b), a)
<1> DEFINE e == kMask(b)
           n == Apart(f, b)
           P == TaskPlaces(f, b, a)
           Q == TaskPlaces(f, Up(b), a)
           U == {x + 1 : x \in Q}
<1>1. PICK c : /\ c = Up(b) /\ Window(f, c) /\ Apart(f, c) = n - 1 /\ Cell(b, 1) = e
               /\ \A i \in 1..(n - 1) : Cell(c, i) = Cell(b, i + 1)
  BY BackCell
<1>2. n \in Nat /\ n # 0 /\ \A i \in 1..n : Cell(b, i) \in Slot
  BY Cells
<1>3. P = IF a[e].w = NoWork THEN U ELSE {1} \cup U
  <2>1. ASSUME NEW i \in 1..n, i # 1 PROVE i \in P <=> i \in U
    <3>1. i - 1 \in 1..(n - 1) /\ (i - 1) + 1 = i
      BY <1>2, <2>1
    <3>2. Cell(c, i - 1) = Cell(b, i)
      BY <1>1, <3>1
    <3>3. i - 1 \in Q <=> i \in P
      BY <1>1, <3>1, <3>2 DEF TaskPlaces
    <3>4. ASSUME NEW x \in Q, x + 1 = i PROVE x = i - 1
      <4>1. x \in 1..(n - 1)
        BY <1>1 DEF TaskPlaces
      <4> QED BY <3>4, <4>1
    <3> QED BY <3>1, <3>3, <3>4
  <2>2. 1 \in P <=> a[e].w # NoWork
    BY <1>1, <1>2 DEF TaskPlaces
  <2>3. P \subseteq 1..n /\ U \subseteq 1..n /\ 1 \notin U /\ 1 \in 1..n
    <3>1. Q \subseteq 1..(n - 1)
      BY <1>1 DEF TaskPlaces
    <3> QED BY <1>2, <3>1 DEF TaskPlaces
  <2> HIDE DEF P, U, n
  <2>4. CASE a[e].w = NoWork
    <3>1. \A i : i \in P <=> i \in U
      BY <2>1, <2>2, <2>3, <2>4, Zenon
    <3> QED BY <2>4, <3>1
  <2>5. CASE a[e].w # NoWork
    <3>1. \A i : i \in P <=> i = 1 \/ i \in U
      BY <2>1, <2>2, <2>3, <2>5, Zenon
    <3> QED BY <2>5, <3>1
  <2> QED BY <2>4, <2>5
<1>4. PICK s : s = Ordered(Q) /\ Lists(s, Q)
  BY <1>1, PlacesListed
<1>5. /\ DequeIn(f, c, a) \in Seq(ItemType) /\ Len(DequeIn(f, c, a)) = Len(s)
      /\ \A k \in 1..Len(s) : DequeIn(f, c, a)[k] = Item(a[Cell(c, s[k])])
  BY <1>1, <1>4, DequeType
<1>6. DequeIn(f, b, a) \in Seq(ItemType)
  BY DequeType
<1>7. s \in Seq(Q) /\ Len(s) \in Nat /\ \A k \in 1..Len(s) : s[k] \in 1..(n - 1)
  <2>1. s \in Seq(Q)
    BY <1>4 DEF Lists
  <2>2. Q \subseteq 1..(n - 1)
    BY <1>1 DEF TaskPlaces
  <2> HIDE DEF Q
  <2>3. Len(s) \in Nat /\ \A k \in 1..Len(s) : s[k] \in Q
    BY <2>1
  <2> QED BY <2>1, <2>2, <2>3
<1>8. \A k \in 1..Len(s) : Cell(c, s[k]) = Cell(b, s[k] + 1)
  BY <1>1, <1>7
<1>9. PICK v : v = [k \in 1..Len(s) |-> s[k] + 1]
  OBVIOUS
<1>10. Lists(v, U) /\ Lists(<<1>> \o v, {1} \cup U)
  <2>1. Q \subseteq Nat \ {0}
    BY <1>1, PlacesListed
  <2> QED BY <1>4, <1>9, <2>1, ListShift
<1>11. v \in Seq(Nat) /\ Len(v) = Len(s) /\ \A k \in 1..Len(s) : v[k] = s[k] + 1
  BY <1>7, <1>9
<1> HIDE DEF P, Q, U
<1>12. CASE a[e].w = NoWork
  <2>1. Lists(v, P)
    BY <1>3, <1>10, <1>12
  <2>2. /\ Len(DequeIn(f, b, a)) = Len(v)
        /\ \A k \in 1..Len(v) : DequeIn(f, b, a)[k] = Item(a[Cell(b, v[k])])
    BY <2>1, DequeByList DEF P
  <2>3. \A k \in 1..Len(s) : DequeIn(f, b, a)[k] = DequeIn(f, c, a)[k]
    BY <1>5, <1>8, <1>11, <2>2
  <2>4. DequeIn(f, b, a) = DequeIn(f, c, a)
    BY <1>5, <1>6, <1>11, <2>2, <2>3, SeqEqual
  <2> QED BY <1>1, <1>12, <2>4
<1>13. CASE a[e].w # NoWork
  <2>1. PICK t : t = <<1>> \o v
    OBVIOUS
  <2>2. Lists(t, P)
    BY <1>3, <1>10, <1>13, <2>1
  <2>3. /\ Len(DequeIn(f, b, a)) = Len(t)
        /\ \A k \in 1..Len(t) : DequeIn(f, b, a)[k] = Item(a[Cell(b, t[k])])
    BY <2>2, DequeByList DEF P
  <2>4. Len(t) = Len(s) + 1 /\ t[1] = 1 /\ \A k \in 1..Len(s) : t[k + 1] = s[k] + 1
    <3>1. <<1>> \in Seq(Nat) /\ Len(<<1>>) = 1 /\ <<1>>[1] = 1
      OBVIOUS
    <3>2. /\ Len(t) = 1 + Len(v)
          /\ \A k \in 1..(1 + Len(v)) : t[k] = IF k <= 1 THEN <<1>>[k] ELSE v[k - 1]
      BY <1>11, <2>1, <3>1, ConcatProperties
    <3>3. ASSUME NEW k \in 1..Len(s) PROVE t[k + 1] = s[k] + 1
      <4>1. k + 1 \in 1..(1 + Len(v)) /\ ~(k + 1 <= 1) /\ (k + 1) - 1 = k
        BY <1>7, <1>11
      <4>2. t[k + 1] = v[(k + 1) - 1]
        BY <3>2, <4>1
      <4> QED BY <1>11, <4>1, <4>2
    <3>4. t[1] = 1
      BY <1>7, <1>11, <3>1, <3>2
    <3> QED BY <1>7, <1>11, <3>2, <3>3, <3>4
  <2>5. Item(a[e]) \in ItemType
    <3>1. a[e] \in ElemType
      BY <1>1, <1>2
    <3> QED BY <1>13, <3>1 DEF ElemType, ItemType, Item
  <2>6. PICK u : u = <<Item(a[e])>> \o DequeIn(f, c, a)
    OBVIOUS
  <2>7. /\ u \in Seq(ItemType) /\ Len(u) = Len(s) + 1 /\ u[1] = Item(a[e])
        /\ \A k \in 1..Len(s) : u[k + 1] = DequeIn(f, c, a)[k]
    <3>1. PICK h : h = <<Item(a[e])>> /\ h \in Seq(ItemType) /\ Len(h) = 1 /\ h[1] = Item(a[e])
      <4>1. PICK x \in ItemType : x = Item(a[e])
        BY <2>5
      <4>2. <<x>> \in Seq(ItemType) /\ Len(<<x>>) = 1 /\ <<x>>[1] = x
        OBVIOUS
      <4> QED BY <4>1, <4>2
    <3>2. PICK d : d = DequeIn(f, c, a) /\ d \in Seq(ItemType) /\ Len(d) = Len(s)
      BY <1>5
    <3>3. /\ u \in Seq(ItemType) /\ Len(u) = 1 + Len(s)
          /\ \A k \in 1..(1 + Len(s)) : u[k] = IF k <= 1 THEN h[k] ELSE d[k - 1]
      BY <2>6, <3>1, <3>2, ConcatProperties
    <3>4. ASSUME NEW k \in 1..Len(s) PROVE u[k + 1] = d[k]
      <4>1. k + 1 \in 1..(1 + Len(s)) /\ ~(k + 1 <= 1) /\ (k + 1) - 1 = k
        BY <1>7
      <4> QED BY <3>3, <4>1
    <3>5. u[1] = Item(a[e])
      BY <1>7, <3>1, <3>3
    <3> QED BY <1>7, <3>2, <3>3, <3>4, <3>5
  <2>8. ASSUME NEW k \in 1..(Len(s) + 1) PROVE DequeIn(f, b, a)[k] = u[k]
    <3>1. CASE k = 1
      BY <1>1, <1>7, <2>3, <2>4, <2>7, <3>1
    <3>2. CASE k # 1
      <4>1. PICK j \in 1..Len(s) : k = j + 1
        <5>1. k - 1 \in 1..Len(s) /\ k = (k - 1) + 1
          BY <1>7, <3>2
        <5> QED BY <5>1
      <4>2. DequeIn(f, b, a)[k] = Item(a[Cell(b, s[j] + 1)])
        BY <2>3, <2>4, <4>1
      <4>3. u[k] = Item(a[Cell(c, s[j])])
        BY <1>5, <2>7, <4>1
      <4> QED BY <1>8, <4>2, <4>3
    <3> QED BY <3>1, <3>2
  <2>9. DequeIn(f, b, a) = u
    BY <1>6, <2>3, <2>4, <2>7, <2>8, SeqEqual
  <2> QED BY <1>1, <1>13, <2>6, <2>9
<1> QED BY <1>12, <1>13

\* What is outside the window, and states of elements, do not matter.
LEMMA DequeSame ==
  ASSUME NEW f, NEW b, Window(f, b), NEW a, NEW a2,
         \A s \in Slot : Inside(f, b, s) => a2[s].w = a[s].w /\ a2[s].tag = a[s].tag
  PROVE  DequeIn(f, b, a2) = DequeIn(f, b, a)
<1>1. ASSUME NEW i \in 1..Apart(f, b)
      PROVE  a2[Cell(b, i)].w = a[Cell(b, i)].w /\ a2[Cell(b, i)].tag = a[Cell(b, i)].tag
  <2>1. Cell(b, i) \in Slot /\ Inside(f, b, Cell(b, i))
    BY Cells DEF Inside, Cell
  <2> QED BY <2>1
<1>2. TaskPlaces(f, b, a2) = TaskPlaces(f, b, a)
  BY <1>1 DEF TaskPlaces
<1>3. PICK s : s = Ordered(TaskPlaces(f, b, a)) /\ Lists(s, TaskPlaces(f, b, a))
  BY PlacesListed
<1>4. \A k \in DOMAIN s : s[k] \in 1..Apart(f, b)
  BY <1>3 DEF Lists, TaskPlaces
<1>5. \A k \in DOMAIN s : Item(a2[Cell(b, s[k])]) = Item(a[Cell(b, s[k])])
  BY <1>1, <1>4 DEF Item
<1>6. Taken(s, b, a2) = Taken(s, b, a)
  BY <1>5 DEF Taken
<1> QED BY <1>2, <1>3, <1>6 DEF DequeIn

\* A deque from which one task disappears.
LEMMA DequeDrop ==
  ASSUME NEW f, NEW b, Window(f, b), NEW a \in [Slot -> ElemType],
         NEW a2 \in [Slot -> ElemType], NEW e \in Slot, Inside(f, b, e),
         a[e].w # NoWork, a2[e].w = NoWork, \A s \in Slot \ {e} : a2[s] = a[s]
  PROVE  \E k \in 1..Len(DequeIn(f, b, a)) :
           /\ DequeIn(f, b, a)[k] = Item(a[e])
           /\ DequeIn(f, b, a2) = Without(DequeIn(f, b, a), k)
<1> DEFINE n == Apart(f, b)
           P == TaskPlaces(f, b, a)
           Q == TaskPlaces(f, b, a2)
<1>1. PICK p \in 1..n : Cell(b, p) = e
  BY DEF Inside, Cell
<1>2. n \in Nat /\ \A i \in 1..n : Cell(b, i) \in Slot /\ (Cell(b, i) = e => i = p)
  BY <1>1, Cells
<1>3. p \in P /\ Q = P \ {p}
  BY <1>1, <1>2 DEF TaskPlaces
<1>4. PICK s : s = Ordered(P) /\ Lists(s, P)
  BY PlacesListed
<1>5. PICK k \in 1..Len(s) : s[k] = p
  BY <1>3, <1>4 DEF Lists
<1>6. PICK t : t = Without(s, k) /\ Lists(t, Q)
  <2>1. P \subseteq Nat
    BY PlacesListed
  <2>2. Lists(Without(s, k), P \ {s[k]})
    BY <1>4, <2>1, ListWithout
  <2> QED BY <1>3, <1>5, <2>2
<1>7. s \in Seq(P) /\ Len(s) \in Nat /\ k \in 1..Len(s)
  BY <1>4 DEF Lists
<1>8. /\ Len(t) = Len(s) - 1 /\ t \in Seq(Q)
      /\ \A i \in 1..(Len(s) - 1) : t[i] = IF i < k THEN s[i] ELSE s[i + 1]
  <2>1. t \in Seq(Q)
    BY <1>6 DEF Lists
  <2> HIDE DEF P, Q
  <2> QED BY <1>6, <1>7, <2>1, WithoutProperties
<1>9. PICK d : /\ d = DequeIn(f, b, a) /\ d \in Seq(ItemType) /\ Len(d) = Len(s)
               /\ \A i \in 1..Len(s) : d[i] = Item(a[Cell(b, s[i])])
  BY <1>4, DequeType
<1>10. PICK d2 : /\ d2 = DequeIn(f, b, a2) /\ d2 \in Seq(ItemType) /\ Len(d2) = Len(t)
                 /\ \A i \in 1..Len(t) : d2[i] = Item(a2[Cell(b, t[i])])
  BY <1>6, DequeByList, DequeType
<1>11. /\ Without(d, k) \in Seq(ItemType) /\ Len(Without(d, k)) = Len(d) - 1
       /\ \A i \in 1..(Len(d) - 1) : Without(d, k)[i] = IF i < k THEN d[i] ELSE d[i + 1]
  <2>1. k \in 1..Len(d)
    BY <1>9
  <2> QED BY <1>9, <2>1, WithoutProperties
<1>12. ASSUME NEW i \in 1..(Len(s) - 1) PROVE d2[i] = Without(d, k)[i]
  <2>1. t[i] \in Q /\ i \in 1..Len(t)
    BY <1>7, <1>8
  <2>2. t[i] \in 1..n /\ t[i] # p
    BY <1>3, <2>1 DEF TaskPlaces
  <2>3. a2[Cell(b, t[i])] = a[Cell(b, t[i])]
    BY <1>2, <2>2
  <2>4. d2[i] = Item(a[Cell(b, t[i])])
    BY <1>10, <2>1, <2>3
  <2>5. i \in 1..Len(s) /\ i + 1 \in 1..Len(s)
    BY <1>7
  <2> QED BY <1>8, <1>9, <1>11, <2>4, <2>5
<1>13. d2 = Without(d, k)
  <2>1. PICK v : v = Without(d, k)
    OBVIOUS
  <2>2. v \in Seq(ItemType) /\ Len(v) = Len(s) - 1 /\ Len(d2) = Len(s) - 1
    BY <1>8, <1>9, <1>10, <1>11, <2>1
  <2>3. \A i \in 1..Len(d2) : d2[i] = v[i]
    BY <1>12, <2>1, <2>2
  <2>4. d2 \in Seq(ItemType)
    BY <1>10
  <2> QED BY <2>1, <2>2, <2>3, <2>4, SeqEqual
<1>14. d[k] = Item(a[e])
  BY <1>1, <1>5, <1>9
<1> QED BY <1>9, <1>10, <1>13, <1>14

-----------------------------------------------------------------------------
(***************************************************************************)
(* The steps of the run queue as steps of the deque.                       *)
(***************************************************************************)

\* Where a thread has claimed an element, and where it takes the task out.
Claiming == OwnerClaims \cup OtherClaims
Taking == {"PopFront_take", "PopBack_take"}
Got(t) == IF pc[t] \in Taking THEN array_[elem[t]].w ELSE NoWork

\* Where there is a task and where there is none.
TaskInv ==
  /\ \A s \in Slot : array_[s].state \in {"kEmpty", "kRevoked"} => array_[s].w = NoWork
  /\ \A t \in Thread : pc[t] \in Pushing => array_[elem[t]].w = NoWork
  /\ \A t \in Thread : pc[t] \in Taking => array_[elem[t]].w \in Work

\* A step of t that writes no element but e.
Touches(t, e) ==
  /\ \/ t = Owner /\ OwnerStep
     \/ t \in Others /\ OtherStep(t)
  /\ \A s \in Slot \ {e} : array_'[s] = array_[s]
  /\ \/ array_'[e] = array_[e]
     \/ array_[e].state # "kBusy"
     \/ pc[t] \in Claiming /\ elem[t] = e

\* What t and e are after the step.
Settles(t, e) ==
  /\ array_'[e].state \in {"kEmpty", "kRevoked"} => array_'[e].w = NoWork
  /\ pc'[t] \in Pushing => array_'[elem'[t]].w = NoWork
  /\ pc'[t] \in Taking => array_'[elem'[t]].w \in Work

\* The other threads' claims are left alone.
LEMMA ClaimsKept ==
  ASSUME IInv, NEW t \in Thread, NEW e \in Slot, Touches(t, e)
  PROVE  \A u \in Thread \ {t} :
           /\ pc'[u] = pc[u] /\ elem'[u] = elem[u] /\ elem[u] \in Slot
           /\ pc[u] \in Claiming => array_'[elem[u]] = array_[elem[u]]
<1> SUFFICES ASSUME NEW u \in Thread, u # t
             PROVE  /\ pc'[u] = pc[u] /\ elem'[u] = elem[u] /\ elem[u] \in Slot
                    /\ pc[u] \in Claiming => array_'[elem[u]] = array_[elem[u]]
  OBVIOUS
<1>0. TypeOK /\ MutexInv /\ Owner \in Thread /\ elem[u] \in Slot
  BY Threads DEF IInv, TypeOK
<1>1. pc'[u] = pc[u] /\ elem'[u] = elem[u]
  BY <1>0, OwnerFrame, OtherFrame DEF Touches
<1>2. ASSUME pc[u] \in Claiming, pc[t] \in Claiming PROVE elem[u] # elem[t]
  <2>1. u \in Others \cup {Owner} /\ t \in Others \cup {Owner}
    BY <1>0, <1>2 DEF TypeOK, Thread, InEmpty, Claiming, OwnerClaims, OwnerOut, OtherClaims,
       OtherOut, OtherIn
  <2>2. \A v \in Others : pc[v] \in Claiming => pc[v] \in OtherClaims /\ pc[v] \in Locked
    BY <1>0 DEF TypeOK, Claiming, OwnerClaims, OwnerOut, OtherClaims, OtherOut, OtherIn, Locked
  <2>3. pc[Owner] \in Claiming => pc[Owner] \in OwnerClaims
    BY <1>0 DEF TypeOK, OwnerLabel, Claiming, OwnerClaims, OwnerOut, OtherClaims, OtherOut, OtherIn
  <2>4. CASE u \in Others /\ t \in Others
    <3>1. mutex_ = u /\ mutex_ = t
      BY <1>0, <1>2, <2>2, <2>4 DEF MutexInv
    <3> QED BY <3>1
  <2>5. CASE u = Owner /\ t \in Others
    BY <1>2, <2>2, <2>3, <2>5 DEF IInv, OtherInv
  <2>6. CASE u \in Others /\ t = Owner
    BY <1>2, <2>2, <2>3, <2>6 DEF IInv, OtherInv
  <2> QED BY <2>1, <2>4, <2>5, <2>6
<1>3. ASSUME pc[u] \in Claiming, array_[e].state # "kBusy" PROVE elem[u] # e
  <2>1. array_[elem[u]].state = "kBusy"
    <3>1. CASE u \in Others
      <4>1. pc[u] \in OtherClaims
        BY <1>0, <1>3, <3>1 DEF TypeOK, Claiming, OwnerClaims, OwnerOut, OtherClaims, OtherOut,
           OtherIn, Locked
      <4> QED BY <3>1, <4>1 DEF IInv, OtherInv
    <3>2. CASE u = Owner
      <4>1. pc[u] \in OwnerClaims
        BY <1>0, <1>3, <3>2 DEF TypeOK, OwnerLabel, Claiming, OwnerClaims, OwnerOut, OtherClaims,
           OtherOut, OtherIn
      <4> QED BY <3>2, <4>1 DEF IInv, OwnerInv
    <3>3. CASE u \in Watchers
      BY <1>0, <1>3, <3>3 DEF TypeOK, InEmpty, Claiming, OwnerClaims, OwnerOut, OtherClaims,
         OtherOut, OtherIn
    <3> QED BY <3>1, <3>2, <3>3 DEF Thread
  <2> QED BY <1>3, <2>1
<1> QED BY <1>0, <1>1, <1>2, <1>3 DEF Touches

\* A step of one thread keeps the invariant, and what the others have got.
LEMMA TasksKept ==
  ASSUME IInv, TaskInv, IInv', NEW t \in Thread, NEW e \in Slot, Touches(t, e), Settles(t, e)
  PROVE  /\ TaskInv'
         /\ GotOf' = [GotOf EXCEPT ![t] = Got(t)']
         /\ Got(t)' = Got(t) => GotOf' = GotOf
<1>1. \A u \in Thread \ {t} :
        /\ pc'[u] = pc[u] /\ elem'[u] = elem[u] /\ elem[u] \in Slot
        /\ pc[u] \in Claiming => array_'[elem[u]] = array_[elem[u]]
  BY ClaimsKept
<1>2. Pushing \subseteq Claiming /\ Taking \subseteq Claiming
  BY DEF Pushing, Taking, Claiming, OwnerClaims, OwnerOut, OtherClaims, OtherOut, OtherIn
<1>3. TaskInv'
  <2>1. \A s \in Slot : array_'[s].state \in {"kEmpty", "kRevoked"} => array_'[s].w = NoWork
    BY DEF Touches, Settles, TaskInv
  <2>2. ASSUME NEW u \in Thread
        PROVE  /\ pc'[u] \in Pushing => array_'[elem'[u]].w = NoWork
               /\ pc'[u] \in Taking => array_'[elem'[u]].w \in Work
    <3>1. CASE u = t
      BY <3>1 DEF Settles
    <3>2. CASE u # t
      BY <1>1, <1>2, <3>2 DEF TaskInv
    <3> QED BY <3>1, <3>2
  <2> QED BY <2>1, <2>2 DEF TaskInv
<1>4. \A u \in Thread \ {t} : Got(u)' = Got(u)
  BY <1>1, <1>2 DEF Got
<1>5. GotOf = [u \in Thread |-> Got(u)]
  BY DEF GotOf, Got, Taking
<1>6. GotOf' = [u \in Thread |-> Got(u)']
  BY DEF GotOf, Got, Taking
<1> HIDE DEF Got
<1>7. GotOf' = [GotOf EXCEPT ![t] = Got(t)']
  BY <1>4, <1>5, <1>6
<1>8. Got(t)' = Got(t) => GotOf' = GotOf
  BY <1>4, <1>5, <1>6
<1> QED BY <1>3, <1>7, <1>8

\* The deque before and after a step.
LEMMA Deques ==
  ASSUME IInv, IInv'
  PROVE  /\ Window(First, Last) /\ Window(First', Last')
         /\ array_ \in [Slot -> ElemType] /\ array_' \in [Slot -> ElemType]
         /\ DequeOf = DequeIn(First, Last, array_)
         /\ DequeOf' = DequeIn(First', Last', array_')
<1>1. TypeOK /\ WindowInv /\ TypeOK' /\ WindowInv'
  BY DEF IInv
<1>2. First \in Index /\ Last \in Index
  BY <1>1, MaskSlots
<1>3. First' \in Index /\ Last' \in Index
  <2>1. front_' \in Index /\ back_' \in Index
    BY <1>1 DEF TypeOK, Index
  <2>2. \A i \in Index : Up(i) \in Index /\ Down(i) \in Index
    BY IndexStep
  <2> QED BY <2>1, <2>2 DEF First, Last, Up, Down
<1>4. Apart(First', Last') <= kSize
  BY <1>1 DEF WindowInv, Apart
<1>5. Window(First, Last) /\ Window(First', Last')
  BY <1>1, <1>2, <1>3, <1>4 DEF WindowInv, Window
<1>6. array_ \in [Slot -> ElemType] /\ array_' \in [Slot -> ElemType]
  BY <1>1 DEF TypeOK, ElemType
<1>7. DequeOf = DequeIn(First, Last, array_)
  <2>1. PICK f, b, a : f = First /\ b = Last /\ a = array_
    OBVIOUS
  <2>2. DequeOf = CHOOSE d \in DequesIn(f, b, a) : TRUE
    BY <2>1, DequeOfIs
  <2> QED BY <1>5, <2>1, <2>2, OneDeque
<1>8. DequeOf' = DequeIn(First', Last', array_')
  <2>1. PICK f, b, a : f = First' /\ b = Last' /\ a = array_'
    OBVIOUS
  <2>2. DequeOf' = CHOOSE d \in DequesIn(f, b, a) : TRUE
    BY <2>1, DequeOfIs
  <2> QED BY <1>5, <2>1, <2>2, OneDeque
<1> QED BY <1>5, <1>6, <1>7, <1>8

\* What the ends of a sequence are after something was added there.
LEMMA AppendEnds ==
  ASSUME NEW S, NEW d \in Seq(S), NEW x \in S
  PROVE  /\ Append(d, x) # <<>>
         /\ Append(d, x)[Len(Append(d, x))] = x
         /\ SubSeq(Append(d, x), 1, Len(Append(d, x)) - 1) = d
<1>1. PICK v : v = Append(d, x) /\ v \in Seq(S)
  <2>1. Append(d, x) \in Seq(S)
    OBVIOUS
  <2> QED BY <2>1
<1>2. /\ Len(d) \in Nat /\ Len(v) = Len(d) + 1 /\ v[Len(d) + 1] = x
      /\ \A i \in 1..Len(d) : v[i] = d[i]
  BY <1>1
<1>3. v # <<>>
  BY <1>2
<1>4. PICK u : u = SubSeq(v, 1, Len(v) - 1)
  OBVIOUS
<1>5. Len(v) - 1 = Len(d) /\ 1..Len(d) \subseteq 1..Len(v)
  BY <1>2
<1>6. u \in Seq(S) /\ Len(u) = Len(d) /\ \A i \in 1..Len(d) : u[i] = v[i]
  BY <1>1, <1>2, <1>4, <1>5, SubSeqProperties
<1>7. u = d
  BY <1>2, <1>6, SeqEqual
<1> QED BY <1>1, <1>2, <1>3, <1>4, <1>7

\* The same at the other end.
LEMMA FrontEnds ==
  ASSUME NEW S, NEW d \in Seq(S), NEW x \in S
  PROVE  /\ <<x>> \o d # <<>>
         /\ Head(<<x>> \o d) = x /\ Tail(<<x>> \o d) = d
         /\ (<<x>> \o d)[1] = x /\ Without(<<x>> \o d, 1) = d
         /\ 1 \in 1..Len(<<x>> \o d)
<1>1. <<x>> \in Seq(S) /\ Len(<<x>>) = 1 /\ <<x>>[1] = x
  OBVIOUS
<1>2. PICK v : v = <<x>> \o d
  OBVIOUS
<1>3. /\ v \in Seq(S) /\ Len(v) = 1 + Len(d)
      /\ \A i \in 1..(1 + Len(d)) : v[i] = IF i <= 1 THEN <<x>>[i] ELSE d[i - 1]
  BY <1>1, <1>2, ConcatProperties
<1>4. Len(d) \in Nat /\ 1 \in 1..Len(v) /\ v # <<>> /\ v[1] = x
  BY <1>1, <1>3
<1>5. ASSUME NEW i \in 1..Len(d) PROVE v[i + 1] = d[i]
  <2>1. i + 1 \in 1..(1 + Len(d)) /\ ~(i + 1 <= 1) /\ (i + 1) - 1 = i
    BY <1>4
  <2> QED BY <1>3, <2>1
<1>6. Head(v) = x /\ Tail(v) = d
  <2>1. Tail(v) \in Seq(S) /\ Len(Tail(v)) = Len(v) - 1
        /\ \A i \in 1..(Len(v) - 1) : Tail(v)[i] = v[i + 1]
    BY <1>3, <1>4, HeadTailProperties
  <2>2. Len(v) - 1 = Len(d)
    BY <1>3, <1>4
  <2>3. Tail(v) = d
    BY <1>5, <2>1, <2>2, SeqEqual
  <2> QED BY <1>3, <1>4, <2>3, HeadTailProperties
<1>7. Without(v, 1) = d
  <2>1. PICK u : u = Without(v, 1)
    OBVIOUS
  <2>2. /\ u \in Seq(S) /\ Len(u) = Len(v) - 1
        /\ \A i \in 1..(Len(v) - 1) : u[i] = IF i < 1 THEN v[i] ELSE v[i + 1]
    BY <1>3, <1>4, <2>1, WithoutProperties
  <2>3. Len(v) - 1 = Len(d)
    BY <1>3, <1>4
  <2>4. \A i \in 1..Len(d) : u[i] = d[i]
    BY <1>4, <1>5, <2>2, <2>3
  <2> QED BY <2>1, <2>2, <2>3, <2>4, SeqEqual
<1> QED BY <1>2, <1>4, <1>6, <1>7

\* The deque's step, or none.
Refined ==
  /\ TaskInv'
  /\ \/ Deque!Next
     \/ DequeOf' = DequeOf /\ GotOf' = GotOf

\* Elements keep their tasks, and the indices stay.
LEMMA Unmoved ==
  ASSUME IInv, IInv', First' = First, Last' = Last,
         \A s \in Slot : InWindow(s) => array_'[s].w = array_[s].w /\ array_'[s].tag = array_[s].tag
  PROVE  DequeOf' = DequeOf
<1>1. PICK f, b : f = First /\ b = Last
  OBVIOUS
<1>2. PICK a \in [Slot -> ElemType], a2 \in [Slot -> ElemType] : a = array_ /\ a2 = array_'
  BY Deques
<1>3. Window(f, b) /\ DequeOf = DequeIn(f, b, a) /\ DequeOf' = DequeIn(f, b, a2)
  BY <1>1, <1>2, Deques
<1>4. \A s \in Slot : Inside(f, b, s) => a2[s].w = a[s].w /\ a2[s].tag = a[s].tag
  BY <1>1, <1>2 DEF InWindow
<1> QED BY <1>3, <1>4, DequeSame

\* PushFront claims an element without a task.
LEMMA PushFrontRefined ==
  ASSUME IInv, TaskInv, IInv', OwnerStep, NEW w \in Fresh, PushFront(w)
  PROVE  Refined
<1>0. TypeOK /\ Owner \in Thread
  BY Threads DEF IInv
<1>1. PICK e \in Slot : e = kMask(front_)
  BY <1>0, MaskSlots
<1>2. /\ pc[Owner] = "idle" /\ array_[e].state = "kEmpty"
      /\ pc'[Owner] = "PushFront_index" /\ elem'[Owner] = e
      /\ array_' = [array_ EXCEPT ![e].state = "kBusy"] /\ front_' = front_
  BY <1>0, <1>1 DEF PushFront, At, Claim, Goto, TypeOK
<1>3. First' = First /\ Last' = Last
  BY <1>0, <1>2, OwnerFrame DEF First
<1>4. /\ array_'[e].state = "kBusy" /\ array_'[e].w = array_[e].w
      /\ array_'[e].tag = array_[e].tag
      /\ \A s \in Slot \ {e} : array_'[s] = array_[s]
  BY <1>0, <1>2 DEF TypeOK
<1>5. Touches(Owner, e) /\ Settles(Owner, e) /\ Got(Owner)' = Got(Owner)
  BY <1>2, <1>4 DEF Touches, Settles, TaskInv, Taking, Got
<1>6. DequeOf' = DequeOf
  BY <1>3, <1>4, Unmoved
<1> QED BY <1>0, <1>5, <1>6, TasksKept DEF Refined

\* The element without a task that PushFrontIndex takes in does not count.
LEMMA PushFrontIndexRefined ==
  ASSUME IInv, TaskInv, IInv', OwnerStep, PushFrontIndex
  PROVE  Refined
<1>0. TypeOK /\ Owner \in Thread
  BY Threads DEF IInv
<1>1. PICK e \in Slot : e = elem[Owner]
  BY <1>0 DEF TypeOK
<1>2. /\ pc[Owner] = "PushFront_index" /\ pc'[Owner] = "PushFront_ready"
      /\ elem' = elem /\ array_' = array_ /\ front_' = Up(front_)
  BY <1>0 DEF PushFrontIndex, At, StoreFront, Goto, TypeOK, local_vars
<1>3. First = front_ /\ First' = Up(First) /\ Last' = Last
  BY <1>0, <1>2, OwnerFrame DEF First, Up
<1>4. array_[e].w = NoWork /\ array_'[e] = array_[e]
  BY <1>0, <1>1, <1>2 DEF TaskInv, Pushing
<1>5. Touches(Owner, e) /\ Settles(Owner, e) /\ Got(Owner)' = Got(Owner)
  BY <1>1, <1>2, <1>4 DEF Touches, Settles, Taking, Got
<1>6. DequeOf' = DequeOf
  <2>1. PICK f, b, g : f = First /\ b = Last /\ g = Up(f)
    OBVIOUS
  <2>2. PICK a \in [Slot -> ElemType] : a = array_
    BY Deques
  <2>3. /\ Window(f, b) /\ Window(g, b)
        /\ DequeOf = DequeIn(f, b, a) /\ DequeOf' = DequeIn(g, b, a)
    BY <1>2, <1>3, <2>1, <2>2, Deques
  <2>4. Down(g) = f /\ e = kMask(f) /\ Apart(g, b) # 0
    <3>1. Down(g) = f
      BY <2>1, <2>3, IndexStep DEF Window
    <3>2. e = kMask(f)
      BY <1>1, <1>2, <2>1 DEF IInv, OwnerInv, OwnerOut
    <3>3. InWindow(elem[Owner])'
      BY <1>2 DEF IInv, OwnerInv
    <3>4. Inside(g, b, e)
      BY <1>1, <1>2, <1>3, <2>1, <3>3 DEF InWindow, Inside, Apart, kMask
    <3>5. Inside(g, b, kMask(Down(g)))
      BY <3>1, <3>2, <3>4
    <3> QED BY <2>3, <3>1, <3>2, <3>5, Ends DEF Window
  <2>5. DequeIn(g, b, a) = DequeIn(f, b, a)
    BY <1>4, <2>2, <2>3, <2>4, DequeFront
  <2> QED BY <2>3, <2>5
<1> QED BY <1>0, <1>5, <1>6, TasksKept DEF Refined

\* PushFrontReady puts the task at the front.
LEMMA PushFrontReadyRefined ==
  ASSUME IInv, TaskInv, IInv', OwnerStep, PushFrontReady
  PROVE  Refined
<1>0. TypeOK /\ Owner \in Thread
  BY Threads DEF IInv
<1>1. PICK e \in Slot, x \in Work : e = elem[Owner] /\ x = item[Owner]
  BY <1>0 DEF TypeOK, IInv, WorkInv, Pushing, PushFrontReady, At
<1>2. /\ pc[Owner] = "PushFront_ready" /\ pc'[Owner] = "idle" /\ front_' = front_
      /\ array_' = [array_ EXCEPT ![e] = Elem("kReady", NoThread, x)]
  BY <1>0, <1>1 DEF PushFrontReady, At, Return, Goto, TypeOK
<1>3. First' = First /\ Last' = Last
  BY <1>0, <1>2, OwnerFrame DEF First
<1>4. /\ array_'[e] = Elem("kReady", NoThread, x) /\ array_[e].w = NoWork
      /\ \A s \in Slot \ {e} : array_'[s] = array_[s]
  BY <1>0, <1>1, <1>2 DEF TypeOK, TaskInv, Pushing
<1>5. Touches(Owner, e) /\ Settles(Owner, e) /\ Got(Owner)' = Got(Owner)
  BY <1>1, <1>2, <1>4 DEF Touches, Settles, Taking, Got, Elem, Pushing, Claiming, OwnerClaims
<1>6. TaskInv' /\ GotOf' = GotOf
  BY <1>0, <1>5, TasksKept
<1>7. DequeOf' = Append(DequeOf, [w |-> x, tag |-> NoThread])
  <2>1. PICK f, b, g : f = First /\ b = Last /\ g = Down(f)
    OBVIOUS
  <2>2. PICK a \in [Slot -> ElemType], a2 \in [Slot -> ElemType] : a = array_ /\ a2 = array_'
    BY Deques
  <2>3. /\ Window(f, b)
        /\ DequeOf = DequeIn(f, b, a) /\ DequeOf' = DequeIn(f, b, a2)
    BY <1>3, <2>1, <2>2, Deques
  <2>4. e = kMask(g) /\ Inside(f, b, e) /\ Apart(f, b) # 0
    <3>1. e = kMask(g) /\ Inside(f, b, e)
      BY <1>1, <1>2, <2>1 DEF IInv, OwnerInv, InWindow
    <3> QED BY <2>1, <2>3, <3>1, Ends DEF Window
  <2>5. Window(g, b) /\ \A s \in Slot : Inside(g, b, s) => s # e
    BY <2>1, <2>3, <2>4, FrontCell, FrontMoves DEF Window
  <2>6. DequeIn(g, b, a2) = DequeIn(g, b, a)
    BY <1>4, <2>2, <2>5, DequeSame
  <2>7. DequeIn(f, b, a) = DequeIn(g, b, a)
    BY <1>4, <2>1, <2>2, <2>3, <2>4, DequeFront
  <2>8. a2[e].w # NoWork /\ Item(a2[e]) = [w |-> x, tag |-> NoThread]
    BY <1>4, <2>2, WorkAssumption DEF Elem, Item
  <2>9. DequeIn(f, b, a2) = Append(DequeIn(g, b, a2), Item(a2[e]))
    BY <2>1, <2>3, <2>4, <2>8, DequeFront
  <2> QED BY <2>3, <2>6, <2>7, <2>8, <2>9
<1>8. Deque!PushFront
  BY <1>6, <1>7 DEF Deque!PushFront
<1> QED BY <1>6, <1>8 DEF Refined, Deque!Next

\* PopFront takes the first element out of the window, with its task or, when
\* it is revoked, without one.
LEMMA PopFrontRefined ==
  ASSUME IInv, TaskInv, IInv', OwnerStep, PopFront, pc'[Owner] # "idle"
  PROVE  Refined
<1>0. TypeOK /\ Owner \in Thread
  BY Threads DEF IInv
<1>1. PICK e \in Slot : e = kMask(Down(front_))
  BY <1>0, MaskSlots
<1>2. /\ pc[Owner] \in {"idle", "PopFront"} /\ elem'[Owner] = e /\ front_' = front_
      /\ array_' = [array_ EXCEPT ![e].state = "kBusy"]
      /\ \/ array_[e].state = "kRevoked" /\ pc'[Owner] = "PopFront_drain"
         \/ array_[e].state = "kReady" /\ pc'[Owner] = "PopFront_take"
  BY <1>0, <1>1 DEF PopFront, At, Claim, Goto, TypeOK
<1>3. First = front_ /\ First' = Down(First) /\ Last' = Last
  BY <1>0, <1>2, OwnerFrame DEF First, Down
<1>4. /\ array_'[e].state = "kBusy" /\ array_'[e].w = array_[e].w
      /\ array_'[e].tag = array_[e].tag
      /\ \A s \in Slot \ {e} : array_'[s] = array_[s]
  BY <1>0, <1>2 DEF TypeOK
<1>5. /\ array_[e].state = "kRevoked" => array_[e].w = NoWork
      /\ array_[e].state = "kReady" => array_[e].w \in Work
  BY DEF IInv, WorkInv, TaskInv
<1>6. Touches(Owner, e) /\ Settles(Owner, e)
  BY <1>2, <1>4, <1>5 DEF Touches, Settles, Taking, Pushing
<1>7. /\ Got(Owner) = NoWork
      /\ Got(Owner)' = array_[e].w
  BY <1>2, <1>4, <1>5 DEF Got, Taking
<1>8. PICK f, b, g : f = First /\ b = Last /\ g = Down(f)
  OBVIOUS
<1>9. PICK a \in [Slot -> ElemType], a2 \in [Slot -> ElemType] : a = array_ /\ a2 = array_'
  BY Deques
<1>10. /\ Window(f, b) /\ Window(g, b)
       /\ DequeOf = DequeIn(f, b, a) /\ DequeOf' = DequeIn(g, b, a2)
  BY <1>3, <1>8, <1>9, Deques
<1>11. e = kMask(g) /\ Apart(f, b) # 0
  <2>1. e = kMask(g)
    BY <1>1, <1>3, <1>8
  <2>2. Inside(f, b, e)
    BY <1>2, <1>8 DEF IInv, WindowInv, InWindow
  <2> QED BY <1>8, <1>10, <2>1, <2>2, Ends DEF Window
<1>12. DequeIn(g, b, a2) = DequeIn(g, b, a)
  <2>1. \A s \in Slot : a2[s].w = a[s].w /\ a2[s].tag = a[s].tag
    BY <1>4, <1>9
  <2> QED BY <1>10, <2>1, DequeSame
<1>13. CASE array_[e].state = "kRevoked"
  <2>1. DequeIn(f, b, a) = DequeIn(g, b, a)
    BY <1>5, <1>8, <1>9, <1>10, <1>11, <1>13, DequeFront
  <2>2. Got(Owner)' = Got(Owner)
    BY <1>5, <1>7, <1>13
  <2> QED BY <1>0, <1>6, <1>10, <1>12, <2>1, <2>2, TasksKept DEF Refined
<1>14. CASE array_[e].state = "kReady"
  <2>1. PICK d \in Seq(ItemType), x \in ItemType : d = DequeIn(g, b, a) /\ x = Item(a[e])
    <3>1. DequeIn(g, b, a) \in Seq(ItemType)
      BY <1>10, DequeType
    <3>2. Item(a[e]) \in ItemType
      BY <1>5, <1>9, <1>14 DEF Item, ItemType, ElemType
    <3> QED BY <3>1, <3>2
  <2>2. DequeOf = Append(d, x) /\ DequeOf' = d
    <3>1. a[e].w # NoWork
      BY <1>5, <1>9, <1>14, WorkAssumption
    <3> QED BY <1>8, <1>10, <1>11, <1>12, <2>1, <3>1, DequeFront
  <2>3. /\ DequeOf # <<>> /\ DequeOf[Len(DequeOf)] = x
        /\ DequeOf' = SubSeq(DequeOf, 1, Len(DequeOf) - 1)
    BY <2>2, AppendEnds
  <2>4. TaskInv' /\ GotOf' = [GotOf EXCEPT ![Owner] = x.w]
    <3>1. Got(Owner)' = x.w
      BY <1>7, <1>9, <2>1 DEF Item
    <3> QED BY <1>0, <1>6, <3>1, TasksKept
  <2>5. GotOf[Owner] = NoWork
    BY <1>0, <1>7 DEF GotOf, Got, Taking
  <2>6. Deque!PopFront
    BY <2>3, <2>4, <2>5 DEF Deque!PopFront
  <2> QED BY <2>4, <2>6 DEF Refined, Deque!Next
<1> QED BY <1>2, <1>13, <1>14

\* A thread that has moved the task out of its element has returned it.
LEMMA TakenRefined ==
  ASSUME IInv, TaskInv, IInv', NEW t \in Thread, NEW e \in Slot, Touches(t, e),
         DequeOf' = DequeOf, e = elem[t], pc'[t] \notin Taking \cup Pushing,
         array_'[e].w = NoWork
  PROVE  Refined
<1>1. Settles(t, e) /\ Got(t)' = NoWork
  BY DEF Settles, Got
<1>2. TaskInv' /\ GotOf' = [GotOf EXCEPT ![t] = NoWork]
      /\ (Got(t)' = Got(t) => GotOf' = GotOf)
  BY <1>1, TasksKept
<1>3. CASE pc[t] \in Taking
  <2>1. GotOf[t] # NoWork
    BY <1>3, WorkAssumption DEF GotOf, TaskInv, Taking
  <2>2. Deque!Return(t)
    BY <1>2, <2>1 DEF Deque!Return
  <2> QED BY <1>2, <2>2 DEF Refined, Deque!Next, Deque!Thread, Thread
<1>4. CASE pc[t] \notin Taking
  <2>1. Got(t)' = Got(t)
    BY <1>1, <1>4 DEF Got
  <2> QED BY <1>2, <2>1 DEF Refined
<1> QED BY <1>3, <1>4

\* PopFrontEmpty empties an element that has left the window.
LEMMA PopFrontEmptyRefined ==
  ASSUME IInv, TaskInv, IInv', OwnerStep, PopFrontEmpty
  PROVE  Refined
<1>0. TypeOK /\ Owner \in Thread
  BY Threads DEF IInv
<1>1. PICK e \in Slot : e = elem[Owner]
  BY <1>0 DEF TypeOK
<1>2. /\ pc[Owner] \in {"PopFront_drain", "PopFront_take"} /\ front_' = front_
      /\ pc'[Owner] \in {"PopFront_drained", "PopFront_taken"}
      /\ array_' = [array_ EXCEPT ![e] = Elem("kEmpty", NoThread, NoWork)]
  BY <1>0, <1>1 DEF PopFrontEmpty, At, Goto, TypeOK
<1>3. First' = First /\ Last' = Last
  BY <1>0, <1>2, OwnerFrame DEF First, Down
<1>4. /\ array_'[e] = Elem("kEmpty", NoThread, NoWork) /\ ~InWindow(e)
      /\ \A s \in Slot \ {e} : array_'[s] = array_[s]
  BY <1>0, <1>1, <1>2 DEF TypeOK, IInv, OwnerInv, OwnerOut
<1>5. Touches(Owner, e) /\ pc'[Owner] \notin Taking \cup Pushing
  BY <1>1, <1>2, <1>4 DEF Touches, Taking, Pushing, Claiming, OwnerClaims, OwnerOut
<1>6. DequeOf' = DequeOf
  BY <1>3, <1>4, Unmoved
<1> QED BY <1>0, <1>1, <1>4, <1>5, <1>6, TakenRefined DEF Elem

\* A step that leaves the array and the window alone is no step of the deque.
LEMMA StillRefined ==
  ASSUME IInv, TaskInv, IInv', NEW t \in Thread,
         \/ t = Owner /\ OwnerStep
         \/ t \in Others /\ OtherStep(t),
         array_' = array_, First' = First, Last' = Last,
         pc[t] \notin Taking, pc'[t] \notin Taking \cup Pushing
  PROVE  Refined
<1>1. PICK e \in Slot : e = 0
  BY SizeAssumption DEF Slot
<1>2. Touches(t, e) /\ Settles(t, e) /\ Got(t)' = Got(t)
  BY DEF Touches, Settles, TaskInv, Got
<1>3. DequeOf' = DequeOf
  BY Unmoved
<1> QED BY <1>2, <1>3, TasksKept DEF Refined

\* The owner's steps.
LEMMA OwnerRefined ==
  ASSUME IInv, TaskInv, IInv', OwnerStep
  PROVE  Refined
<1>0. TypeOK /\ Owner \in Thread
  BY Threads DEF IInv
<1>1. CASE PopFront /\ pc'[Owner] = "idle"
  <2>1. pc[Owner] = "PopFront" /\ array_' = array_ /\ front_' = front_
    BY <1>0, <1>1 DEF PopFront, At, Goto, TypeOK
  <2>2. First' = First /\ Last' = Last
    BY <1>0, <1>1, <2>1, OwnerFrame DEF First
  <2>3. pc[Owner] \notin Taking /\ pc'[Owner] \notin Taking \cup Pushing
    BY <1>1, <2>1 DEF Taking, Pushing
  <2> QED BY <1>0, <2>1, <2>2, <2>3, StillRefined
<1>2. CASE PopFrontIndex
  <2>1. /\ pc[Owner] \in {"PopFront_drained", "PopFront_taken"} /\ array_' = array_
        /\ pc'[Owner] \in {"PopFront", "idle"} /\ front_' = Down(front_)
    BY <1>0, <1>2 DEF PopFrontIndex, At, Goto, Return, StoreFront, TypeOK
  <2>2. First' = First /\ Last' = Last
    BY <1>0, <1>2, <2>1, OwnerFrame DEF First
  <2>3. pc[Owner] \notin Taking /\ pc'[Owner] \notin Taking \cup Pushing
    BY <2>1 DEF Taking, Pushing
  <2> QED BY <1>0, <2>1, <2>2, <2>3, StillRefined
<1> QED BY <1>1, <1>2, PushFrontRefined, PushFrontIndexRefined, PushFrontReadyRefined,
     PopFrontRefined, PopFrontEmptyRefined DEF OwnerStep

\* The window of a step under the mutex.
LEMMA LockedWindow ==
  ASSUME IInv, NEW t \in Others, OtherStep(t), pc[t] # "idle" \/ pc'[t] # "PopBack"
  PROVE  /\ First' = First
         /\ Last = IF pc[t] \in Popped THEN Up(back_) ELSE back_
         /\ Last' = IF pc'[t] \in Popped THEN Up(back_') ELSE back_'
<1>0. TypeOK /\ t \in Thread
  BY Threads DEF IInv
<1>1. ~PopBackBegin(t)
  BY <1>0 DEF PopBackBegin, At, Goto, TypeOK
<1> QED BY <1>0, <1>1, OtherFrame, OnlyHolder, MutexStep

\* PushBack claims an element without a task.
LEMMA PushBackRefined ==
  ASSUME IInv, TaskInv, IInv', NEW t \in Others, OtherStep(t), NEW w \in Fresh, PushBack(t, w)
  PROVE  Refined
<1>0. TypeOK /\ t \in Thread
  BY Threads DEF IInv
<1>1. PICK e \in Slot : e = kMask(Down(back_))
  BY <1>0, MaskSlots
<1>2. /\ pc[t] = "idle" /\ array_[e].state = "kEmpty"
      /\ pc'[t] \in {"PushBack_index", "PushBackWithTag_index"}
      /\ elem'[t] = e /\ back_' = back_
      /\ array_' = [array_ EXCEPT ![e].state = "kBusy"]
  BY <1>0, <1>1 DEF PushBack, At, Claim, Goto, TypeOK
<1>3. First' = First /\ Last' = Last
  BY <1>2, LockedWindow DEF Popped
<1>4. /\ array_'[e].state = "kBusy" /\ array_'[e].w = array_[e].w
      /\ array_'[e].tag = array_[e].tag
      /\ \A s \in Slot \ {e} : array_'[s] = array_[s]
  BY <1>0, <1>2 DEF TypeOK
<1>5. Touches(t, e) /\ Settles(t, e) /\ Got(t)' = Got(t)
  BY <1>2, <1>4 DEF Touches, Settles, TaskInv, Taking, Got
<1>6. DequeOf' = DequeOf
  BY <1>3, <1>4, Unmoved
<1> QED BY <1>0, <1>5, <1>6, TasksKept DEF Refined

\* The element without a task that PushBackIndex takes in does not count.
LEMMA PushBackIndexRefined ==
  ASSUME IInv, TaskInv, IInv', NEW t \in Others, OtherStep(t), PushBackIndex(t)
  PROVE  Refined
<1>0. TypeOK /\ t \in Thread
  BY Threads DEF IInv
<1>1. PICK e \in Slot : e = elem[t]
  BY <1>0 DEF TypeOK
<1>2. /\ pc[t] \in {"PushBack_index", "PushBackWithTag_index"}
      /\ pc'[t] \in {"PushBack_ready", "PushBackWithTag_ready"}
      /\ elem' = elem /\ array_' = array_ /\ back_' = Down(back_)
  BY <1>0 DEF PushBackIndex, At, Goto, TypeOK, local_vars
<1>3. First' = First /\ Last = back_ /\ Last' = Down(Last)
  BY <1>2, LockedWindow DEF Popped
<1>4. array_[e].w = NoWork /\ array_'[e] = array_[e]
  BY <1>0, <1>1, <1>2 DEF TaskInv, Pushing
<1>5. Touches(t, e) /\ Settles(t, e) /\ Got(t)' = Got(t)
  BY <1>1, <1>2, <1>4 DEF Touches, Settles, Taking, Got
<1>6. DequeOf' = DequeOf
  <2>1. PICK f, b, c : f = First /\ b = Last /\ c = Down(b)
    OBVIOUS
  <2>2. PICK a \in [Slot -> ElemType] : a = array_
    BY Deques
  <2>3. /\ Window(f, b) /\ Window(f, c)
        /\ DequeOf = DequeIn(f, b, a) /\ DequeOf' = DequeIn(f, c, a)
    BY <1>2, <1>3, <2>1, <2>2, Deques
  <2>4. Up(c) = b /\ e = kMask(c) /\ Apart(f, c) # 0
    <3>1. Up(c) = b
      BY <2>1, <2>3, IndexStep DEF Window
    <3>2. e = kMask(c)
      BY <1>1, <1>2, <2>1 DEF IInv, OtherInv, OtherOut
    <3>3. InWindow(elem[t])'
      BY <1>2 DEF IInv, OtherInv, OtherIn
    <3>4. Inside(f, c, e)
      BY <1>1, <1>2, <1>3, <2>1, <3>3 DEF InWindow, Inside, Apart, kMask
    <3> QED BY <2>3, <3>1, <3>2, <3>4, Ends DEF Window
  <2>5. DequeIn(f, c, a) = DequeIn(f, b, a)
    BY <1>4, <2>2, <2>3, <2>4, DequeBack
  <2> QED BY <2>3, <2>5
<1> QED BY <1>0, <1>5, <1>6, TasksKept DEF Refined

\* PushBackReady puts the task at the back, with its tag.
LEMMA PushBackReadyRefined ==
  ASSUME IInv, TaskInv, IInv', NEW t \in Others, OtherStep(t), PushBackReady(t)
  PROVE  Refined
<1>0. TypeOK /\ t \in Thread
  BY Threads DEF IInv
<1>1. PICK e \in Slot, x \in Work : e = elem[t] /\ x = item[t]
  BY <1>0 DEF TypeOK, IInv, WorkInv, Pushing, PushBackReady, At
<1>2. /\ pc[t] \in {"PushBack_ready", "PushBackWithTag_ready"}
      /\ pc'[t] = "idle" /\ back_' = back_
      /\ \E tag \in Others \cup {NoThread} :
           array_' = [array_ EXCEPT ![e] = Elem("kReady", tag, x)]
  BY <1>0, <1>1 DEF PushBackReady, At, Return, Goto, TypeOK
<1>3. First' = First /\ Last' = Last
  BY <1>2, LockedWindow DEF Popped
<1>4. PICK tag \in Others \cup {NoThread} :
         array_' = [array_ EXCEPT ![e] = Elem("kReady", tag, x)]
  BY <1>2
<1>5. /\ array_'[e] = Elem("kReady", tag, x) /\ array_[e].w = NoWork
      /\ \A s \in Slot \ {e} : array_'[s] = array_[s]
  BY <1>0, <1>1, <1>2, <1>4 DEF TypeOK, TaskInv, Pushing
<1>6. Touches(t, e) /\ Settles(t, e) /\ Got(t)' = Got(t)
  BY <1>1, <1>2, <1>5 DEF Touches, Settles, Taking, Got, Elem, Pushing, Claiming, OtherClaims,
     OtherIn
<1>7. TaskInv' /\ GotOf' = GotOf
  BY <1>0, <1>6, TasksKept
<1>8. PICK y \in ItemType : y = [w |-> x, tag |-> tag]
  BY DEF ItemType
<1>9. DequeOf' = <<y>> \o DequeOf
  <2>1. PICK f, b, c : f = First /\ b = Last /\ c = Up(b)
    OBVIOUS
  <2>2. PICK a \in [Slot -> ElemType], a2 \in [Slot -> ElemType] : a = array_ /\ a2 = array_'
    BY Deques
  <2>3. /\ Window(f, b)
        /\ DequeOf = DequeIn(f, b, a) /\ DequeOf' = DequeIn(f, b, a2)
    BY <1>3, <2>1, <2>2, Deques
  <2>4. e = kMask(b) /\ Apart(f, b) # 0
    <3>1. e = kMask(b) /\ Inside(f, b, e)
      BY <1>1, <1>2, <2>1 DEF IInv, OtherInv, OtherIn, InWindow
    <3> QED BY <2>3, <3>1, Ends DEF Window
  <2>5. Window(f, c) /\ \A s \in Slot : Inside(f, c, s) => s # e
    BY <2>1, <2>3, <2>4, BackCell, BackMoves DEF Window
  <2>6. DequeIn(f, c, a2) = DequeIn(f, c, a)
    BY <1>5, <2>2, <2>5, DequeSame
  <2>7. DequeIn(f, b, a) = DequeIn(f, c, a)
    BY <1>5, <2>1, <2>2, <2>3, <2>4, DequeBack
  <2>8. a2[e].w # NoWork /\ Item(a2[e]) = y
    BY <1>5, <1>8, <2>2, WorkAssumption DEF Elem, Item
  <2>9. DequeIn(f, b, a2) = <<Item(a2[e])>> \o DequeIn(f, c, a2)
    BY <2>1, <2>3, <2>4, <2>8, DequeBack
  <2> QED BY <2>3, <2>6, <2>7, <2>8, <2>9
<1>10. Deque!PushBack
  BY <1>7, <1>8, <1>9 DEF Deque!PushBack, Deque!Entry
<1> QED BY <1>7, <1>10 DEF Refined, Deque!Next

\* PopBack takes the last element out of the window, with its task or, when it
\* is revoked, without one.
LEMMA PopBackRefined ==
  ASSUME IInv, TaskInv, IInv', NEW t \in Others, OtherStep(t), PopBack(t), pc'[t] # "idle"
  PROVE  Refined
<1>0. TypeOK /\ t \in Thread
  BY Threads DEF IInv
<1>1. PICK e \in Slot : e = kMask(back_)
  BY <1>0, MaskSlots
<1>2. /\ pc[t] \in {"PopBack", "PopBack_locked"} /\ elem'[t] = e /\ back_' = back_
      /\ array_' = [array_ EXCEPT ![e].state = "kBusy"]
      /\ \/ array_[e].state = "kRevoked" /\ pc'[t] = "PopBack_drain"
         \/ array_[e].state = "kReady" /\ pc'[t] = "PopBack_take"
  BY <1>0, <1>1 DEF PopBack, At, Claim, Goto, TypeOK
<1>3. First' = First /\ Last = back_ /\ Last' = Up(Last)
  BY <1>2, LockedWindow DEF Popped
<1>4. /\ array_'[e].state = "kBusy" /\ array_'[e].w = array_[e].w
      /\ array_'[e].tag = array_[e].tag
      /\ \A s \in Slot \ {e} : array_'[s] = array_[s]
  BY <1>0, <1>2 DEF TypeOK
<1>5. /\ array_[e].state = "kRevoked" => array_[e].w = NoWork
      /\ array_[e].state = "kReady" => array_[e].w \in Work
  BY DEF IInv, WorkInv, TaskInv
<1>6. Touches(t, e) /\ Settles(t, e)
  BY <1>2, <1>4, <1>5 DEF Touches, Settles, Taking, Pushing
<1>7. /\ Got(t) = NoWork
      /\ Got(t)' = array_[e].w
  BY <1>2, <1>4, <1>5 DEF Got, Taking
<1>8. PICK f, b, c : f = First /\ b = Last /\ c = Up(b)
  OBVIOUS
<1>9. PICK a \in [Slot -> ElemType], a2 \in [Slot -> ElemType] : a = array_ /\ a2 = array_'
  BY Deques
<1>10. /\ Window(f, b) /\ Window(f, c)
       /\ DequeOf = DequeIn(f, b, a) /\ DequeOf' = DequeIn(f, c, a2)
  BY <1>3, <1>8, <1>9, Deques
<1>11. e = kMask(b) /\ Apart(f, b) # 0
  <2>1. e = kMask(b)
    BY <1>1, <1>3, <1>8
  <2>2. Inside(f, b, e)
    BY <1>2, <1>8 DEF IInv, WindowInv, InWindow
  <2> QED BY <1>10, <2>1, <2>2, Ends DEF Window
<1>12. DequeIn(f, c, a2) = DequeIn(f, c, a)
  <2>1. \A s \in Slot : a2[s].w = a[s].w /\ a2[s].tag = a[s].tag
    BY <1>4, <1>9
  <2> QED BY <1>10, <2>1, DequeSame
<1>13. CASE array_[e].state = "kRevoked"
  <2>1. DequeIn(f, b, a) = DequeIn(f, c, a)
    BY <1>5, <1>8, <1>9, <1>10, <1>11, <1>13, DequeBack
  <2>2. Got(t)' = Got(t)
    BY <1>5, <1>7, <1>13
  <2> QED BY <1>0, <1>6, <1>10, <1>12, <2>1, <2>2, TasksKept DEF Refined
<1>14. CASE array_[e].state = "kReady"
  <2>1. PICK d \in Seq(ItemType), x \in ItemType : d = DequeIn(f, c, a) /\ x = Item(a[e])
    <3>1. DequeIn(f, c, a) \in Seq(ItemType)
      BY <1>10, DequeType
    <3>2. Item(a[e]) \in ItemType
      BY <1>5, <1>9, <1>14 DEF Item, ItemType, ElemType
    <3> QED BY <3>1, <3>2
  <2>2. DequeOf = <<x>> \o d /\ DequeOf' = d
    <3>1. a[e].w # NoWork
      BY <1>5, <1>9, <1>14, WorkAssumption
    <3> QED BY <1>8, <1>10, <1>11, <1>12, <2>1, <3>1, DequeBack
  <2>3. DequeOf # <<>> /\ Head(DequeOf) = x /\ DequeOf' = Tail(DequeOf)
    BY <2>2, FrontEnds
  <2>4. TaskInv' /\ GotOf' = [GotOf EXCEPT ![t] = x.w]
    <3>1. Got(t)' = x.w
      BY <1>7, <1>9, <2>1 DEF Item
    <3> QED BY <1>0, <1>6, <3>1, TasksKept
  <2>5. GotOf[t] = NoWork
    BY <1>0, <1>7 DEF GotOf, Got, Taking
  <2>6. Deque!PopBack(t)
    BY <2>3, <2>4, <2>5 DEF Deque!PopBack
  <2> QED BY <2>4, <2>6 DEF Refined, Deque!Next
<1> QED BY <1>2, <1>13, <1>14

\* PopBackEmpty empties an element that has left the window.
LEMMA PopBackEmptyRefined ==
  ASSUME IInv, TaskInv, IInv', NEW t \in Others, OtherStep(t), PopBackEmpty(t)
  PROVE  Refined
<1>0. TypeOK /\ t \in Thread
  BY Threads DEF IInv
<1>1. PICK e \in Slot : e = elem[t]
  BY <1>0 DEF TypeOK
<1>2. /\ pc[t] \in {"PopBack_drain", "PopBack_take"} /\ back_' = back_
      /\ pc'[t] \in {"PopBack_drained", "PopBack_taken"}
      /\ array_' = [array_ EXCEPT ![e] = Elem("kEmpty", NoThread, NoWork)]
  BY <1>0, <1>1 DEF PopBackEmpty, At, Goto, TypeOK
<1>3. First' = First /\ Last' = Last
  BY <1>2, LockedWindow DEF Popped
<1>4. /\ array_'[e] = Elem("kEmpty", NoThread, NoWork) /\ ~InWindow(e)
      /\ \A s \in Slot \ {e} : array_'[s] = array_[s]
  BY <1>0, <1>1, <1>2 DEF TypeOK, IInv, OtherInv, OtherOut
<1>5. Touches(t, e) /\ pc'[t] \notin Taking \cup Pushing
  BY <1>1, <1>2, <1>4 DEF Touches, Taking, Pushing, Claiming, OtherClaims, OtherOut
<1>6. DequeOf' = DequeOf
  BY <1>3, <1>4, Unmoved
<1> QED BY <1>0, <1>1, <1>4, <1>5, <1>6, TakenRefined DEF Elem

\* RevokeWithTag claims an element, which keeps its task.
LEMMA RevokeWithTagRefined ==
  ASSUME IInv, TaskInv, IInv', NEW t \in Others, OtherStep(t), NEW e \in Slot,
         RevokeWithTag(t, e), array_[e].state = "kReady"
  PROVE  Refined
<1>0. TypeOK /\ t \in Thread
  BY Threads DEF IInv
<1>1. /\ pc[t] = "idle" /\ pc'[t] = "Revoke_check" /\ elem'[t] = e /\ back_' = back_
      /\ array_' = [array_ EXCEPT ![e].state = "kBusy"]
  BY <1>0 DEF RevokeWithTag, At, Claim, Goto, TypeOK
<1>2. First' = First /\ Last' = Last
  BY <1>1, LockedWindow DEF Popped
<1>3. /\ array_'[e].state = "kBusy" /\ array_'[e].w = array_[e].w
      /\ array_'[e].tag = array_[e].tag
      /\ \A s \in Slot \ {e} : array_'[s] = array_[s]
  BY <1>0, <1>1 DEF TypeOK
<1>4. Touches(t, e) /\ Settles(t, e) /\ Got(t)' = Got(t)
  BY <1>1, <1>3 DEF Touches, Settles, Taking, Got, Pushing
<1>5. DequeOf' = DequeOf
  BY <1>2, <1>3, Unmoved
<1> QED BY <1>0, <1>4, <1>5, TasksKept DEF Refined

\* A task with the thread's tag that has gone, wherever it was, was revoked.
LEMMA Revoked ==
  ASSUME NEW t \in Others, TaskInv', GotOf' = GotOf, NEW k \in 1..Len(DequeOf),
         DequeOf[k].tag = t, DequeOf' = Without(DequeOf, k)
  PROVE  Refined
<1>1. Deque!RevokeWithTag(t)
  BY DEF Deque!RevokeWithTag, Without
<1> QED BY <1>1 DEF Refined, Deque!Next

\* RevokeCheck gives the element back, marks it, or takes the last one out of
\* the window.
LEMMA RevokeCheckRefined ==
  ASSUME IInv, TaskInv, IInv', NEW t \in Others, OtherStep(t), RevokeCheck(t)
  PROVE  Refined
<1>0. TypeOK /\ t \in Thread
  BY Threads DEF IInv
<1>1. PICK e \in Slot : e = elem[t]
  BY <1>0 DEF TypeOK
<1>2. /\ pc[t] = "Revoke_check" /\ back_' = back_
      /\ \/ /\ array_' = [array_ EXCEPT ![e].state = "kReady"]
            /\ pc'[t] = "idle"
         \/ /\ array_[e].tag = t /\ pc'[t] = "idle"
            /\ array_' = [array_ EXCEPT ![e] = Elem("kRevoked", NoThread, NoWork)]
         \/ /\ array_[e].tag = t /\ pc'[t] = "Revoke_index" /\ kMask(back_) = e
            /\ array_' = [array_ EXCEPT ![e] = Elem("kEmpty", NoThread, NoWork)]
  BY <1>0, <1>1 DEF RevokeCheck, At, Goto, Return, TypeOK
<1>3. /\ First' = First /\ Last = back_
      /\ Last' = IF pc'[t] = "Revoke_index" THEN Up(Last) ELSE Last
  BY <1>2, LockedWindow DEF Popped
<1>4. /\ Inside(First, Last, e) /\ array_[e].w \in Work
      /\ \A s \in Slot \ {e} : array_'[s] = array_[s]
  BY <1>0, <1>1, <1>2 DEF TypeOK, IInv, OtherInv, InWindow
<1>5. Touches(t, e)
  BY <1>1, <1>2, <1>4 DEF Touches, Claiming, OtherClaims
<1>6. pc[t] \notin Taking /\ pc'[t] \notin Taking \cup Pushing
  BY <1>2 DEF Taking, Pushing
<1>7. ASSUME array_'[e].state \in {"kEmpty", "kRevoked"} => array_'[e].w = NoWork
      PROVE  TaskInv' /\ GotOf' = GotOf
  <2>1. Settles(t, e) /\ Got(t)' = Got(t)
    BY <1>6, <1>7 DEF Settles, Got
  <2> QED BY <1>0, <1>5, <2>1, TasksKept
<1>8. PICK f, b, c : f = First /\ b = Last /\ c = Up(b)
  OBVIOUS
<1>9. PICK a \in [Slot -> ElemType], a2 \in [Slot -> ElemType] : a = array_ /\ a2 = array_'
  BY Deques
<1>10. Window(f, b) /\ DequeOf = DequeIn(f, b, a) /\ a[e].w # NoWork
  BY <1>4, <1>8, <1>9, Deques, WorkAssumption
<1>11. CASE array_' = [array_ EXCEPT ![e].state = "kReady"] /\ pc'[t] = "idle"
  <2>1. /\ array_'[e].state = "kReady" /\ array_'[e].w = array_[e].w
        /\ array_'[e].tag = array_[e].tag
    BY <1>0, <1>11 DEF TypeOK
  <2>2. First' = First /\ Last' = Last
    BY <1>3, <1>11
  <2>3. DequeOf' = DequeOf
    BY <1>4, <2>1, <2>2, Unmoved
  <2> QED BY <1>7, <2>1, <2>3 DEF Refined
<1>12. CASE /\ array_[e].tag = t /\ pc'[t] = "idle"
            /\ array_' = [array_ EXCEPT ![e] = Elem("kRevoked", NoThread, NoWork)]
  <2>1. array_'[e] = Elem("kRevoked", NoThread, NoWork)
    BY <1>0, <1>12 DEF TypeOK
  <2>2. TaskInv' /\ GotOf' = GotOf
    BY <1>7, <2>1 DEF Elem
  <2>3. DequeOf' = DequeIn(f, b, a2)
    BY <1>3, <1>8, <1>9, <1>12, Deques
  <2>4. a2[e].w = NoWork /\ \A s \in Slot \ {e} : a2[s] = a[s]
    BY <1>4, <1>9, <2>1 DEF Elem
  <2>5. Inside(f, b, e)
    BY <1>4, <1>8
  <2>6. PICK k \in 1..Len(DequeOf) :
          DequeOf[k] = Item(a[e]) /\ DequeOf' = Without(DequeOf, k)
    BY <1>10, <2>3, <2>4, <2>5, DequeDrop
  <2>7. DequeOf[k].tag = t
    BY <1>9, <1>12, <2>6 DEF Item
  <2> QED BY <2>2, <2>6, <2>7, Revoked
<1>13. CASE /\ array_[e].tag = t /\ pc'[t] = "Revoke_index" /\ kMask(back_) = e
            /\ array_' = [array_ EXCEPT ![e] = Elem("kEmpty", NoThread, NoWork)]
  <2>1. array_'[e] = Elem("kEmpty", NoThread, NoWork)
    BY <1>0, <1>13 DEF TypeOK
  <2>2. TaskInv' /\ GotOf' = GotOf
    BY <1>7, <2>1 DEF Elem
  <2>3. e = kMask(b) /\ Apart(f, b) # 0
    BY <1>3, <1>4, <1>8, <1>10, <1>13, Ends DEF Window
  <2>4. Window(f, c) /\ DequeOf' = DequeIn(f, c, a2)
    BY <1>3, <1>8, <1>9, <1>13, Deques
  <2>5. DequeIn(f, c, a2) = DequeIn(f, c, a)
    <3>1. \A s \in Slot : Inside(f, c, s) => s # e
      BY <1>8, <1>10, <2>3, BackMoves DEF Window
    <3>2. \A s \in Slot : Inside(f, c, s) => a2[s].w = a[s].w /\ a2[s].tag = a[s].tag
      BY <1>4, <1>9, <3>1
    <3> QED BY <2>4, <3>2, DequeSame
  <2>6. PICK d \in Seq(ItemType), x \in ItemType : d = DequeIn(f, c, a) /\ x = Item(a[e])
    <3>1. DequeIn(f, c, a) \in Seq(ItemType)
      BY <2>4, DequeType
    <3>2. Item(a[e]) \in ItemType
      BY <1>4, <1>9 DEF Item, ItemType, ElemType
    <3> QED BY <3>1, <3>2
  <2>7. DequeOf = <<x>> \o d /\ DequeOf' = d
    BY <1>8, <1>10, <2>3, <2>4, <2>5, <2>6, DequeBack
  <2>8. 1 \in 1..Len(DequeOf) /\ DequeOf[1] = x /\ DequeOf' = Without(DequeOf, 1)
    BY <2>7, FrontEnds
  <2>9. x.tag = t
    BY <1>9, <1>13, <2>6 DEF Item
  <2> QED BY <2>2, <2>8, <2>9, Revoked
<1> QED BY <1>2, <1>11, <1>12, <1>13

\* The other threads' steps.
LEMMA OtherRefined ==
  ASSUME IInv, TaskInv, IInv', NEW t \in Others, OtherStep(t)
  PROVE  Refined
<1>0. TypeOK /\ t \in Thread
  BY Threads DEF IInv
<1>1. CASE PopBackBegin(t)
  <2>1. pc[t] = "idle" /\ pc'[t] = "PopBack" /\ array_' = array_ /\ back_' = back_
    BY <1>0, <1>1 DEF PopBackBegin, At, Goto, TypeOK, queue_vars
  <2>2. \A u \in Others : pc'[u] \in Popped <=> pc[u] \in Popped
    BY <1>0, <2>1, OtherFrame, Threads DEF Popped
  <2>3. First' = First /\ Last' = Last
    BY <1>0, <2>1, <2>2, OtherFrame DEF Last, Popped, Up
  <2>4. pc[t] \notin Taking /\ pc'[t] \notin Taking \cup Pushing
    BY <2>1 DEF Taking, Pushing
  <2> QED BY <1>0, <2>1, <2>3, <2>4, StillRefined
<1>2. CASE PopBack(t) /\ pc'[t] = "idle"
  <2>1. pc[t] \in {"PopBack", "PopBack_locked"} /\ array_' = array_ /\ back_' = back_
    BY <1>0, <1>2 DEF PopBack, At, Goto, TypeOK
  <2>2. First' = First /\ Last' = Last
    BY <1>2, <2>1, LockedWindow DEF Popped
  <2>3. pc[t] \notin Taking /\ pc'[t] \notin Taking \cup Pushing
    BY <1>2, <2>1 DEF Taking, Pushing
  <2> QED BY <1>0, <2>1, <2>2, <2>3, StillRefined
<1>3. CASE PopBackIndex(t) \/ RevokeIndex(t)
  <2>1. /\ pc[t] \in {"PopBack_drained", "PopBack_taken", "Revoke_index"} /\ array_' = array_
        /\ pc'[t] \in {"PopBack_locked", "idle"} /\ back_' = Up(back_)
    BY <1>0, <1>3 DEF PopBackIndex, RevokeIndex, At, Goto, Return, TypeOK
  <2>2. First' = First /\ Last' = Last
    BY <2>1, LockedWindow DEF Popped
  <2>3. pc[t] \notin Taking /\ pc'[t] \notin Taking \cup Pushing
    BY <2>1 DEF Taking, Pushing
  <2> QED BY <1>0, <2>1, <2>2, <2>3, StillRefined
<1>4. ASSUME NEW s \in Slot, RevokeWithTag(t, s) PROVE Refined
  <2>1. CASE array_[s].state = "kReady"
    BY <1>4, <2>1, RevokeWithTagRefined
  <2>2. CASE array_[s].state # "kReady"
    <3>1. pc[t] = "idle" /\ pc' = pc /\ array_' = array_ /\ back_' = back_
      BY <1>4, <2>2 DEF RevokeWithTag, At
    <3>2. First' = First /\ Last' = Last
      BY <3>1, LockedWindow DEF Popped
    <3>3. pc[t] \notin Taking /\ pc'[t] \notin Taking \cup Pushing
      BY <3>1 DEF Taking, Pushing
    <3> QED BY <1>0, <3>1, <3>2, <3>3, StillRefined
  <2> QED BY <2>1, <2>2
<1> QED BY <1>1, <1>2, <1>3, <1>4, PushBackRefined, PushBackIndexRefined, PushBackReadyRefined,
     PopBackRefined, PopBackEmptyRefined, RevokeCheckRefined DEF OtherStep

\* Empty does not touch the queue.
LEMMA WatcherRefined ==
  ASSUME IInv, TaskInv, IInv', NEW t \in Watchers, Empty(t) \/ EmptyBack(t) \/ EmptyFront(t)
  PROVE  Refined
<1>0. TypeOK /\ t \in Thread /\ t # Owner /\ t \notin Others
  BY Threads DEF IInv
<1>1. /\ UNCHANGED <<front_, back_, array_, elem>>
      /\ pc[t] \in {"idle", "Empty_back", "Empty_front"}
      /\ pc'[t] \in {"idle", "Empty_back", "Empty_front"}
      /\ \A u \in Thread \ {t} : pc'[u] = pc[u]
  BY <1>0 DEF Empty, EmptyBack, EmptyFront, At, Goto, TypeOK, queue_vars, local_vars
<1>2. pc'[Owner] = pc[Owner] /\ \A u \in Others : pc'[u] = pc[u]
  BY <1>0, <1>1, Threads
<1>3. First' = First /\ Last' = Last
  BY <1>1, <1>2 DEF First, Last, Up, Down
<1>4. DequeOf' = DequeOf
  BY <1>1, <1>3, Unmoved
<1>5. \A u \in Thread : /\ pc'[u] \in Taking <=> pc[u] \in Taking
                        /\ pc'[u] \in Pushing => pc[u] \in Pushing
  BY <1>1 DEF Taking, Pushing
<1>6. GotOf' = GotOf
  BY <1>1, <1>5 DEF GotOf, Taking
<1>7. TaskInv'
  BY <1>1, <1>5 DEF TaskInv
<1> QED BY <1>4, <1>6, <1>7 DEF Refined

\* The queue is a deque whose operations are atomic: every step of a thread is
\* one operation of the deque or none of them.
THEOREM RunQueueImplementsDeque == Spec => ImplementsDeque
<1>1. Init => TaskInv /\ Deque!Init
  <2> SUFFICES ASSUME Init PROVE TaskInv /\ Deque!Init
    OBVIOUS
  <2>1. /\ \A t \in Thread : pc[t] = "idle"
        /\ \A s \in Slot : array_[s] = Elem("kEmpty", NoThread, NoWork)
    BY DEF Init
  <2>2. TaskInv
    BY <2>1 DEF TaskInv, Pushing, Taking, Elem
  <2>3. GotOf = [t \in Thread |-> NoWork]
    BY <2>1 DEF GotOf
  <2>4. DequeOf = <<>>
    <3>1. IInv
      BY InitInv
    <3>2. PICK f, b : f = First /\ b = Last /\ Window(f, b)
      BY <3>1, MaskSlots DEF Window, IInv, WindowInv
    <3>3. PICK a \in [Slot -> ElemType] : a = array_
      BY <3>1 DEF IInv, TypeOK, ElemType
    <3>4. TaskPlaces(f, b, a) = {}
      BY <2>1, <3>2, <3>3, Cells DEF TaskPlaces, Elem
    <3>5. PICK s : s = Ordered(TaskPlaces(f, b, a))
      OBVIOUS
    <3>6. Lists(s, TaskPlaces(f, b, a))
      BY <3>2, <3>5, PlacesListed
    <3>7. Len(DequeIn(f, b, a)) = Len(s)
      BY <3>2, <3>6, DequeByList
    <3>8. s \in Seq({})
      BY <3>4, <3>6 DEF Lists
    <3>9. Len(s) = 0
      BY <3>8
    <3>10. DequeIn(f, b, a) \in Seq(ItemType)
      BY <3>2, DequeType
    <3>11. DequeIn(f, b, a) = <<>>
      BY <3>7, <3>9, <3>10
    <3>12. DequeOf = CHOOSE d \in DequesIn(f, b, a) : TRUE
      BY <3>2, <3>3, DequeOfIs
    <3> QED BY <3>2, <3>11, <3>12, OneDeque
  <2> QED BY <2>2, <2>3, <2>4 DEF Deque!Init, Deque!Thread, Thread
<1>2. IInv /\ IInv' /\ TaskInv /\ [Next]_vars =>
        TaskInv' /\ [Deque!Next]_<<DequeOf, GotOf>>
  <2> SUFFICES ASSUME IInv, IInv', TaskInv, [Next]_vars
               PROVE  TaskInv' /\ [Deque!Next]_<<DequeOf, GotOf>>
    OBVIOUS
  <2>1. CASE Next
    <3>1. Refined
      BY <2>1, OwnerRefined, OtherRefined, WatcherRefined DEF Next
    <3> QED BY <3>1 DEF Refined
  <2>2. CASE UNCHANGED vars
    <3>1. UNCHANGED <<front_, back_, array_, pc, elem>>
      BY <2>2 DEF vars, queue_vars, local_vars
    <3>2. First' = First /\ Last' = Last
      BY <3>1 DEF First, Last, Up, Down
    <3>3. DequeOf' = DequeOf
      BY <3>1, <3>2, Unmoved
    <3>4. GotOf' = GotOf /\ TaskInv'
      BY <3>1 DEF GotOf, TaskInv
    <3> QED BY <3>3, <3>4
  <2> QED BY <2>1, <2>2
<1> QED BY <1>1, <1>2, Inductive, PTL DEF Spec, ImplementsDeque, Deque!Spec
=============================================================================
