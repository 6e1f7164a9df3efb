---------------------- MODULE MemPatternPlannerProofs -----------------------
(***************************************************************************)
(* The planner's plan is safe for every set of sizes, any number of        *)
(* tensors, and any schedules: tensors that are in use at the same time    *)
(* have no byte in common, the peak is exact, and the planner's own check  *)
(* never fails; the list of blocks stays sorted; and the buffer grows only *)
(* when it has no room.                                                    *)
(*                                                                         *)
(* The argument has three parts.  The walk through two schedules finds     *)
(* exactly those that share a point in time (SharedExact).  The scan       *)
(* through the sorted list yields a place apart from every block in the    *)
(* way (PlacedApart), and one inside the buffer whenever there is one      *)
(* (NoRoom): what it needs for both is that the list is sorted.  The       *)
(* insertion keeps the list sorted (PlaceKeeps).                           *)
(***************************************************************************)
EXTENDS MemPatternPlanner, WellFoundedInduction, SequenceTheorems, TLAPS

-----------------------------------------------------------------------------
(***************************************************************************)
(* Least and greatest numbers.  With them, induction is the choice of a    *)
(* least counterexample.                                                   *)
(***************************************************************************)
\* A set of natural numbers has a least element.
LEMMA Least ==
  ASSUME NEW T, T \subseteq Nat, T # {}
  PROVE  \E x \in T : \A y \in T : x <= y
<1> DEFINE R == OpToRel(<, Nat)
<1>1. IsWellFoundedOn(R, Nat)
  BY NatLessThanWellFounded
<1>2. \A x, y \in Nat : y < x => <<y, x>> \in R
  BY DEF OpToRel
<1> HIDE DEF R
<1>3. PICK x \in T : \A y \in T : ~(<<y, x>> \in R)
  BY <1>1, WFMin
<1>4. \A y \in T : ~(y < x)
  BY <1>2, <1>3
<1> QED BY <1>4

\* A bounded set of natural numbers has a greatest element.
LEMMA Greatest ==
  ASSUME NEW n \in Nat, NEW T, T \subseteq 0..n, T # {}
  PROVE  \E x \in T : \A y \in T : y <= x
<1> DEFINE U == {z \in 0..n : n - z \in T}
<1>1. U \subseteq Nat
  OBVIOUS
<1>2. U # {}
  <2>1. PICK x : x \in T
    OBVIOUS
  <2>2. n - (n - x) = x /\ n - x \in 0..n
    BY <2>1
  <2>3. n - x \in U
    BY <2>1, <2>2
  <2> QED BY <2>3
<1>3. PICK z \in U : \A y \in U : z <= y
  BY <1>1, <1>2, Least
<1>4. \A y \in T : n - y \in U
  <2> TAKE y \in T
  <2>1. y \in 0..n /\ n - y \in 0..n /\ n - (n - y) = y
    OBVIOUS
  <2> QED BY <2>1
<1>5. \A y \in T : y <= n - z
  BY <1>3, <1>4
<1> QED BY <1>3, <1>5

-----------------------------------------------------------------------------
(***************************************************************************)
(* The walk through two schedules.                                         *)
(***************************************************************************)
\* A list of intervals in time, each after the one before it.
Schedule(c) ==
  /\ Len(c) \in Nat
  /\ \A i \in 1..Len(c) :
       c[i].start \in Nat /\ c[i].end \in Nat /\ c[i].start <= c[i].end
  /\ \A i, j \in 1..Len(c) : i < j => c[j].start > c[i].end

\* What a tensor's counter holds is one.
LEMMA CounterSchedule ==
  ASSUME NEW c \in ProgramCounter
  PROVE  Schedule(c) /\ \A i \in 1..Len(c) : c[i].end \in Time
<1>1. PICK n \in 1..MAX_INTERVALS : c \in [1..n -> Interval]
  BY DEF ProgramCounter
<1>2. n \in Nat
  BY TimeAssumption
<1>3. Len(c) = n /\ DOMAIN c = 1..Len(c)
  BY <1>1, <1>2
<1>4. \A i \in 1..Len(c) : c[i] \in Interval
  BY <1>1, <1>3
<1>5. \A i \in 1..Len(c) : c[i].start \in Time /\ c[i].end \in Time /\ c[i].start <= c[i].end
  BY <1>4 DEF Interval
<1>6. \A i, j \in 1..Len(c) : i < j => c[j].start > c[i].end
  BY <1>3 DEF ProgramCounter
<1> QED BY <1>2, <1>3, <1>5, <1>6, TimeAssumption DEF Schedule, Time

Positions(c, d) == (1..(Len(c) + 1)) \X (1..(Len(d) + 1))

\* One round of the walk, at p, with the result f of what follows.
Round(c, d, f, p) ==
  IF p[1] > Len(c) \/ p[2] > Len(d) THEN FALSE
  ELSE IF c[p[1]].start <= d[p[2]].start
       THEN c[p[1]].end >= d[p[2]].start \/ f[<<p[1] + 1, p[2]>>]
       ELSE d[p[2]].end >= c[p[1]].start \/ f[<<p[1], p[2] + 1>>]

\* How many rounds are left at most.
Rank(c, d, p) == (Len(c) + 1 - p[1]) + (Len(d) + 1 - p[2])

\* Every round brings the walk closer to its end.
LEMMA RankFalls ==
  ASSUME NEW c, NEW d, Len(c) \in Nat, Len(d) \in Nat, NEW p \in Positions(c, d)
  PROVE  /\ Rank(c, d, p) \in Nat
         /\ p[1] \in Nat /\ p[2] \in Nat
         /\ p[1] <= Len(c) =>
              /\ <<p[1] + 1, p[2]>> \in Positions(c, d)
               /\ Rank(c, d, <<p[1] + 1, p[2]>>) = Rank(c, d, p) - 1
         /\ p[2] <= Len(d) =>
              /\ <<p[1], p[2] + 1>> \in Positions(c, d)
               /\ Rank(c, d, <<p[1], p[2] + 1>>) = Rank(c, d, p) - 1
         /\ Rank(c, d, p) <= Len(c) + Len(d)
         /\ Rank(c, d, p) = 0 => p[1] > Len(c)
<1>1. PICK i \in 1..(Len(c) + 1), j \in 1..(Len(d) + 1) : p = <<i, j>>
  BY DEF Positions
<1> QED BY <1>1 DEF Positions, Rank

\* A round looks only at what comes after it.
LEMMA RoundLooksAhead ==
  ASSUME NEW c, NEW d, Len(c) \in Nat, Len(d) \in Nat, NEW p \in Positions(c, d),
         NEW f, NEW g,
         \A q \in Positions(c, d) : Rank(c, d, q) < Rank(c, d, p) => f[q] = g[q]
  PROVE  Round(c, d, f, p) = Round(c, d, g, p)
<1>0. p[1] \in Nat /\ p[2] \in Nat
  BY RankFalls, Zenon
<1>1. CASE p[1] > Len(c) \/ p[2] > Len(d)
  BY <1>1 DEF Round
<1>2. CASE p[1] <= Len(c) /\ p[2] <= Len(d)
  <2>1. /\ f[<<p[1] + 1, p[2]>>] = g[<<p[1] + 1, p[2]>>]
        /\ f[<<p[1], p[2] + 1>>] = g[<<p[1], p[2] + 1>>]
    BY <1>2, RankFalls
  <2> QED BY <2>1 DEF Round
<1> QED BY <1>0, <1>1, <1>2

\* There is a function that is what every round says, up to rank k.
WalkedTo(c, d, k) ==
  \E f : \A p \in Positions(c, d) : Rank(c, d, p) <= k => f[p] = Round(c, d, f, p)

\* There is one for the last positions, where the walk is over.
LEMMA WalkedFrom ==
  ASSUME NEW c, NEW d, Len(c) \in Nat, Len(d) \in Nat
  PROVE  WalkedTo(c, d, 0)
<1> DEFINE f == [p \in Positions(c, d) |-> FALSE]
<1>1. ASSUME NEW p \in Positions(c, d), Rank(c, d, p) <= 0 PROVE f[p] = Round(c, d, f, p)
  <2>1. Rank(c, d, p) \in Nat /\ (Rank(c, d, p) = 0 => p[1] > Len(c))
    BY RankFalls, Zenon
  <2>2. p[1] > Len(c)
    BY <1>1, <2>1
  <2> QED BY <2>2 DEF Round
<1> HIDE DEF f
<1> QED BY <1>1 DEF WalkedTo

\* One for the positions of rank k gives one for those of rank k + 1.
LEMMA WalkedOn ==
  ASSUME NEW c, NEW d, Len(c) \in Nat, Len(d) \in Nat, NEW k \in Nat, WalkedTo(c, d, k)
  PROVE  WalkedTo(c, d, k + 1)
<1>1. PICK f : \A p \in Positions(c, d) : Rank(c, d, p) <= k => f[p] = Round(c, d, f, p)
  BY DEF WalkedTo
<1> DEFINE g == [p \in Positions(c, d) |->
                   IF Rank(c, d, p) <= k THEN f[p] ELSE Round(c, d, f, p)]
<1>2. \A q \in Positions(c, d) : Rank(c, d, q) <= k => f[q] = g[q]
  OBVIOUS
<1>3. ASSUME NEW p \in Positions(c, d), Rank(c, d, p) <= k + 1
      PROVE  g[p] = Round(c, d, g, p)
  <2>1. \A q \in Positions(c, d) : Rank(c, d, q) < Rank(c, d, p) => f[q] = g[q]
    <3>1. \A q \in Positions(c, d) : Rank(c, d, q) \in Nat
      BY RankFalls, Zenon
    <3> QED BY <1>2, <1>3, <3>1
  <2>2. Round(c, d, f, p) = Round(c, d, g, p)
    BY <2>1, RoundLooksAhead
  <2>3. g[p] = Round(c, d, f, p)
    BY <1>1
  <2> QED BY <2>2, <2>3
<1> HIDE DEF g
<1> QED BY <1>3 DEF WalkedTo

\* The walk is well defined.
LEMMA WalkDefined ==
  ASSUME NEW c, NEW d, Len(c) \in Nat, Len(d) \in Nat
  PROVE  \A p \in Positions(c, d) : Walk(c, d)[p] = Round(c, d, Walk(c, d), p)
<1>1. \A k \in Nat : WalkedTo(c, d, k)
  <2> DEFINE T == {k \in Nat : ~WalkedTo(c, d, k)}
  <2>1. SUFFICES ASSUME T # {} PROVE FALSE
    BY <2>1
  <2>2. PICK k \in T : \A j \in T : k <= j
    BY <2>1, Least
  <2>3. k # 0
    BY WalkedFrom
  <2>4. k - 1 \in Nat /\ k - 1 \notin T
    BY <2>2, <2>3
  <2>5. WalkedTo(c, d, k - 1) /\ (k - 1) + 1 = k
    BY <2>4
  <2>6. WalkedTo(c, d, k)
    BY <2>4, <2>5, WalkedOn
  <2> QED BY <2>6
<1>2. PICK f : \A p \in Positions(c, d) :
        Rank(c, d, p) <= Len(c) + Len(d) => f[p] = Round(c, d, f, p)
  BY <1>1 DEF WalkedTo
<1> DEFINE g == [p \in Positions(c, d) |-> f[p]]
<1>3. \A p \in Positions(c, d) : g[p] = Round(c, d, g, p)
  <2> TAKE p \in Positions(c, d)
  <2>1. Round(c, d, f, p) = Round(c, d, g, p)
    BY RoundLooksAhead
  <2>2. g[p] = Round(c, d, f, p)
    BY <1>2, RankFalls
  <2> QED BY <2>1, <2>2
<1>4. g = [p \in Positions(c, d) |-> Round(c, d, g, p)]
  BY <1>3
<1> HIDE DEF g
<1>5. Walk(c, d) = [p \in Positions(c, d) |-> Round(c, d, Walk(c, d), p)]
  BY <1>4, Zenon DEF Walk, Round, Positions
<1> QED BY <1>5

\* Two intervals have a point in time in common.
Touch(a, b) == a.start <= b.end /\ b.start <= a.end

\* An interval of c from i on and one of d from j on do.
Meets(c, d, i, j) == \E m \in i..Len(c), n \in j..Len(d) : Touch(c[m], d[n])

\* An interval that ends before another starts has nothing in common with it,
\* nor with those after it.
LEMMA MeetsFirst ==
  ASSUME NEW c, NEW d, Schedule(c), Schedule(d),
         NEW i \in 1..Len(c), NEW j \in 1..Len(d), c[i].start <= d[j].start
  PROVE  Meets(c, d, i, j) <=> c[i].end >= d[j].start \/ Meets(c, d, i + 1, j)
<1> USE DEF Schedule
<1>1. CASE c[i].end >= d[j].start
  <2>1. Touch(c[i], d[j]) /\ i \in i..Len(c) /\ j \in j..Len(d)
    BY <1>1 DEF Touch
  <2> QED BY <1>1, <2>1 DEF Meets
<1>2. CASE ~(c[i].end >= d[j].start)
  <2>1. ASSUME NEW n \in j..Len(d) PROVE ~Touch(c[i], d[n])
    <3>1. n \in 1..Len(d) /\ (n = j \/ j < n)
      BY <2>1
    <3>2. d[j].start <= d[j].end /\ (j < n => d[n].start > d[j].end)
      BY <3>1
    <3>3. d[n].start >= d[j].start
      BY <3>1, <3>2
    <3> QED BY <1>2, <3>1, <3>3 DEF Touch
  <2>2. i..Len(c) = {i} \cup (i + 1)..Len(c)
    OBVIOUS
  <2> QED BY <1>2, <2>1, <2>2 DEF Meets
<1> QED BY <1>1, <1>2

\* The walk goes on in the second schedule when its interval starts first: an
\* interval of the first that meets this one meets it now.
LEMMA MeetsSecond ==
  ASSUME NEW c, NEW d, Schedule(c), Schedule(d),
         NEW i \in 1..Len(c), NEW j \in 1..Len(d), ~(c[i].start <= d[j].start)
  PROVE  Meets(c, d, i, j) <=> d[j].end >= c[i].start \/ Meets(c, d, i, j + 1)
<1> USE DEF Schedule
<1>1. CASE d[j].end >= c[i].start
  <2>1. Touch(c[i], d[j]) /\ i \in i..Len(c) /\ j \in j..Len(d)
    BY <1>1 DEF Touch
  <2> QED BY <1>1, <2>1 DEF Meets
<1>2. CASE ~(d[j].end >= c[i].start)
  <2>1. ASSUME NEW m \in i..Len(c) PROVE ~Touch(c[m], d[j])
    <3>1. m \in 1..Len(c) /\ (m = i \/ i < m)
      BY <2>1
    <3>2. c[i].start <= c[i].end /\ (i < m => c[m].start > c[i].end)
      BY <3>1
    <3>3. c[m].start >= c[i].start
      BY <3>1, <3>2
    <3> QED BY <1>2, <3>1, <3>3 DEF Touch
  <2>2. j..Len(d) = {j} \cup (j + 1)..Len(d)
    OBVIOUS
  <2> QED BY <1>2, <2>1, <2>2 DEF Meets
<1> QED BY <1>1, <1>2

\* At an end, nothing is left.
LEMMA MeetsEnd ==
  ASSUME NEW c, NEW d, Schedule(c), Schedule(d), NEW i \in Nat, NEW j \in Nat,
         i > Len(c) \/ j > Len(d)
  PROVE  ~Meets(c, d, i, j)
  BY DEF Meets, Schedule

\* The walk finds out whether the schedules have a point in time in common.
LEMMA WalkMeets ==
  ASSUME NEW c, NEW d, Schedule(c), Schedule(d)
  PROVE  \A p \in Positions(c, d) : Walk(c, d)[p] <=> Meets(c, d, p[1], p[2])
<1>0. Len(c) \in Nat /\ Len(d) \in Nat
  BY DEF Schedule
<1> DEFINE Right(p) == Walk(c, d)[p] <=> Meets(c, d, p[1], p[2])
           T == {Rank(c, d, p) : p \in {q \in Positions(c, d) : ~Right(q)}}
<1>1. SUFFICES ASSUME T # {} PROVE FALSE
  OBVIOUS
<1>2. T \subseteq Nat
  <2>1. \A q \in Positions(c, d) : Rank(c, d, q) \in Nat
    BY <1>0, RankFalls, Zenon
  <2> QED BY <2>1
<1>3. PICK r \in T : \A s \in T : r <= s
  BY <1>1, <1>2, Least
<1>4. PICK p \in Positions(c, d) : ~Right(p) /\ r = Rank(c, d, p)
  BY <1>3
<1>5. ASSUME NEW q \in Positions(c, d), Rank(c, d, q) = Rank(c, d, p) - 1 PROVE Right(q)
  <2>1. Rank(c, d, q) \in Nat /\ Rank(c, d, p) \in Nat
    BY <1>0, RankFalls, Zenon
  <2> QED BY <1>3, <1>4, <1>5, <2>1
<1>6. PICK i \in 1..(Len(c) + 1), j \in 1..(Len(d) + 1) : p = <<i, j>>
  BY DEF Positions
<1>7. Walk(c, d)[p] = Round(c, d, Walk(c, d), p)
  BY <1>0, WalkDefined
<1>8. p[1] = i /\ p[2] = j
  BY <1>6
<1> HIDE DEF T
<1>9. CASE i > Len(c) \/ j > Len(d)
  <2>1. ~Round(c, d, Walk(c, d), p)
    BY <1>8, <1>9 DEF Round
  <2>2. ~Meets(c, d, i, j)
    BY <1>0, <1>9, MeetsEnd
  <2> QED BY <1>4, <1>7, <1>8, <2>1, <2>2
<1>10. CASE i \in 1..Len(c) /\ j \in 1..Len(d) /\ c[i].start <= d[j].start
  <2>1. Walk(c, d)[p] <=> c[i].end >= d[j].start \/ Walk(c, d)[<<i + 1, j>>]
    <3>1. ~(i > Len(c) \/ j > Len(d))
      BY <1>0, <1>10
    <3> QED BY <1>7, <1>8, <1>10, <3>1, Zenon DEF Round
  <2>2. <<i + 1, j>> \in Positions(c, d) /\ Rank(c, d, <<i + 1, j>>) = Rank(c, d, p) - 1
    BY <1>0, <1>6, <1>10 DEF Positions, Rank
  <2>3. Walk(c, d)[<<i + 1, j>>] <=> Meets(c, d, i + 1, j)
    BY <1>5, <2>2
  <2>4. Meets(c, d, i, j) <=> c[i].end >= d[j].start \/ Meets(c, d, i + 1, j)
    BY <1>10, MeetsFirst
  <2> QED BY <1>4, <1>8, <2>1, <2>3, <2>4
<1>11. CASE i \in 1..Len(c) /\ j \in 1..Len(d) /\ ~(c[i].start <= d[j].start)
  <2>1. Walk(c, d)[p] <=> d[j].end >= c[i].start \/ Walk(c, d)[<<i, j + 1>>]
    <3>1. ~(i > Len(c) \/ j > Len(d))
      BY <1>0, <1>11
    <3> QED BY <1>7, <1>8, <1>11, <3>1, Zenon DEF Round
  <2>2. <<i, j + 1>> \in Positions(c, d) /\ Rank(c, d, <<i, j + 1>>) = Rank(c, d, p) - 1
    BY <1>0, <1>6, <1>11 DEF Positions, Rank
  <2>3. Walk(c, d)[<<i, j + 1>>] <=> Meets(c, d, i, j + 1)
    BY <1>5, <2>2
  <2>4. Meets(c, d, i, j) <=> d[j].end >= c[i].start \/ Meets(c, d, i, j + 1)
    BY <1>11, MeetsSecond
  <2> QED BY <1>4, <1>8, <2>1, <2>3, <2>4
<1> QED BY <1>0, <1>9, <1>10, <1>11

\* Schedules overlap if and only if they have a point in time in common.
LEMMA OverlapExact ==
  ASSUME NEW c, NEW d, Schedule(c), Schedule(d)
  PROVE  OverlappingTimeSchedules(c, d) <=>
           \E m \in 1..Len(c), n \in 1..Len(d) : Touch(c[m], d[n])
<1>1. <<1, 1>> \in Positions(c, d)
  BY DEF Positions, Schedule
<1> QED BY <1>1, WalkMeets DEF OverlappingTimeSchedules, Meets

\* The same as what the planner promises of two counters: at some time both
\* tensors are in use.
Shared(c, d) ==
  \E m \in 1..Len(c), n \in 1..Len(d) :
    \E t \in Time : /\ c[m].start <= t /\ t <= c[m].end
                    /\ d[n].start <= t /\ t <= d[n].end

\* OverlappingTimeSchedules finds exactly the schedules that share a point in
\* time, however many intervals they have.
LEMMA SharedExact ==
  ASSUME NEW c \in ProgramCounter, NEW d \in ProgramCounter
  PROVE  OverlappingTimeSchedules(c, d) <=> Shared(c, d)
<1>1. /\ Schedule(c) /\ \A i \in 1..Len(c) : c[i].end \in Time
      /\ Schedule(d) /\ \A i \in 1..Len(d) : d[i].end \in Time
  BY CounterSchedule
<1>2. ASSUME NEW m \in 1..Len(c), NEW n \in 1..Len(d)
      PROVE  Touch(c[m], d[n]) <=>
               \E t \in Time : /\ c[m].start <= t /\ t <= c[m].end
                               /\ d[n].start <= t /\ t <= d[n].end
  <2>1. /\ c[m].start \in Nat /\ c[m].end \in Time /\ c[m].start <= c[m].end
        /\ d[n].start \in Nat /\ d[n].end \in Time /\ d[n].start <= d[n].end
    BY <1>1 DEF Schedule
  <2>2. c[m].start \in Time /\ d[n].start \in Time
    BY <2>1, TimeAssumption DEF Time
  <2>3. Time \subseteq Nat
    BY TimeAssumption DEF Time
  <2> DEFINE In(t) == /\ c[m].start <= t /\ t <= c[m].end
                      /\ d[n].start <= t /\ t <= d[n].end
  <2>4. ASSUME NEW t \in Time, In(t) PROVE Touch(c[m], d[n])
    <3>1. t \in Nat
      BY <2>3
    <3>2. /\ c[m].start \in Nat /\ c[m].end \in Nat
          /\ d[n].start \in Nat /\ d[n].end \in Nat
      BY <2>1, <2>3
    <3>3. /\ c[m].start <= t /\ t <= c[m].end
          /\ d[n].start <= t /\ t <= d[n].end
      BY <2>4
    <3> HIDE DEF In
    <3>4. c[m].start <= d[n].end /\ d[n].start <= c[m].end
      BY <3>1, <3>2, <3>3
    <3> QED BY <3>4 DEF Touch
  <2>5. ASSUME Touch(c[m], d[n]) PROVE In(c[m].start) \/ In(d[n].start)
    BY <2>1, <2>2, <2>3, <2>5 DEF Touch
  <2> QED BY <2>2, <2>4, <2>5
<1>3. OverlappingTimeSchedules(c, d) <=>
        \E m \in 1..Len(c), n \in 1..Len(d) : Touch(c[m], d[n])
  BY <1>1, OverlapExact
<1> QED BY <1>2, <1>3 DEF Shared

\* It does not matter which of the two comes first.
LEMMA SharedSymmetric ==
  ASSUME NEW c, NEW d
  PROVE  Shared(c, d) <=> Shared(d, c)
  BY Zenon DEF Shared

\* A tensor without a counter shares no time.
LEMMA SharedNever ==
  ASSUME NEW c, NEW d, c = <<>> \/ d = <<>>
  PROVE  ~Shared(c, d)
  BY DEF Shared

-----------------------------------------------------------------------------
(***************************************************************************)
(* The inductive invariant.                                                *)
(***************************************************************************)
\* The tensors that have a block in the list.
InUse == {blocks_[n] : n \in 1..Len(blocks_)}

\* Blocks are not empty.  With counters, every tensor that is not empty has a
\* block, for good.
TensorInv ==
  /\ \A i \in 1..Len(allocs_) : allocs_[i].reuse => allocs_[i].size > 0
  /\ \A i \in 1..Len(allocs_) :
       using_counters_ => IF allocs_[i].size > 0 THEN i \in InUse /\ allocs_[i].reuse
                          ELSE allocs_[i].counter = <<>>
  /\ \A n \in 1..Len(blocks_) : Block(n).size > 0

\* That no two tensors in use overlap is inductive only together with the order
\* of the list, on which the scan depends, and with the blocks of live tensors
\* being in the list, where the scan sees them.
PlanInv == BlocksSorted /\ TensorInv /\ NoLiveOverlap /\ PeakExact

\* What the invariant says of a block.
LEMMA BlockFacts ==
  ASSUME PlanInv, NEW n \in 1..Len(blocks_)
  PROVE  /\ blocks_[n] \in 1..Len(allocs_) /\ Block(n) \in Tensor
         /\ Block(n).offset \in Nat /\ Block(n).size \in Nat /\ Block(n).size > 0
         /\ End(Block(n)) \in Nat /\ End(Block(n)) <= buffer_size_
         /\ using_counters_ => Block(n).reuse /\ Block(n).counter \in ProgramCounter
         /\ Block(n).reuse => using_counters_
<1>1. blocks_[n] \in 1..Len(allocs_)
  BY DEF PlanInv, BlocksSorted, TypeOK
<1>2. allocs_[blocks_[n]] \in Tensor
  BY <1>1 DEF PlanInv, BlocksSorted, TypeOK
<1>3. Block(n).offset \in Nat /\ Block(n).size \in Nat
  BY <1>2, SizeAssumption DEF Block, Tensor
<1>4. Block(n).size > 0
  BY DEF PlanInv, TensorInv
<1>5. End(Block(n)) \in Nat
  BY <1>3 DEF End
<1>6. End(Block(n)) <= buffer_size_
  BY <1>1 DEF PlanInv, PeakExact, Block
<1>7. using_counters_ => Block(n).reuse
  BY <1>1, <1>4 DEF PlanInv, TensorInv, Block
<1>8. Block(n).reuse => using_counters_ /\ Block(n).counter \in ProgramCounter
  BY <1>1 DEF PlanInv, BlocksSorted, TypeOK, Block
<1> QED BY <1>1, <1>2, <1>3, <1>4, <1>5, <1>6, <1>7, <1>8 DEF Block

-----------------------------------------------------------------------------
(***************************************************************************)
(* The scan.                                                               *)
(***************************************************************************)
\* The scan is at the furthest end of the blocks it has passed.
LEMMA CurrentExact ==
  ASSUME PlanInv, NEW way, way \subseteq 1..Len(blocks_), NEW i \in Nat
  PROVE  /\ current(way, i) \in Nat /\ current(way, i) <= buffer_size_
         /\ \A j \in way : j < i => End(Block(j)) <= current(way, i)
         /\ \/ current(way, i) = 0
            \/ \E j \in way : j < i /\ current(way, i) = End(Block(j))
<1> DEFINE ends == {0} \cup {End(Block(j)) : j \in {k \in way : k < i}}
<1>1. buffer_size_ \in Nat
  BY DEF PlanInv, BlocksSorted, TypeOK
<1>2. \A j \in way : End(Block(j)) \in 0..buffer_size_
  <2> TAKE j \in way
  <2>1. End(Block(j)) \in Nat /\ End(Block(j)) <= buffer_size_
    BY BlockFacts
  <2> QED BY <1>1, <2>1
<1>3. ends \subseteq 0..buffer_size_ /\ ends # {}
  BY <1>1, <1>2
<1>4. \E x \in ends : \A y \in ends : y <= x
  BY <1>1, <1>3, Greatest
<1>5. current(way, i) \in ends /\ \A y \in ends : y <= current(way, i)
  BY <1>4, Zenon DEF current
<1>6. \A j \in way : j < i => End(Block(j)) \in ends
  OBVIOUS
<1>7. \/ current(way, i) = 0
      \/ \E j \in way : j < i /\ current(way, i) = End(Block(j))
  BY <1>5
<1>8. current(way, i) \in 0..buffer_size_
  BY <1>3, <1>5
<1> HIDE DEF ends
<1> QED BY <1>1, <1>5, <1>6, <1>7, <1>8

\* How much room there is in front of a position.
LEMMA GapExact ==
  ASSUME PlanInv, NEW way, way \subseteq 1..Len(blocks_),
         NEW i \in way \cup {Len(blocks_) + 1}
  PROVE  /\ i \in 1..(Len(blocks_) + 1) /\ current(way, i) \in Nat
         /\ gap(way, i) \in Int /\ gap(way, i) <= buffer_size_ - current(way, i)
         /\ i \in way => gap(way, i) = Block(i).offset - current(way, i)
         /\ i = Len(blocks_) + 1 => gap(way, i) = buffer_size_ - current(way, i)
<1>1. Len(blocks_) \in Nat /\ buffer_size_ \in Nat
  BY DEF PlanInv, BlocksSorted, TypeOK
<1>2. i \in 1..(Len(blocks_) + 1) /\ i \in Nat
  BY <1>1
<1>3. current(way, i) \in Nat
  BY <1>2, CurrentExact
<1>4. CASE i \in way
  <2>1. i \in 1..Len(blocks_)
    BY <1>4
  <2>2. Block(i).offset \in Nat /\ Block(i).size \in Nat /\ End(Block(i)) <= buffer_size_
    BY <2>1, BlockFacts
  <2>3. ~(i > Len(blocks_)) /\ i # Len(blocks_) + 1
    BY <1>1, <2>1
  <2>4. gap(way, i) = Block(i).offset - current(way, i)
    BY <2>3 DEF gap
  <2>5. Block(i).offset <= buffer_size_
    BY <1>1, <2>2 DEF End
  <2> QED BY <1>1, <1>2, <1>3, <1>4, <2>2, <2>3, <2>4, <2>5
<1>5. CASE i = Len(blocks_) + 1
  <2>1. i > Len(blocks_) /\ i \notin way
    BY <1>1, <1>5
  <2>2. gap(way, i) = buffer_size_ - current(way, i)
    BY <2>1 DEF gap
  <2> QED BY <1>1, <1>2, <1>3, <1>5, <2>1, <2>2
<1> QED BY <1>4, <1>5

\* If there is a position with room, one of those is chosen.
LEMMA BestExact ==
  ASSUME PlanInv, NEW way, way \subseteq 1..Len(blocks_), NEW size \in Nat
  PROVE  IF Fitting(way, size) = {}
         THEN BestOffset(way, size) = current(way, Len(blocks_) + 1)
         ELSE \E b \in Fitting(way, size) : BestOffset(way, size) = current(way, b)
<1>1. CASE Fitting(way, size) = {}
  BY <1>1 DEF BestOffset
<1>2. CASE Fitting(way, size) # {}
  <2> DEFINE F == Fitting(way, size)
             Gaps == {gap(way, i) : i \in F}
             Best(i) == \A j \in F : \/ gap(way, i) < gap(way, j)
                                     \/ gap(way, i) = gap(way, j) /\ i <= j
  <2>1. \A i \in F : i \in way \cup {Len(blocks_) + 1} /\ gap(way, i) >= size
    BY DEF Fitting
  <2>2. \A i \in F : i \in Nat /\ gap(way, i) \in Nat
    <3> TAKE i \in F
    <3>1. i \in 1..(Len(blocks_) + 1) /\ gap(way, i) \in Int
      BY <2>1, GapExact
    <3> QED BY <2>1, <3>1
  <2> HIDE DEF F
  <2>3. F # {}
    BY <1>2 DEF F
  <2>4. PICK g \in Gaps : \A h \in Gaps : g <= h
    <3>1. Gaps \subseteq Nat /\ Gaps # {}
      BY <2>2, <2>3
    <3> HIDE DEF Gaps
    <3> QED BY <3>1, Least
  <2> DEFINE Ones == {i \in F : gap(way, i) = g}
  <2>5. PICK b \in Ones : \A j \in Ones : b <= j
    <3>1. Ones \subseteq Nat /\ Ones # {}
      BY <2>2, <2>4
    <3> HIDE DEF Ones
    <3> QED BY <3>1, Least
  <2>6. b \in F /\ Best(b)
    <3>1. b \in F /\ gap(way, b) = g
      BY <2>5
    <3>2. ASSUME NEW j \in F PROVE \/ gap(way, b) < gap(way, j)
                                   \/ gap(way, b) = gap(way, j) /\ b <= j
      <4>1. g <= gap(way, j) /\ gap(way, j) \in Nat /\ g \in Nat
        BY <2>2, <2>4, <3>1
      <4>2. CASE gap(way, j) = g
        BY <2>5, <3>1, <4>2
      <4> QED BY <3>1, <4>1, <4>2
    <3> QED BY <3>1, <3>2
  <2>7. (CHOOSE i \in F : Best(i)) \in F
    <3> HIDE DEF Best
    <3> QED BY <2>6
  <2>8. BestOffset(way, size) = current(way, CHOOSE i \in F : Best(i))
    BY <1>2, Zenon DEF BestOffset, F
  <2> HIDE DEF Best
  <2> QED BY <1>2, <2>7, <2>8 DEF F
<1> QED BY <1>1, <1>2

\* The list is sorted.
LEMMA Sorted ==
  ASSUME PlanInv, NEW i \in 1..Len(blocks_), NEW j \in 1..Len(blocks_), i <= j
  PROVE  Block(i).offset <= Block(j).offset
<1>1. CASE i = j
  BY <1>1, BlockFacts
<1>2. CASE i < j
  BY <1>2 DEF PlanInv, BlocksSorted, Block
<1>3. i \in Int /\ j \in Int
  OBVIOUS
<1> QED BY <1>1, <1>2, <1>3

\* A tensor is placed clear of all blocks in its way, and within the buffer if
\* there is a position with room.
LEMMA PlacedApart ==
  ASSUME PlanInv, NEW way, way \subseteq 1..Len(blocks_), NEW size \in Nat
  PROVE  /\ BestOffset(way, size) \in Nat
         /\ Fitting(way, size) # {} => BestOffset(way, size) + size <= buffer_size_
         /\ \A k \in way : \/ End(Block(k)) <= BestOffset(way, size)
                           \/ BestOffset(way, size) + size <= Block(k).offset
<1> DEFINE last == Len(blocks_) + 1
<1>0. Len(blocks_) \in Nat /\ last \in Nat /\ buffer_size_ \in Nat
  BY DEF PlanInv, BlocksSorted, TypeOK
<1>1. CASE Fitting(way, size) = {}
  <2>1. BestOffset(way, size) = current(way, last)
    BY <1>1, BestExact
  <2>2. /\ current(way, last) \in Nat
        /\ \A j \in way : j < last => End(Block(j)) <= current(way, last)
    BY <1>0, CurrentExact
  <2>3. \A j \in way : j < last
    BY <1>0
  <2> QED BY <1>1, <2>1, <2>2, <2>3
<1>2. CASE Fitting(way, size) # {}
  <2>1. PICK b \in Fitting(way, size) : BestOffset(way, size) = current(way, b)
    BY <1>2, BestExact
  <2>2. b \in way \cup {last} /\ gap(way, b) >= size
    BY <2>1 DEF Fitting
  <2>3. /\ b \in 1..last /\ current(way, b) \in Nat
        /\ gap(way, b) \in Int /\ gap(way, b) <= buffer_size_ - current(way, b)
        /\ b \in way => gap(way, b) = Block(b).offset - current(way, b)
    BY <2>2, GapExact
  <2>4. current(way, b) + size <= buffer_size_
    BY <1>0, <2>2, <2>3
  <2>5. ASSUME NEW k \in way
        PROVE  \/ End(Block(k)) <= current(way, b)
               \/ current(way, b) + size <= Block(k).offset
    <3>1. k \in 1..Len(blocks_) /\ b \in Nat
      BY <1>0, <2>3
    <3>2. CASE k < b
      BY <3>1, <3>2, CurrentExact
    <3>3. CASE ~(k < b)
      <4>1. b \in way /\ b <= k /\ b \in 1..Len(blocks_)
        BY <1>0, <2>2, <2>3, <3>1, <3>3
      <4>2. Block(b).offset <= Block(k).offset
        BY <3>1, <4>1, Sorted
      <4>3. Block(b).offset \in Nat /\ Block(k).offset \in Nat
        BY <3>1, <4>1, BlockFacts
      <4> QED BY <2>2, <2>3, <4>1, <4>2, <4>3
    <3> QED BY <3>2, <3>3
  <2> QED BY <2>1, <2>3, <2>4, <2>5
<1> QED BY <1>1, <1>2

\* Where there is no position with room, there is no room.
LEMMA NoRoom ==
  ASSUME PlanInv, NEW way, way \subseteq 1..Len(blocks_), NEW size \in Nat, size > 0,
         Fitting(way, size) = {}, NEW x \in 0..(buffer_size_ - size)
  PROVE  \E k \in way : ~Apart(Block(k), [offset |-> x, size |-> size])
<1> DEFINE last == Len(blocks_) + 1
           Later == {i \in way : x + size <= Block(i).offset}
<1>0. /\ Len(blocks_) \in Nat /\ last \in Nat /\ buffer_size_ \in Nat
      /\ x \in Nat /\ x + size <= buffer_size_
  BY DEF PlanInv, BlocksSorted, TypeOK
<1>1. SUFFICES ASSUME \A k \in way : Apart(Block(k), [offset |-> x, size |-> size])
               PROVE  FALSE
  OBVIOUS
<1>2. ASSUME NEW k \in way, ~(x + size <= Block(k).offset) PROVE End(Block(k)) <= x
  BY <1>1, <1>2 DEF Apart, End
<1>3. ASSUME NEW b \in way \cup {last}, \A k \in way : k < b => End(Block(k)) <= x
      PROVE  current(way, b) <= x
  <2>1. b \in Nat
    BY <1>0
  <2>2. \/ current(way, b) = 0
        \/ \E j \in way : j < b /\ current(way, b) = End(Block(j))
    BY <2>1, CurrentExact
  <2> QED BY <1>0, <1>3, <2>2
<1>4. CASE Later = {}
  <2>1. current(way, last) <= x
    BY <1>2, <1>3, <1>4
  <2>2. gap(way, last) = buffer_size_ - current(way, last) /\ current(way, last) \in Nat
    BY GapExact
  <2>3. gap(way, last) >= size
    BY <1>0, <2>1, <2>2
  <2> QED BY <2>3 DEF Fitting
<1>5. CASE Later # {}
  <2>1. PICK b \in Later : \A j \in Later : b <= j
    <3>1. Later \subseteq Nat
      <4>1. \A i \in 1..Len(blocks_) : i \in Nat
        BY <1>0
      <4>2. Later \subseteq 1..Len(blocks_)
        OBVIOUS
      <4> QED BY <4>1, <4>2
    <3> HIDE DEF Later
    <3> QED BY <1>5, <3>1, Least
  <2>2. b \in way /\ b \in 1..Len(blocks_) /\ x + size <= Block(b).offset
    BY <2>1
  <2>3. \A k \in way : k < b => k \notin Later
    BY <2>1, <2>2
  <2>4. current(way, b) <= x
    BY <1>2, <1>3, <2>2, <2>3
  <2>5. gap(way, b) = Block(b).offset - current(way, b) /\ current(way, b) \in Nat
    BY <2>2, GapExact
  <2>6. Block(b).offset \in Nat
    BY <2>2, BlockFacts
  <2>7. gap(way, b) >= size
    BY <1>0, <2>2, <2>4, <2>5, <2>6
  <2> QED BY <2>2, <2>7 DEF Fitting
<1> QED BY <1>4, <1>5

-----------------------------------------------------------------------------
(***************************************************************************)
(* The list.                                                               *)
(***************************************************************************)
\* The sequence q with x in front of position n, and without position n.
Inserted(q, x, n) == SubSeq(q, 1, n - 1) \o <<x>> \o SubSeq(q, n, Len(q))
Removed(q, n) == SubSeq(q, 1, n - 1) \o SubSeq(q, n + 1, Len(q))

\* What an insertion leaves at each position.
IsInserted(r, q, x, n) ==
  /\ Len(r) = Len(q) + 1
  /\ \A k \in 1..(Len(q) + 1) :
       r[k] = IF k < n THEN q[k] ELSE IF k = n THEN x ELSE q[k - 1]

\* Inserted does that, with elements of the same set.
LEMMA InsertedExact ==
  ASSUME NEW S, NEW q \in Seq(S), NEW x \in S, NEW n \in 1..(Len(q) + 1)
  PROVE  Inserted(q, x, n) \in Seq(S) /\ IsInserted(Inserted(q, x, n), q, x, n)
<1> DEFINE a == SubSeq(q, 1, n - 1)
           c == SubSeq(q, n, Len(q))
           r == Inserted(q, x, n)
<1>0. Len(q) \in Nat /\ n \in Nat
  OBVIOUS
<1>1. a \in Seq(S) /\ Len(a) = n - 1 /\ \A k \in 1..(n - 1) : a[k] = q[k]
  BY <1>0, SubSeqProperties
<1>2. /\ c \in Seq(S) /\ Len(c) = Len(q) - n + 1
      /\ \A k \in 1..(Len(q) - n + 1) : c[k] = q[n + k - 1]
  BY <1>0, SubSeqProperties
<1>3. <<x>> \in Seq(S) /\ Len(<<x>>) = 1 /\ <<x>>[1] = x
  OBVIOUS
<1> HIDE DEF a, c
<1>4. /\ a \o <<x>> \in Seq(S) /\ Len(a \o <<x>>) = n
      /\ \A k \in 1..n : (a \o <<x>>)[k] = IF k < n THEN q[k] ELSE x
  BY <1>0, <1>1, <1>3, ConcatProperties
<1>5. r = (a \o <<x>>) \o c
  BY DEF a, c, Inserted
<1> HIDE DEF r
<1>6. r \in Seq(S) /\ Len(r) = Len(q) + 1
  <2>1. r \in Seq(S) /\ Len(r) = n + (Len(q) - n + 1)
    <3>1. /\ (a \o <<x>>) \o c \in Seq(S)
          /\ Len((a \o <<x>>) \o c) = Len(a \o <<x>>) + Len(c)
      BY <1>2, <1>4, ConcatProperties, Zenon
    <3> QED BY <1>2, <1>4, <1>5, <3>1, Zenon
  <2> QED BY <1>0, <2>1
<1>7. ASSUME NEW k \in 1..(Len(q) + 1)
      PROVE  r[k] = IF k < n THEN q[k] ELSE IF k = n THEN x ELSE q[k - 1]
  <2>1. k \in Nat /\ k >= 1 /\ k <= Len(q) + 1
    BY <1>0
  <2>2. CASE k <= n
    <3>1. r[k] = (a \o <<x>>)[k] /\ k \in 1..n
      BY <1>0, <1>2, <1>4, <1>5, <2>1, <2>2
    <3> QED BY <1>0, <1>4, <2>1, <2>2, <3>1
  <2>3. CASE k > n
    <3>1. r[k] = c[k - n] /\ k - n \in 1..(Len(q) - n + 1) /\ n + (k - n) - 1 = k - 1
      BY <1>0, <1>2, <1>4, <1>5, <2>1, <2>3
    <3> QED BY <1>0, <1>2, <2>1, <2>3, <3>1
  <2> QED BY <1>0, <2>1, <2>2, <2>3
<1> QED BY <1>6, <1>7, Zenon DEF r, IsInserted

\* What a removal leaves at each position.
LEMMA RemovedExact ==
  ASSUME NEW S, NEW q \in Seq(S), NEW n \in 1..Len(q)
  PROVE  /\ Removed(q, n) \in Seq(S) /\ Len(Removed(q, n)) = Len(q) - 1
         /\ \A k \in 1..(Len(q) - 1) : Removed(q, n)[k] = IF k < n THEN q[k] ELSE q[k + 1]
<1> DEFINE a == SubSeq(q, 1, n - 1)
           c == SubSeq(q, n + 1, Len(q))
           r == Removed(q, n)
<1>0. Len(q) \in Nat /\ n \in Nat
  OBVIOUS
<1>1. a \in Seq(S) /\ Len(a) = n - 1 /\ \A k \in 1..(n - 1) : a[k] = q[k]
  BY <1>0, SubSeqProperties
<1>2. /\ c \in Seq(S) /\ Len(c) = Len(q) - n
      /\ \A k \in 1..(Len(q) - n) : c[k] = q[n + k]
  BY <1>0, SubSeqProperties
<1> HIDE DEF a, c
<1>3. r = a \o c
  BY DEF a, c, Removed
<1> HIDE DEF r
<1>4. r \in Seq(S) /\ Len(r) = Len(q) - 1
  <2>1. r \in Seq(S) /\ Len(r) = (n - 1) + (Len(q) - n)
    <3>1. a \o c \in Seq(S) /\ Len(a \o c) = Len(a) + Len(c)
      BY <1>1, <1>2, ConcatProperties, Zenon
    <3> QED BY <1>1, <1>2, <1>3, <3>1, Zenon
  <2> QED BY <1>0, <2>1
<1>5. ASSUME NEW k \in 1..(Len(q) - 1)
      PROVE  r[k] = IF k < n THEN q[k] ELSE q[k + 1]
  <2>1. k \in Nat /\ k >= 1 /\ k <= Len(q) - 1
    BY <1>0
  <2>2. CASE k < n
    BY <1>0, <1>1, <1>2, <1>3, <2>1, <2>2
  <2>3. CASE k >= n
    <3>1. r[k] = c[k - (n - 1)] /\ k - (n - 1) \in 1..(Len(q) - n) /\ n + (k - (n - 1)) = k + 1
      BY <1>0, <1>1, <1>2, <1>3, <2>1, <2>3
    <3>2. c[k - (n - 1)] = q[n + (k - (n - 1))]
      BY <1>2, <3>1, Zenon
    <3>3. ~(k < n)
      BY <1>0, <2>1, <2>3
    <3> QED BY <3>1, <3>2, <3>3, Zenon
  <2> QED BY <1>0, <2>1, <2>2, <2>3
<1> QED BY <1>4, <1>5 DEF r

\* A new block goes between those with smaller and those with greater offsets.
LEMMA InsertedInOrder ==
  ASSUME PlanInv, NEW offset \in Nat, NEW size \in Nat
  PROVE  \E at \in 1..(Len(blocks_) + 1) :
           /\ InsertBlock(offset, size) = Inserted(blocks_, Len(allocs_) + 1, at)
           /\ \A k \in 1..Len(blocks_) : k < at => Block(k).offset <= offset
           /\ \A k \in 1..Len(blocks_) : k >= at => offset <= Block(k).offset
<1> DEFINE later == {i \in 1..Len(blocks_) : Before(i, offset, size)}
           at == IF later = {} THEN Len(blocks_) + 1
                 ELSE CHOOSE i \in later : \A j \in later : i <= j
<1>0. Len(blocks_) \in Nat
  BY DEF PlanInv, BlocksSorted, TypeOK
<1>1. later # {} => at \in later /\ \A j \in later : at <= j
  <2> SUFFICES ASSUME later # {} PROVE at \in later /\ \A j \in later : at <= j
    OBVIOUS
  <2>1. later \subseteq Nat
    <3>1. \A i \in 1..Len(blocks_) : i \in Nat
      BY <1>0
    <3>2. later \subseteq 1..Len(blocks_)
      OBVIOUS
    <3> QED BY <3>1, <3>2
  <2> HIDE DEF later
  <2>2. \E i \in later : \A j \in later : i <= j
    BY <2>1, Least
  <2> QED BY <2>2
<1>2. later = {} => at = Len(blocks_) + 1
  OBVIOUS
<1>3. InsertBlock(offset, size) = Inserted(blocks_, Len(allocs_) + 1, at)
  BY Zenon DEF InsertBlock, Inserted
<1>4. \A i \in later : i \in 1..Len(blocks_) /\ offset <= Block(i).offset
  <2> TAKE i \in later
  <2>1. i \in 1..Len(blocks_) /\ Before(i, offset, size)
    OBVIOUS
  <2>2. Block(i).offset \in Nat
    BY <2>1, BlockFacts
  <2> QED BY <2>1, <2>2 DEF Before
<1>5. \A k \in 1..Len(blocks_) : k \notin later => Block(k).offset <= offset
  <2> TAKE k \in 1..Len(blocks_)
  <2>1. Block(k).offset \in Nat
    BY BlockFacts
  <2> QED BY <2>1 DEF Before
<1> HIDE DEF later, at
<1>6. at \in 1..(Len(blocks_) + 1)
  BY <1>0, <1>1, <1>2, <1>4
<1>7. ASSUME NEW k \in 1..Len(blocks_), k < at PROVE Block(k).offset <= offset
  <2>1. k \notin later
    BY <1>0, <1>1, <1>2, <1>6, <1>7
  <2> QED BY <1>5, <2>1
<1>8. ASSUME NEW k \in 1..Len(blocks_), k >= at PROVE offset <= Block(k).offset
  <2>1. at \in later /\ at \in 1..Len(blocks_)
    BY <1>0, <1>1, <1>2, <1>4, <1>8
  <2>2. offset <= Block(at).offset /\ Block(at).offset <= Block(k).offset
    BY <1>4, <1>8, <2>1, Sorted
  <2>3. Block(at).offset \in Nat /\ Block(k).offset \in Nat
    BY <2>1, BlockFacts
  <2> QED BY <2>2, <2>3
<1> QED BY <1>3, <1>6, <1>7, <1>8

-----------------------------------------------------------------------------
(***************************************************************************)
(* A step.                                                                 *)
(***************************************************************************)
\* What a tensor is given that is placed: a counter if the planner uses them.
Asked(counter, reuse) ==
  IF using_counters_ THEN counter \in ProgramCounter /\ reuse = TRUE
  ELSE counter = <<>> /\ reuse = FALSE

\* The blocks in the way are those of the tensors in use at the same time.
LEMMA InTheWayExact ==
  ASSUME PlanInv, NEW counter, NEW reuse, Asked(counter, reuse)
  PROVE  /\ InTheWay(counter) \subseteq 1..Len(blocks_)
         /\ \A k \in 1..Len(blocks_) :
              k \in InTheWay(counter) <=>
                (using_counters_ => Shared(counter, Block(k).counter))
<1>1. InTheWay(counter) \subseteq 1..Len(blocks_)
  BY DEF InTheWay
<1>2. ASSUME NEW k \in 1..Len(blocks_)
      PROVE  k \in InTheWay(counter) <=>
               (using_counters_ => Shared(counter, Block(k).counter))
  <2>1. k \in InTheWay(counter) <=>
          ~(Block(k).reuse /\ ~OverlappingTimeSchedules(counter, Block(k).counter))
    BY DEF InTheWay
  <2>2. CASE using_counters_
    <3>1. Block(k).reuse /\ Block(k).counter \in ProgramCounter
      BY <2>2, BlockFacts
    <3>2. OverlappingTimeSchedules(counter, Block(k).counter)
            <=> Shared(counter, Block(k).counter)
      BY <2>2, <3>1, SharedExact DEF Asked
    <3> QED BY <2>1, <2>2, <3>1, <3>2
  <2>3. CASE ~using_counters_
    <3>1. ~Block(k).reuse
      BY <2>3, BlockFacts
    <3> QED BY <2>1, <2>3, <3>1
  <2> QED BY <2>2, <2>3
<1> QED BY <1>1, <1>2

\* A tensor that is in use at the same time as a new one has a block in its way.
LEMMA TogetherInTheWay ==
  ASSUME PlanInv, NEW counter, NEW reuse, Asked(counter, reuse), NEW j \in 1..Len(allocs_),
         IF using_counters_ THEN Shared(counter, allocs_[j].counter) ELSE j \in InUse
  PROVE  \E k \in InTheWay(counter) : blocks_[k] = j
<1>1. j \in InUse
  <2>1. CASE using_counters_
    <3>1. allocs_[j].counter # <<>>
      BY <2>1, SharedNever
    <3> QED BY <2>1, <3>1 DEF PlanInv, TensorInv
  <2> QED BY <2>1
<1>2. PICK k \in 1..Len(blocks_) : blocks_[k] = j
  BY <1>1 DEF InUse
<1>3. using_counters_ => Shared(counter, Block(k).counter)
  BY <1>2 DEF Block
<1> QED BY <1>2, <1>3, InTheWayExact

\* The new entry, at offset o, and what the list becomes with it at position at.
Placed(o, at, size, counter, reuse) ==
  /\ o = BestOffset(InTheWay(counter), size)
  /\ buffer_size_' = IF o + size > buffer_size_ THEN o + size ELSE buffer_size_
  /\ allocs_' \in Seq(Tensor) /\ Len(allocs_') = Len(allocs_) + 1
  /\ \A i \in 1..Len(allocs_) : allocs_'[i] = allocs_[i]
  /\ allocs_'[Len(allocs_) + 1] =
       [offset |-> o, size |-> size, counter |-> counter, reuse |-> reuse]
  /\ blocks_' \in Seq(1..(Len(allocs_) + 1)) /\ Len(blocks_') = Len(blocks_) + 1
  /\ \A k \in 1..(Len(blocks_) + 1) :
       blocks_'[k] = IF k < at THEN blocks_[k]
                     ELSE IF k = at THEN Len(allocs_) + 1 ELSE blocks_[k - 1]
  /\ \A k \in 1..Len(blocks_) : k < at => Block(k).offset <= o
  /\ \A k \in 1..Len(blocks_) : k >= at => o <= Block(k).offset

\* What Place does: where the tensor goes, and where in the list its block.
LEMMA PlaceFacts ==
  ASSUME PlanInv, NEW size \in Size, size # 0, NEW counter, NEW reuse,
         Asked(counter, reuse), Place(size, counter, reuse)
  PROVE  \E o \in Nat, at \in 1..(Len(blocks_) + 1) : Placed(o, at, size, counter, reuse)
<1> DEFINE o == BestOffset(InTheWay(counter), size)
           r == [offset |-> o, size |-> size, counter |-> counter, reuse |-> reuse]
<1>0. size \in Nat
  BY SizeAssumption
<1>1. o \in Nat
  BY <1>0, InTheWayExact, PlacedApart
<1>2. /\ buffer_size_' = IF o + size > buffer_size_ THEN o + size ELSE buffer_size_
      /\ allocs_' = Append(allocs_, r)
      /\ blocks_' = InsertBlock(o, size)
  BY DEF Place
<1> HIDE DEF o
<1>3. allocs_ \in Seq(Tensor) /\ blocks_ \in Seq(1..Len(allocs_))
  BY DEF PlanInv, BlocksSorted, TypeOK
<1>4. Len(allocs_) \in Nat
  BY <1>3
<1>5. r \in Tensor
  BY <1>1 DEF Asked, Tensor
<1>6. /\ allocs_' \in Seq(Tensor) /\ Len(allocs_') = Len(allocs_) + 1
      /\ \A i \in 1..Len(allocs_) : allocs_'[i] = allocs_[i]
      /\ allocs_'[Len(allocs_) + 1] = r
  <2> HIDE DEF r
  <2> QED BY <1>2, <1>3, <1>5, AppendProperties
<1>7. PICK at \in 1..(Len(blocks_) + 1) :
        /\ blocks_' = Inserted(blocks_, Len(allocs_) + 1, at)
        /\ \A k \in 1..Len(blocks_) : k < at => Block(k).offset <= o
        /\ \A k \in 1..Len(blocks_) : k >= at => o <= Block(k).offset
  BY <1>0, <1>1, <1>2, InsertedInOrder
<1>8. blocks_ \in Seq(1..(Len(allocs_) + 1)) /\ Len(allocs_) + 1 \in 1..(Len(allocs_) + 1)
  <2>1. \A k \in 1..Len(blocks_) : blocks_[k] \in 1..(Len(allocs_) + 1)
    BY <1>3, <1>4
  <2> QED BY <1>3, <1>4, <2>1
<1>9. /\ blocks_' \in Seq(1..(Len(allocs_) + 1)) /\ Len(blocks_') = Len(blocks_) + 1
      /\ \A k \in 1..(Len(blocks_) + 1) :
           blocks_'[k] = IF k < at THEN blocks_[k]
                         ELSE IF k = at THEN Len(allocs_) + 1 ELSE blocks_[k - 1]
  <2> DEFINE S == 1..(Len(allocs_) + 1)
             x == Len(allocs_) + 1
             L == Inserted(blocks_, x, at)
  <2>1. /\ L \in Seq(S) /\ Len(L) = Len(blocks_) + 1
        /\ \A k \in 1..(Len(blocks_) + 1) :
             L[k] = IF k < at THEN blocks_[k] ELSE IF k = at THEN x ELSE blocks_[k - 1]
    <3>1. blocks_ \in Seq(S) /\ x \in S
      BY <1>8
    <3> HIDE DEF S, x
    <3>2. at \in 1..(Len(blocks_) + 1)
      BY <1>7
    <3>3. Inserted(blocks_, x, at) \in Seq(S)
          /\ IsInserted(Inserted(blocks_, x, at), blocks_, x, at)
      BY <3>1, <3>2, InsertedExact
    <3> QED BY <3>3, Zenon DEF IsInserted
  <2>2. blocks_' = L
    BY <1>7
  <2> HIDE DEF L
  <2> QED BY <2>1, <2>2
<1>10. Placed(o, at, size, counter, reuse)
  BY <1>2, <1>6, <1>7, <1>9, Zenon DEF Placed, o
<1> QED BY <1>1, <1>10

\* What a placement does to the list: each block keeps its place in the order.
LEMMA PlacedOrder ==
  ASSUME PlanInv, NEW o, NEW at \in 1..(Len(blocks_) + 1), NEW size, NEW counter, NEW reuse,
         Placed(o, at, size, counter, reuse), NEW k \in 1..(Len(blocks_) + 1)
  PROVE  \/ k < at /\ k \in 1..Len(blocks_) /\ blocks_'[k] = blocks_[k]
         \/ k = at /\ blocks_'[k] = Len(allocs_) + 1
         \/ /\ k > at /\ k - 1 \in 1..Len(blocks_) /\ k - 1 >= at
            /\ blocks_'[k] = blocks_[k - 1]
<1> DEFINE N == Len(allocs_)
           M == Len(blocks_)
<1>0. M \in Nat
  BY DEF PlanInv, BlocksSorted, TypeOK
<1>1. blocks_'[k] = IF k < at THEN blocks_[k] ELSE IF k = at THEN N + 1 ELSE blocks_[k - 1]
  BY Zenon DEF Placed
<1> HIDE DEF N, M
<1>2. k \in Nat /\ at \in Nat /\ k >= 1 /\ k <= M + 1 /\ at >= 1 /\ at <= M + 1
  BY <1>0 DEF M
<1>3. CASE k < at
  BY <1>0, <1>1, <1>2, <1>3 DEF N, M
<1>4. CASE k = at
  BY <1>0, <1>1, <1>2, <1>4 DEF N, M
<1>5. CASE k > at
  BY <1>0, <1>1, <1>2, <1>5 DEF N, M
<1> QED BY <1>2, <1>3, <1>4, <1>5

\* The new block is in use, with those that were.
LEMMA PlacedInUse ==
  ASSUME PlanInv, NEW o, NEW at \in 1..(Len(blocks_) + 1), NEW size, NEW counter, NEW reuse,
         Placed(o, at, size, counter, reuse)
  PROVE  InUse' = InUse \cup {Len(allocs_) + 1}
<1> DEFINE N == Len(allocs_)
           M == Len(blocks_)
<1>0. M \in Nat
  BY DEF PlanInv, BlocksSorted, TypeOK
<1>1. /\ Len(blocks_') = M + 1
      /\ \A k \in 1..(M + 1) :
           blocks_'[k] = IF k < at THEN blocks_[k]
                         ELSE IF k = at THEN N + 1 ELSE blocks_[k - 1]
  BY Zenon DEF Placed
<1>2. \A k \in 1..(M + 1) : blocks_'[k] = N + 1 \/ \E n \in 1..M : blocks_'[k] = blocks_[n]
  BY PlacedOrder, Zenon
<1>3. InUse' = {blocks_'[k] : k \in 1..(M + 1)} /\ InUse = {blocks_[k] : k \in 1..M}
  BY <1>1 DEF InUse
<1>4. at \in 1..(M + 1) /\ at \in Nat
  OBVIOUS
<1> HIDE DEF N, M
<1>5. blocks_'[at] = N + 1
  BY <1>0, <1>1, <1>4
<1>6. ASSUME NEW k \in 1..M PROVE \E n \in 1..(M + 1) : blocks_'[n] = blocks_[k]
  <2>1. CASE k < at
    <3>1. k \in 1..(M + 1)
      BY <1>0
    <3> QED BY <1>1, <2>1, <3>1
  <2>2. CASE k >= at
    <3>1. k + 1 \in 1..(M + 1) /\ (k + 1) - 1 = k /\ ~(k + 1 < at) /\ k + 1 # at
      BY <1>0, <1>4, <2>2
    <3> QED BY <1>1, <3>1
  <2> QED BY <1>0, <1>4, <2>1, <2>2
<1>7. InUse' \subseteq InUse \cup {N + 1} /\ InUse \subseteq InUse' /\ N + 1 \in InUse'
  BY <1>2, <1>3, <1>4, <1>5, <1>6
<1> QED BY <1>7 DEF N


\* Being apart is symmetric.
LEMMA ApartSymmetric ==
  ASSUME NEW a, NEW b
  PROVE  Apart(a, b) <=> Apart(b, a)
  BY DEF Apart

\* What is used together is, with counters, what shares a time.
LEMMA TogetherIs ==
  /\ \A i, j : InUseTogether(i, j) <=>
       IF using_counters_ THEN Shared(allocs_[i].counter, allocs_[j].counter)
       ELSE i \in InUse /\ j \in InUse
  /\ \A i, j : InUseTogether(i, j)' <=>
       IF using_counters_' THEN Shared(allocs_'[i].counter, allocs_'[j].counter)
       ELSE i \in InUse' /\ j \in InUse'
<1>1. \A i, j : {i, j} \subseteq InUse <=> i \in InUse /\ j \in InUse
  OBVIOUS
<1>2. \A i, j : {i, j} \subseteq InUse' <=> i \in InUse' /\ j \in InUse'
  OBVIOUS
<1> QED BY <1>1, <1>2, Zenon DEF InUseTogether, Shared, InUse

\* A placement keeps the invariant.
LEMMA PlaceKeeps ==
  ASSUME PlanInv, NEW size \in Size, size # 0, NEW counter, NEW reuse,
         Asked(counter, reuse), Place(size, counter, reuse),
         using_counters_' = using_counters_
  PROVE  PlanInv'
<1> DEFINE N == Len(allocs_)
           M == Len(blocks_)
<1>0. /\ N \in Nat /\ M \in Nat /\ size \in Nat /\ size > 0 /\ buffer_size_ \in Nat
      /\ using_counters_ \in BOOLEAN
      /\ allocs_ \in Seq(Tensor) /\ blocks_ \in Seq(1..N)
  BY SizeAssumption DEF PlanInv, BlocksSorted, TypeOK
<1>0a. PICK o \in Nat, at \in 1..(Len(blocks_) + 1) : Placed(o, at, size, counter, reuse)
  BY PlaceFacts
<1>1. /\ o \in Nat /\ at \in 1..(M + 1)
      /\ o = BestOffset(InTheWay(counter), size)
      /\ buffer_size_' = IF o + size > buffer_size_ THEN o + size ELSE buffer_size_
      /\ allocs_' \in Seq(Tensor) /\ Len(allocs_') = N + 1
      /\ \A i \in 1..N : allocs_'[i] = allocs_[i]
      /\ allocs_'[N + 1] = [offset |-> o, size |-> size, counter |-> counter, reuse |-> reuse]
      /\ blocks_' \in Seq(1..(N + 1)) /\ Len(blocks_') = M + 1
      /\ \A k \in 1..(M + 1) :
           blocks_'[k] = IF k < at THEN blocks_[k]
                         ELSE IF k = at THEN N + 1 ELSE blocks_[k - 1]
      /\ \A k \in 1..M : k < at => Block(k).offset <= o
      /\ \A k \in 1..M : k >= at => o <= Block(k).offset
  BY <1>0a, Zenon DEF Placed
<1>2. \A k \in 1..M : blocks_[k] \in 1..N
  BY <1>0
<1> HIDE DEF N, M
<1>3. /\ allocs_'[N + 1].offset = o /\ allocs_'[N + 1].size = size
      /\ allocs_'[N + 1].counter = counter /\ allocs_'[N + 1].reuse = reuse
      /\ End(allocs_'[N + 1]) = o + size
  BY <1>1 DEF End
\* Each block keeps its place in the order.
<1>4. \A k \in 1..(M + 1) :
        \/ k < at /\ k \in 1..M /\ blocks_'[k] = blocks_[k]
        \/ k = at /\ blocks_'[k] = N + 1
        \/ k > at /\ k - 1 \in 1..M /\ k - 1 >= at /\ blocks_'[k] = blocks_[k - 1]
  BY <1>0a, PlacedOrder, Zenon DEF N, M
<1>5. TypeOK'
  <2>1. \A i \in 1..(N + 1) :
          allocs_'[i].reuse => using_counters_' /\ allocs_'[i].counter \in ProgramCounter
    <3> TAKE i \in 1..(N + 1)
    <3>1. CASE i \in 1..N
      BY <1>1, <3>1 DEF PlanInv, BlocksSorted, TypeOK, N
    <3>2. CASE i = N + 1
      BY <1>1, <1>3, <3>2 DEF Asked
    <3> QED BY <1>0, <3>1, <3>2
  <2>2. buffer_size_' \in Nat
    BY <1>0, <1>1
  <2>3. Len(allocs_') = N + 1 /\ allocs_' \in Seq(Tensor) /\ blocks_' \in Seq(1..(N + 1))
    BY <1>1
  <2> QED BY <1>0, <2>1, <2>2, <2>3 DEF TypeOK
<1>6. \A i, j \in 1..(M + 1) :
        i < j => /\ blocks_'[i] # blocks_'[j]
                 /\ allocs_'[blocks_'[i]].offset <= allocs_'[blocks_'[j]].offset
  <2> SUFFICES ASSUME NEW i \in 1..(M + 1), NEW j \in 1..(M + 1), i < j
               PROVE  /\ blocks_'[i] # blocks_'[j]
                      /\ allocs_'[blocks_'[i]].offset <= allocs_'[blocks_'[j]].offset
    OBVIOUS
  <2>0. i \in Nat /\ j \in Nat /\ at \in Nat
    BY <1>0, <1>1
  <2>1. ASSUME NEW k \in 1..M
        PROVE  /\ allocs_'[blocks_[k]] = Block(k) /\ blocks_[k] # N + 1
               /\ Block(k).offset \in Nat
    <3>1. Block(k).offset \in Nat
      BY BlockFacts DEF M
    <3>2. blocks_[k] \in 1..N
      BY <1>2
    <3>3. blocks_[k] # N + 1
      BY <1>0, <3>2
    <3>4. allocs_'[blocks_[k]] = Block(k)
      BY <1>1, <3>2 DEF Block
    <3> QED BY <3>1, <3>3, <3>4
  <2>2. ASSUME NEW k \in 1..M, NEW n \in 1..M, k < n
        PROVE  blocks_[k] # blocks_[n] /\ Block(k).offset <= Block(n).offset
    BY <2>2 DEF PlanInv, BlocksSorted, Block, M
  <2>3. CASE j < at
    <3>1. i \in 1..M /\ j \in 1..M /\ blocks_'[i] = blocks_[i] /\ blocks_'[j] = blocks_[j]
      BY <1>4, <2>0, <2>3
    <3> QED BY <2>1, <2>2, <3>1
  <2>4. CASE j = at
    <3>1. i \in 1..M /\ i < at /\ blocks_'[i] = blocks_[i] /\ blocks_'[j] = N + 1
      BY <1>4, <2>0, <2>4
    <3> QED BY <1>1, <1>3, <2>1, <3>1
  <2>5. CASE j > at
    <3>1. j - 1 \in 1..M /\ j - 1 >= at /\ blocks_'[j] = blocks_[j - 1]
      BY <1>4, <2>0, <2>5
    <3>2. CASE i < at
      <4>1. i \in 1..M /\ blocks_'[i] = blocks_[i] /\ i < j - 1
        BY <1>4, <2>0, <3>1, <3>2
      <4> QED BY <2>1, <2>2, <3>1, <4>1
    <3>3. CASE i = at
      <4>1. blocks_'[i] = N + 1 /\ o <= Block(j - 1).offset
        BY <1>1, <1>4, <2>0, <3>1, <3>3
      <4> QED BY <1>3, <2>1, <3>1, <4>1
    <3>4. CASE i > at
      <4>1. i - 1 \in 1..M /\ blocks_'[i] = blocks_[i - 1] /\ i - 1 < j - 1
        BY <1>4, <2>0, <3>1, <3>4
      <4> QED BY <2>1, <2>2, <3>1, <4>1
    <3> QED BY <2>0, <3>2, <3>3, <3>4
  <2> QED BY <2>0, <2>3, <2>4, <2>5
<1>7. BlocksSorted'
  BY <1>1, <1>5, <1>6 DEF BlocksSorted
<1>8. InUse' = InUse \cup {N + 1}
  BY <1>0, <1>0a, PlacedInUse DEF N
<1>9. TensorInv'
  <2>1. \A i \in 1..(N + 1) : allocs_'[i].reuse => allocs_'[i].size > 0
    <3> TAKE i \in 1..(N + 1)
    <3>1. CASE i \in 1..N
      BY <1>1, <3>1 DEF PlanInv, TensorInv, N
    <3>2. CASE i = N + 1
      BY <1>0, <1>3, <3>2
    <3> QED BY <1>0, <3>1, <3>2
  <2>2. \A i \in 1..(N + 1) :
          using_counters_ => IF allocs_'[i].size > 0 THEN i \in InUse' /\ allocs_'[i].reuse
                             ELSE allocs_'[i].counter = <<>>
    <3> TAKE i \in 1..(N + 1)
    <3>1. CASE i \in 1..N
      BY <1>1, <1>8, <3>1 DEF PlanInv, TensorInv, N
    <3>2. CASE i = N + 1
      BY <1>0, <1>3, <1>8, <3>2 DEF Asked
    <3> QED BY <1>0, <3>1, <3>2
  <2>3. \A k \in 1..(M + 1) : allocs_'[blocks_'[k]].size > 0
    <3> TAKE k \in 1..(M + 1)
    <3>1. ASSUME NEW n \in 1..M PROVE allocs_'[blocks_[n]].size > 0
      BY <1>1, <1>2 DEF PlanInv, TensorInv, Block, M
    <3> QED BY <1>0, <1>3, <1>4, <3>1
  <2> QED BY <1>1, <2>1, <2>2, <2>3 DEF TensorInv, Block
<1>10. NoLiveOverlap'
  <2>0. \A i \in 1..N : allocs_'[i] = allocs_[i] /\ i # N + 1
    BY <1>0, <1>1
  <2>1. ASSUME NEW j \in 1..N,
               IF using_counters_ THEN Shared(counter, allocs_[j].counter) ELSE j \in InUse
        PROVE  Apart(allocs_'[j], allocs_'[N + 1])
    <3>1. PICK k \in InTheWay(counter) : blocks_[k] = j
      BY <2>1, TogetherInTheWay DEF N
    <3>2. InTheWay(counter) \subseteq 1..Len(blocks_)
      BY InTheWayExact
    <3>3. End(Block(k)) <= o \/ o + size <= Block(k).offset
      BY <1>0, <1>1, <3>2, PlacedApart
    <3>4. allocs_'[j] = Block(k)
      BY <1>1, <3>1 DEF Block
    <3> QED BY <1>3, <3>3, <3>4 DEF Apart
  <2>2. SUFFICES ASSUME NEW i \in 1..(N + 1), NEW j \in 1..(N + 1), i # j, InUseTogether(i, j)'
                 PROVE  Apart(allocs_'[i], allocs_'[j])
    BY <1>1 DEF NoLiveOverlap, Apart, End
  <2>3. IF using_counters_ THEN Shared(allocs_'[i].counter, allocs_'[j].counter)
        ELSE i \in InUse' /\ j \in InUse'
    BY <2>2, TogetherIs
  <2>4. CASE i \in 1..N /\ j \in 1..N
    <3>1. allocs_'[i] = allocs_[i] /\ allocs_'[j] = allocs_[j]
      BY <2>0, <2>4
    <3>2. i # N + 1 /\ j # N + 1
      BY <2>0, <2>4
    <3>3. InUseTogether(i, j)
      BY <1>8, <2>3, <3>1, <3>2, TogetherIs
    <3> QED BY <2>2, <2>4, <3>1, <3>3 DEF PlanInv, NoLiveOverlap, N
  <2>5. CASE i \in 1..N /\ j = N + 1
    <3>1. allocs_'[i] = allocs_[i] /\ i # N + 1
      BY <2>0, <2>5
    <3>2. IF using_counters_ THEN Shared(counter, allocs_[i].counter) ELSE i \in InUse
      BY <1>3, <1>8, <2>3, <2>5, <3>1, SharedSymmetric
    <3> QED BY <2>1, <2>5, <3>2
  <2>6. CASE j \in 1..N /\ i = N + 1
    <3>1. allocs_'[j] = allocs_[j] /\ j # N + 1
      BY <2>0, <2>6
    <3>2. IF using_counters_ THEN Shared(counter, allocs_[j].counter) ELSE j \in InUse
      BY <1>3, <1>8, <2>3, <2>6, <3>1
    <3> QED BY <2>1, <2>6, <3>2, ApartSymmetric
  <2> QED BY <1>0, <2>2, <2>4, <2>5, <2>6
<1>11. PeakExact'
  <2>1. \A i \in 1..N : End(allocs_'[i]) = End(allocs_[i]) /\ End(allocs_[i]) \in Nat
    <3> TAKE i \in 1..N
    <3>1. allocs_[i] \in Tensor
      BY <1>0 DEF N
    <3>2. allocs_'[i] = allocs_[i]
      BY <1>1
    <3>3. allocs_[i].offset \in Nat /\ allocs_[i].size \in Nat
      BY <3>1, SizeAssumption DEF Tensor
    <3> QED BY <3>2, <3>3 DEF End
  <2>2. /\ \A i \in 1..N : End(allocs_[i]) <= buffer_size_
        /\ buffer_size_ > 0 => \E i \in 1..N : End(allocs_[i]) = buffer_size_
    BY DEF PlanInv, PeakExact, N
  <2>3. N + 1 \in 1..(N + 1) /\ \A i \in 1..N : i \in 1..(N + 1)
    BY <1>0
  <2>4. \A i \in 1..(N + 1) : i \in 1..N \/ i = N + 1
    BY <1>0
  <2>5. \A i \in 1..(N + 1) : End(allocs_'[i]) <= buffer_size_'
    <3>1. /\ buffer_size_ <= buffer_size_' /\ o + size <= buffer_size_'
          /\ buffer_size_' \in Nat
      BY <1>0, <1>1
    <3>2. ASSUME NEW i \in 1..(N + 1) PROVE End(allocs_'[i]) <= buffer_size_'
      <4>1. CASE i \in 1..N
        <5>1. End(allocs_'[i]) \in Nat /\ End(allocs_'[i]) <= buffer_size_
          BY <2>1, <2>2, <4>1
        <5> QED BY <1>0, <3>1, <5>1
      <4>2. CASE i = N + 1
        BY <1>3, <3>1, <4>2
      <4> QED BY <2>4, <4>1, <4>2
    <3> QED BY <3>2
  <2>6. buffer_size_' > 0 => \E i \in 1..(N + 1) : End(allocs_'[i]) = buffer_size_'
    <3>1. CASE o + size > buffer_size_
      BY <1>0, <1>1, <1>3, <2>3, <3>1
    <3>2. CASE ~(o + size > buffer_size_)
      BY <1>0, <1>1, <2>1, <2>2, <2>3, <3>2
    <3> QED BY <3>1, <3>2
  <2> QED BY <1>1, <2>5, <2>6 DEF PeakExact, End
<1> QED BY <1>7, <1>9, <1>10, <1>11 DEF PlanInv

\* An empty tensor takes no part.
LEMMA PlaceEmptyKeeps ==
  ASSUME PlanInv, 0 \in Size, PlaceEmpty, using_counters_' = using_counters_
  PROVE  PlanInv'
<1> DEFINE N == Len(allocs_)
           r == [offset |-> 0, size |-> 0, counter |-> <<>>, reuse |-> FALSE]
<1>0. /\ N \in Nat /\ Len(blocks_) \in Nat /\ buffer_size_ \in Nat
      /\ using_counters_ \in BOOLEAN
      /\ allocs_ \in Seq(Tensor) /\ blocks_ \in Seq(1..N)
  BY DEF PlanInv, BlocksSorted, TypeOK
<1>1. allocs_' = Append(allocs_, r) /\ blocks_' = blocks_ /\ buffer_size_' = buffer_size_
  BY DEF PlaceEmpty
<1>2. r \in Tensor
  BY DEF Tensor
<1>3. /\ r.offset = 0 /\ r.size = 0 /\ r.counter = <<>> /\ r.reuse = FALSE
      /\ End(r) = 0
  BY DEF End
<1>4. /\ allocs_' \in Seq(Tensor) /\ Len(allocs_') = N + 1
      /\ \A i \in 1..N : allocs_'[i] = allocs_[i]
      /\ allocs_'[N + 1] = r
  <2> HIDE DEF r
  <2> QED BY <1>0, <1>1, <1>2, AppendProperties
<1> HIDE DEF N, r
<1>5. \A i \in 1..(N + 1) : i \in 1..N \/ i = N + 1
  BY <1>0
<1>6. \A k \in 1..Len(blocks_) : blocks_[k] \in 1..N /\ allocs_'[blocks_[k]] = Block(k)
  BY <1>0, <1>4 DEF Block
<1>7. InUse' = InUse /\ InUse \subseteq 1..N
  BY <1>1, <1>6 DEF InUse
<1>8. BlocksSorted'
  <2>1. \A i \in 1..(N + 1) :
          allocs_'[i].reuse => using_counters_' /\ allocs_'[i].counter \in ProgramCounter
    BY <1>3, <1>4, <1>5 DEF PlanInv, BlocksSorted, TypeOK, N
  <2>2. blocks_' \in Seq(1..(N + 1))
    <3>1. \A k \in 1..Len(blocks_) : blocks_[k] \in 1..(N + 1)
      BY <1>0, <1>6
    <3> QED BY <1>0, <1>1, <3>1
  <2>3. TypeOK'
    BY <1>0, <1>1, <1>4, <2>1, <2>2 DEF TypeOK
  <2>4. \A i, j \in 1..Len(blocks_) :
          i < j => blocks_[i] # blocks_[j] /\ Block(i).offset <= Block(j).offset
    BY DEF PlanInv, BlocksSorted, Block
  <2> QED BY <1>1, <1>6, <2>3, <2>4 DEF BlocksSorted
<1>9. TensorInv'
  <2>1. \A i \in 1..(N + 1) : allocs_'[i].reuse => allocs_'[i].size > 0
    BY <1>3, <1>4, <1>5 DEF PlanInv, TensorInv, N
  <2>2. \A i \in 1..(N + 1) :
          using_counters_ => IF allocs_'[i].size > 0 THEN i \in InUse' /\ allocs_'[i].reuse
                             ELSE allocs_'[i].counter = <<>>
    BY <1>3, <1>4, <1>5, <1>7 DEF PlanInv, TensorInv, N
  <2>3. \A k \in 1..Len(blocks_) : allocs_'[blocks_[k]].size > 0
    BY <1>6 DEF PlanInv, TensorInv
  <2> QED BY <1>1, <1>4, <2>1, <2>2, <2>3 DEF TensorInv, Block
<1>10. NoLiveOverlap'
  <2>1. SUFFICES ASSUME NEW i \in 1..(N + 1), NEW j \in 1..(N + 1), i # j, InUseTogether(i, j)'
                 PROVE  Apart(allocs_'[i], allocs_'[j])
    BY <1>4 DEF NoLiveOverlap, Apart, End
  <2>2. IF using_counters_ THEN Shared(allocs_'[i].counter, allocs_'[j].counter)
        ELSE i \in InUse' /\ j \in InUse'
    BY <2>1, TogetherIs
  <2>3. i # N + 1 /\ j # N + 1
    <3>1. N + 1 \notin 1..N
      BY <1>0
    <3> QED BY <1>3, <1>4, <1>7, <2>2, <3>1, SharedNever
  <2>4. i \in 1..N /\ j \in 1..N
    BY <1>5, <2>3
  <2>5. allocs_'[i] = allocs_[i] /\ allocs_'[j] = allocs_[j]
    BY <1>4, <2>4
  <2>6. InUseTogether(i, j)
    BY <1>7, <2>2, <2>5, TogetherIs
  <2> QED BY <2>1, <2>4, <2>5, <2>6 DEF PlanInv, NoLiveOverlap, N
<1>11. PeakExact'
  <2>1. \A i \in 1..N : End(allocs_'[i]) = End(allocs_[i])
    BY <1>4 DEF End
  <2>2. \A i \in 1..N : i \in 1..(N + 1)
    BY <1>0
  <2>3. /\ \A i \in 1..N : End(allocs_[i]) <= buffer_size_
        /\ buffer_size_ > 0 => \E i \in 1..N : End(allocs_[i]) = buffer_size_
    BY DEF PlanInv, PeakExact, N
  <2>4. \A i \in 1..(N + 1) : End(allocs_'[i]) <= buffer_size_
    BY <1>0, <1>3, <1>4, <1>5, <2>1, <2>3
  <2>5. buffer_size_ > 0 => \E i \in 1..(N + 1) : End(allocs_'[i]) = buffer_size_
    BY <2>1, <2>2, <2>3
  <2> QED BY <1>1, <1>4, <2>4, <2>5 DEF PeakExact, End
<1> QED BY <1>8, <1>9, <1>10, <1>11 DEF PlanInv

\* A block that is taken out leaves the others in order.
LEMMA FreeKeeps ==
  ASSUME PlanInv, NEW v, TraceFree(v)
  PROVE  PlanInv'
<1> DEFINE M == Len(blocks_)
<1>0. /\ M \in Nat /\ blocks_ \in Seq(1..Len(allocs_))
  BY DEF PlanInv, BlocksSorted, TypeOK
<1>1. /\ ~using_counters_ /\ using_counters_' = using_counters_ /\ allocs_' = allocs_
      /\ buffer_size_' = buffer_size_
  BY DEF TraceFree
<1>2. CASE blocks_' = blocks_
  <2>1. BlocksSorted' /\ PeakExact' /\ TensorInv'
    BY <1>1, <1>2
    DEF PlanInv, BlocksSorted, TypeOK, PeakExact, TensorInv, End, Block, InUse
  <2>2. NoLiveOverlap'
    BY <1>1, <1>2 DEF PlanInv, NoLiveOverlap, InUseTogether, Apart, End
  <2> QED BY <2>1, <2>2 DEF PlanInv
<1>3. ASSUME NEW n \in 1..M, blocks_' = Removed(blocks_, n)
      PROVE  PlanInv'
  <2> HIDE DEF M
  <2>1. /\ blocks_' \in Seq(1..Len(allocs_)) /\ Len(blocks_') = M - 1
        /\ \A k \in 1..(M - 1) : blocks_'[k] = IF k < n THEN blocks_[k] ELSE blocks_[k + 1]
    <3> DEFINE S == 1..Len(allocs_)
    <3>1. blocks_ \in Seq(S) /\ n \in 1..Len(blocks_)
      BY <1>0 DEF M
    <3> HIDE DEF S
    <3>2. /\ Removed(blocks_, n) \in Seq(S) /\ Len(Removed(blocks_, n)) = Len(blocks_) - 1
          /\ \A k \in 1..(Len(blocks_) - 1) :
               Removed(blocks_, n)[k] = IF k < n THEN blocks_[k] ELSE blocks_[k + 1]
      BY <3>1, RemovedExact
    <3> QED BY <1>3, <3>2 DEF M, S
  <2>2. ASSUME NEW k \in 1..(M - 1)
        PROVE  \/ k < n /\ k \in 1..M /\ blocks_'[k] = blocks_[k]
               \/ k >= n /\ k + 1 \in 1..M /\ blocks_'[k] = blocks_[k + 1]
    BY <1>0, <2>1
  <2>3. \A i, j \in 1..M :
          i < j => blocks_[i] # blocks_[j] /\ Block(i).offset <= Block(j).offset
    BY DEF PlanInv, BlocksSorted, Block, M
  <2>4. ASSUME NEW i \in 1..(M - 1), NEW j \in 1..(M - 1), i < j
        PROVE  /\ blocks_'[i] # blocks_'[j]
               /\ allocs_[blocks_'[i]].offset <= allocs_[blocks_'[j]].offset
    <3>0. i \in Nat /\ j \in Nat /\ n \in Nat
      BY <1>0
    <3>1. PICK a \in 1..M : blocks_'[i] = blocks_[a] /\ a = IF i < n THEN i ELSE i + 1
      BY <2>2, <3>0
    <3>2. PICK b \in 1..M : blocks_'[j] = blocks_[b] /\ b = IF j < n THEN j ELSE j + 1
      BY <2>2, <3>0
    <3>3. a < b
      BY <2>4, <3>0, <3>1, <3>2
    <3> QED BY <2>3, <3>1, <3>2, <3>3 DEF Block
  <2>5. \A k \in 1..(M - 1) : \E m \in 1..M : blocks_'[k] = blocks_[m]
    BY <2>2
  <2>6. BlocksSorted'
    BY <1>1, <2>1, <2>4 DEF PlanInv, BlocksSorted, TypeOK
  <2>7. TensorInv'
    <3>1. \A m \in 1..M : allocs_[blocks_[m]].size > 0
      BY DEF PlanInv, TensorInv, Block, M
    <3>2. \A k \in 1..(M - 1) : allocs_[blocks_'[k]].size > 0
      BY <2>5, <3>1
    <3> QED BY <1>1, <2>1, <3>2 DEF PlanInv, TensorInv, Block
  <2>8. InUse' \subseteq InUse
    <3>1. InUse' = {blocks_'[k] : k \in 1..(M - 1)} /\ InUse = {blocks_[m] : m \in 1..M}
      BY <2>1 DEF InUse, M
    <3> QED BY <2>5, <3>1
  <2>9. NoLiveOverlap'
    <3>1. \A i, j : InUseTogether(i, j)' => InUseTogether(i, j)
      BY <1>1, <2>8, TogetherIs
    <3> QED BY <1>1, <3>1 DEF PlanInv, NoLiveOverlap, Apart, End
  <2>10. PeakExact'
    BY <1>1 DEF PlanInv, PeakExact, End
  <2> QED BY <2>6, <2>7, <2>9, <2>10 DEF PlanInv
<1>4. \/ blocks_' = blocks_
      \/ \E n \in 1..M : blocks_' = Removed(blocks_, n)
  BY DEF TraceFree, Removed
<1> QED BY <1>2, <1>3, <1>4

-----------------------------------------------------------------------------
(***************************************************************************)
(* The theorems.                                                           *)
(***************************************************************************)
\* Nothing has been allocated.
LEMMA EmptyPlan ==
  ASSUME using_counters_ \in BOOLEAN, allocs_ = <<>>, blocks_ = <<>>, buffer_size_ = 0
  PROVE  PlanInv
  BY DEF PlanInv, BlocksSorted, TypeOK, TensorInv, NoLiveOverlap, PeakExact

\* The next iteration starts from the same.
LEMMA EmptyPlanNext ==
  ASSUME using_counters_' \in BOOLEAN, allocs_' = <<>>, blocks_' = <<>>, buffer_size_' = 0
  PROVE  PlanInv'
  BY DEF PlanInv, BlocksSorted, TypeOK, TensorInv, NoLiveOverlap, PeakExact

\* Which placement a step makes, if it makes one.
LEMMA StepCases ==
  ASSUME PlanInv, Next
  PROVE  \/ /\ using_counters_' = using_counters_
            /\ \E size \in Size : \E counter, reuse :
                 size # 0 /\ Asked(counter, reuse) /\ Place(size, counter, reuse)
         \/ using_counters_' = using_counters_ /\ 0 \in Size /\ PlaceEmpty
         \/ \E v \in 1..Len(allocs_) : TraceFree(v)
         \/ GenerateMemPattern
         \/ NextIteration
<1>1. ASSUME NEW s \in Size, TraceAllocation(s)
      PROVE  /\ using_counters_' = using_counters_
             /\ IF s = 0 THEN PlaceEmpty ELSE Asked(<<>>, FALSE) /\ Place(s, <<>>, FALSE)
  BY <1>1 DEF TraceAllocation, Asked
<1>2. ASSUME NEW s \in Size, NEW c \in ProgramCounter, TraceAllocationCounter(c, s)
      PROVE  /\ using_counters_' = using_counters_
             /\ IF s = 0 THEN PlaceEmpty ELSE Asked(c, TRUE) /\ Place(s, c, TRUE)
  BY <1>2 DEF TraceAllocationCounter, Asked
<1> QED BY <1>1, <1>2, Zenon DEF Next

\* The list stays sorted and holds every block it has to, the plan without
\* overlap, and the peak exact, whatever is allocated and freed.
THEOREM Inductive == Spec => []PlanInv
<1>1. Init => PlanInv
  BY EmptyPlan DEF Init
<1>2. PlanInv /\ [Next]_vars => PlanInv'
  <2> SUFFICES ASSUME PlanInv, [Next]_vars PROVE PlanInv'
    OBVIOUS
  <2>1. ASSUME using_counters_' = using_counters_,
               NEW size \in Size, NEW counter, NEW reuse,
               size # 0, Asked(counter, reuse), Place(size, counter, reuse)
        PROVE  PlanInv'
    BY <2>1, PlaceKeeps
  <2>2. CASE using_counters_' = using_counters_ /\ 0 \in Size /\ PlaceEmpty
    BY <2>2, PlaceEmptyKeeps
  <2>3. CASE \E v \in 1..Len(allocs_) : TraceFree(v)
    BY <2>3, FreeKeeps
  <2>4. CASE GenerateMemPattern \/ UNCHANGED vars
    <3>1. /\ using_counters_' = using_counters_ /\ allocs_' = allocs_
          /\ blocks_' = blocks_ /\ buffer_size_' = buffer_size_
      BY <2>4 DEF GenerateMemPattern, vars
    <3>2. BlocksSorted' /\ PeakExact' /\ TensorInv'
      BY <3>1 DEF PlanInv, BlocksSorted, TypeOK, PeakExact, TensorInv, End, Block, InUse
    <3>3. NoLiveOverlap'
      <4>1. InUse' = InUse
        BY <3>1 DEF InUse
      <4>2. \A i, j : InUseTogether(i, j)' <=> InUseTogether(i, j)
        BY <3>1, <4>1, TogetherIs
      <4> QED BY <3>1, <4>2 DEF PlanInv, NoLiveOverlap, Apart, End
    <3> QED BY <3>2, <3>3 DEF PlanInv
  <2>5. CASE NextIteration
    BY <2>5, EmptyPlanNext DEF NextIteration
  <2> QED BY <2>1, <2>2, <2>3, <2>4, <2>5, StepCases, Zenon
<1> QED BY <1>1, <1>2, PTL DEF Spec

\* "sorted in order of their offset" (mem_pattern_planner.h:262): the insertion
\* keeps the list so, for every sequence of allocations and frees.
THEOREM SortedCorrect == Spec => []BlocksSorted
<1>1. PlanInv => BlocksSorted
  BY DEF PlanInv
<1> QED BY <1>1, Inductive, PTL

\* The planner's own check never fails: tensors that share a byte have
\* schedules that the walk finds disjoint.
LEMMA CheckPasses ==
  ASSUME PlanInv, using_counters_
  PROVE  Enforced
<1> SUFFICES ASSUME NEW i \in 1..Len(allocs_), NEW j \in (i + 1)..Len(allocs_),
                    allocs_[i].reuse, allocs_[j].reuse, SharesByte(allocs_[i], allocs_[j]),
                    OverlappingTimeSchedules(allocs_[i].counter, allocs_[j].counter)
             PROVE  FALSE
  BY Zenon DEF Enforced
<1>1. Len(allocs_) \in Nat /\ allocs_ \in Seq(Tensor)
  BY DEF PlanInv, BlocksSorted, TypeOK
<1>2. j \in 1..Len(allocs_) /\ i # j
  BY <1>1
<1>3. /\ allocs_[i].offset \in Nat /\ allocs_[i].size \in Nat
      /\ allocs_[j].offset \in Nat /\ allocs_[j].size \in Nat
  <2>1. allocs_[i] \in Tensor /\ allocs_[j] \in Tensor
    BY <1>1, <1>2
  <2> QED BY <2>1, SizeAssumption DEF Tensor
<1>4. allocs_[i].size > 0 /\ allocs_[j].size > 0
  BY <1>2 DEF PlanInv, TensorInv
<1>5. allocs_[i].counter \in ProgramCounter /\ allocs_[j].counter \in ProgramCounter
  BY <1>2 DEF PlanInv, BlocksSorted, TypeOK
<1>6. InUseTogether(i, j)
  BY <1>5, SharedExact, TogetherIs
<1>7. Apart(allocs_[i], allocs_[j])
  BY <1>2, <1>6 DEF PlanInv, NoLiveOverlap
<1> QED BY <1>3, <1>4, <1>7 DEF Apart, SharesByte, End

\* The plan is safe, for any number of tensors of any sizes and with any
\* schedules: no two tensors that are in use at the same time share a byte, the
\* peak is exact, and GenerateMemPattern does not throw.
THEOREM PlanCorrect == Spec => []PatternSafe
<1>1. PlanInv => PatternSafe
  BY CheckPasses DEF PatternSafe, PatternGenerated, PlanInv
<1> QED BY <1>1, Inductive, PTL

\* A placement that makes the buffer grow found no room in it.
LEMMA PlaceGrows ==
  ASSUME PlanInv, NEW size \in Size, size # 0, NEW counter, NEW reuse,
         Asked(counter, reuse), Place(size, counter, reuse),
         using_counters_' = using_counters_, buffer_size_' > buffer_size_
  PROVE  LET s == allocs_'[Len(allocs_')].size
         IN \A x \in 0..(buffer_size_ - s) :
              \E i \in 1..Len(allocs_) :
                /\ InUseTogether(i, Len(allocs_))'
                /\ ~Apart(allocs_[i], [offset |-> x, size |-> s])
<1> DEFINE N == Len(allocs_)
           way == InTheWay(counter)
<1>0. size \in Nat /\ size > 0 /\ buffer_size_ \in Nat /\ N \in Nat
  BY SizeAssumption DEF PlanInv, BlocksSorted, TypeOK
<1>1. PICK o \in Nat, at \in 1..(Len(blocks_) + 1) : Placed(o, at, size, counter, reuse)
  BY PlaceFacts
<1>2. /\ o = BestOffset(way, size)
      /\ buffer_size_' = IF o + size > buffer_size_ THEN o + size ELSE buffer_size_
      /\ Len(allocs_') = N + 1
      /\ \A i \in 1..N : allocs_'[i] = allocs_[i]
      /\ allocs_'[N + 1] = [offset |-> o, size |-> size, counter |-> counter, reuse |-> reuse]
  BY <1>1, Zenon DEF Placed
<1>3. InUse' = InUse \cup {N + 1}
  BY <1>0, <1>1, PlacedInUse
<1>4. way \subseteq 1..Len(blocks_)
  BY InTheWayExact
<1>5. Fitting(way, size) = {}
  <2>1. Fitting(way, size) # {} => o + size <= buffer_size_
    BY <1>0, <1>2, <1>4, PlacedApart
  <2> QED BY <1>0, <1>2, <2>1
<1>6. ASSUME NEW x \in 0..(buffer_size_ - size)
      PROVE  \E i \in 1..N :
               /\ IF using_counters_'
                  THEN Shared(allocs_'[i].counter, allocs_'[N + 1].counter)
                  ELSE i \in InUse' /\ N + 1 \in InUse'
               /\ ~Apart(allocs_[i], [offset |-> x, size |-> size])
  <2>1. PICK k \in way : ~Apart(Block(k), [offset |-> x, size |-> size])
    BY <1>0, <1>4, <1>5, NoRoom
  <2>2. k \in 1..Len(blocks_) /\ blocks_[k] \in 1..N /\ blocks_[k] \in InUse
    BY <1>4, BlockFacts DEF InUse
  <2>3. using_counters_ => Shared(counter, Block(k).counter)
    BY <2>2, InTheWayExact
  <2>4. /\ allocs_'[blocks_[k]] = Block(k)
        /\ allocs_'[N + 1].counter = counter
    BY <1>2, <2>2 DEF Block
  <2>5. using_counters_ => Shared(allocs_'[blocks_[k]].counter, allocs_'[N + 1].counter)
    BY <2>3, <2>4, SharedSymmetric
  <2>6. IF using_counters_'
        THEN Shared(allocs_'[blocks_[k]].counter, allocs_'[N + 1].counter)
        ELSE blocks_[k] \in InUse' /\ N + 1 \in InUse'
    BY <1>3, <2>2, <2>5
  <2>7. ~Apart(allocs_[blocks_[k]], [offset |-> x, size |-> size])
    BY <2>1 DEF Block
  <2> QED BY <2>2, <2>6, <2>7
<1>7. allocs_'[Len(allocs_')].size = size /\ Len(allocs_') = N + 1
  BY <1>2
<1> HIDE DEF N, way
<1>8. SUFFICES ASSUME NEW x \in 0..(buffer_size_ - allocs_'[Len(allocs_')].size)
               PROVE  \E i \in 1..Len(allocs_) :
                        /\ InUseTogether(i, Len(allocs_))'
                        /\ ~Apart(allocs_[i], [offset |-> x,
                                              size |-> allocs_'[Len(allocs_')].size])
  BY Zenon
<1>9. x \in 0..(buffer_size_ - size)
  BY <1>7
<1>10. PICK i \in 1..N :
          /\ IF using_counters_'
             THEN Shared(allocs_'[i].counter, allocs_'[N + 1].counter)
             ELSE i \in InUse' /\ N + 1 \in InUse'
          /\ ~Apart(allocs_[i], [offset |-> x, size |-> size])
  BY <1>6, <1>9
<1>11. InUseTogether(i, Len(allocs_))'
  BY <1>7, <1>10, TogetherIs
<1>12. ~Apart(allocs_[i], [offset |-> x, size |-> allocs_'[Len(allocs_')].size])
  BY <1>7, <1>10, Zenon
<1> QED BY <1>10, <1>11, <1>12, Zenon DEF N

\* The buffer grows only when no place in it is free of the tensors in the way of
\* the new one: BestOffset misses no gap.
THEOREM GrowthNeeded == Spec => GrowsOnlyWhenFull
<1>1. ASSUME PlanInv, [Next]_vars, buffer_size_' > buffer_size_
      PROVE  LET s == allocs_'[Len(allocs_')].size
             IN \A x \in 0..(buffer_size_ - s) :
                  \E i \in 1..Len(allocs_) :
                    /\ InUseTogether(i, Len(allocs_))'
                    /\ ~Apart(allocs_[i], [offset |-> x, size |-> s])
  <2>0. buffer_size_ \in Nat
    BY <1>1 DEF PlanInv, BlocksSorted, TypeOK
  <2>1. ~(buffer_size_' = buffer_size_ \/ buffer_size_' = 0)
    BY <1>1, <2>0
  <2>2. ~UNCHANGED vars /\ ~GenerateMemPattern /\ ~NextIteration /\ ~PlaceEmpty
        /\ \A v : ~TraceFree(v)
    BY <2>1 DEF vars, GenerateMemPattern, NextIteration, PlaceEmpty, TraceFree
  <2>3. using_counters_' = using_counters_
    BY <1>1, <2>2, StepCases, Zenon
  <2>4. PICK size \in Size :
          \E counter, reuse :
            size # 0 /\ Asked(counter, reuse) /\ Place(size, counter, reuse)
    BY <1>1, <2>2, StepCases, Zenon
  <2> QED BY <1>1, <2>3, <2>4, PlaceGrows, Zenon
<1>2. PlanInv /\ [Next]_vars =>
        (buffer_size_' > buffer_size_ =>
           LET s == allocs_'[Len(allocs_')].size
           IN \A x \in 0..(buffer_size_ - s) :
                \E i \in 1..Len(allocs_) :
                  /\ InUseTogether(i, Len(allocs_))'
                  /\ ~Apart(allocs_[i], [offset |-> x, size |-> s]))
  BY <1>1
<1> QED BY <1>2, Inductive, PTL DEF Spec, GrowsOnlyWhenFull
=============================================================================
