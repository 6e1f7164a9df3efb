------------------------ MODULE ParallelSectionProofs -----------------------
(***************************************************************************)
(* The safety of parallel sections for any number of leaders, workers and  *)
(* queue slots, any loops and any start of the tag counter: a section and  *)
(* a loop outlive the workers in them, the workers of a section have       *)
(* different indices, and a leader revokes only tasks of its own.  Tags    *)
(* are unique throughout (TagAssumption): there are fewer leaders than     *)
(* tags and each keeps its tag, so the counter passes 0 once at most.      *)
(***************************************************************************)
EXTENDS ParallelSection, FiniteSetTheorems, SequenceTheorems, TLAPS

-----------------------------------------------------------------------------
(***************************************************************************)
(* The inductive invariant.                                                *)
(***************************************************************************)

\* How far a tag is from the first one that was given out, in the order in
\* which they are given out: 1, ..., TAG_SPACE - 1, and again from 1.
FirstTag == IF FIRST_TAG = 0 THEN 1 ELSE FIRST_TAG
Distance(t) == IF t >= FirstTag THEN t - FirstTag ELSE t - FirstTag + (TAG_SPACE - 1)
Tagged == {l \in Leader : tag[l] # 0}

\* Tags are given out one after the other, so they come round only after
\* TAG_SPACE - 1 of them.
TagInv ==
  /\ Cardinality(Tagged) < TAG_SPACE - 1 => Distance(GetNext) = Cardinality(Tagged)
  /\ \A l \in Tagged : Distance(tag[l]) < Cardinality(Tagged)
  /\ \A k, l \in Tagged : tag[k] = tag[l] => k = l

\* A slot is empty, holds a task of Schedule, or a task with its leader's tag.
QueueInv ==
  \A q \in Worker, s \in Slot :
    \/ queue[q][s] \in {Empty, Plain}
    \/ \E l \in Tagged : queue[q][s] = [from |-> l, tag |-> tag[l]]

\* The tasks of a section: in a queue, under way, finished.
Total(l) ==
  Cardinality(Pushed(l)) + Cardinality(InSection(l)) + tasks_finished[l]
\* The workers that have taken an index, and those that may look at the loop.
Indexed(l) == {w \in Worker : job[w] = l /\ wpc[w] # "index"}
InLoop(l) == {w \in Worker : job[w] = l /\ wpc[w] \in {"read", "fn", "skip"}}

\* The leader's books: the tasks it has to wait for are those that it has not
\* revoked, the indices are given out one by one, and workers_in_loop is exact.
LeaderInv(l) ==
  /\ Total(l) = IF lpc[l] = "revoke" THEN to_wait_for[l] ELSE Len(tasks[l])
  /\ worker_idx[l] = tasks_finished[l] + Cardinality(Indexed(l))
  /\ l \notin SingleLoop => workers_in_loop[l] = Cardinality(InLoop(l))
  /\ l \in SingleLoop => workers_in_loop[l] = 0
  /\ lpc[l] = "idle" =>
       tasks[l] = <<>> /\ loops[l] = 0 /\ worker_idx[l] = 0 /\ tasks_finished[l] = 0
  /\ lpc[l] # "idle" => tag[l] # 0
  /\ lpc[l] = "summon" => loops[l] # 0
  /\ lpc[l] # "summon" => left[l] = 0 /\ current_loop[l] = 0
  /\ current_loop[l] # 0 => current_loop[l] = loops[l] /\ l \notin SingleLoop
  /\ l \in SingleLoop =>
       /\ lpc[l] # "drain"
       /\ loops[l] = 0 => Total(l) = 0
       /\ loops[l] # 0 => Total(l) + left[l] + 1 <= n[l]

\* What the place where a worker is says about its other variables.
WorkerInv(w) ==
  /\ wpc[w] = "idle" <=> job[w] = Nobody
  /\ wpc[w] \in {"idle", "index"} => my_idx[w] = 0
  /\ wpc[w] \notin {"idle", "index"} => my_idx[w] \in 1..worker_idx[job[w]]
  /\ job[w] \in SingleLoop => wpc[w] \in {"index", "fn"}
  /\ wpc[w] = "fn" => my_idx[w] < n[job[w]]
  /\ wpc[w] = "fn" /\ job[w] \notin SingleLoop =>
       lpc[job[w]] \in {"summon", "drain"} /\ work_item[w] = loops[job[w]]

\* The workers of a section have different indices.
IndexInv ==
  \A v, w \in Worker :
    v # w /\ job[v] = job[w] /\ job[w] # Nobody /\ my_idx[w] # 0 => my_idx[v] # my_idx[w]

\* The types, but for the bounds that follow from the leaders' books.
Types ==
  /\ next_tag \in 0..(TAG_SPACE - 1) /\ tag \in [Leader -> 0..(TAG_SPACE - 1)]
  /\ queue \in [Worker -> [Slot -> [from: Leader \cup {Nobody}, tag: -1..(TAG_SPACE - 1)]]]
  /\ lpc \in [Leader -> {"idle", "section", "summon", "drain", "revoke"}]
  /\ active \in [Leader -> BOOLEAN]
  /\ worker_idx \in [Leader -> Nat] /\ tasks_finished \in [Leader -> Nat]
  /\ current_loop \in [Leader -> Nat] /\ loops \in [Leader -> Nat]
  /\ workers_in_loop \in [Leader -> Int]
  /\ tasks \in [Leader -> Seq(Worker \X Slot)]
  /\ n \in [Leader -> Nat] /\ left \in [Leader -> Nat]
  /\ to_wait_for \in [Leader -> Nat]
  /\ wpc \in [Worker -> {"idle", "index", "test", "peek", "join", "read", "fn",
                         "skip", "finish"}]
  /\ job \in [Worker -> Leader \cup {Nobody}] /\ my_idx \in [Worker -> Nat]
  /\ work_item \in [Worker -> Nat]

IInv ==
  /\ Types /\ TagInv /\ QueueInv
  /\ \A l \in Leader : LeaderInv(l)
  /\ \A w \in Worker : WorkerInv(w)
  /\ IndexInv

-----------------------------------------------------------------------------
(***************************************************************************)
(* Sets of workers and slots.                                              *)
(***************************************************************************)

\* The sets that the books count are finite.
LEMMA SetsFinite ==
  ASSUME NEW l
  PROVE  /\ IsFiniteSet(Pushed(l)) /\ Cardinality(Pushed(l)) \in Nat
         /\ IsFiniteSet(InSection(l)) /\ Cardinality(InSection(l)) \in Nat
         /\ IsFiniteSet(Indexed(l)) /\ Cardinality(Indexed(l)) \in Nat
         /\ IsFiniteSet(InLoop(l)) /\ Cardinality(InLoop(l)) \in Nat
         /\ Cardinality(Indexed(l)) <= Cardinality(InSection(l))
         /\ Cardinality(InLoop(l)) <= Cardinality(Worker) /\ Cardinality(Worker) \in Nat
<1>1. IsFiniteSet(Worker) /\ IsFiniteSet(Worker \X Slot)
  BY FiniteAssumption, FS_Product
<1>2. /\ Pushed(l) \in SUBSET (Worker \X Slot) /\ InSection(l) \in SUBSET Worker
      /\ Indexed(l) \in SUBSET InSection(l) /\ InLoop(l) \in SUBSET Worker
  BY DEF Pushed, InSection, Indexed, InLoop
<1>3. IsFiniteSet(Pushed(l)) /\ IsFiniteSet(InSection(l)) /\ IsFiniteSet(InLoop(l))
  BY <1>1, <1>2, FS_Subset
<1>4. IsFiniteSet(Indexed(l)) /\ Cardinality(Indexed(l)) <= Cardinality(InSection(l))
  BY <1>2, <1>3, FS_Subset
<1>5. Cardinality(InLoop(l)) <= Cardinality(Worker)
  BY <1>1, <1>2, FS_Subset
<1> QED BY <1>1, <1>3, <1>4, <1>5, FS_CardinalityType

\* One element more.
LEMMA OneMore ==
  ASSUME NEW S, NEW T, NEW x, IsFiniteSet(S), x \notin S, T = S \cup {x}
  PROVE  Cardinality(T) = Cardinality(S) + 1
  BY FS_AddElement

\* One element less.
LEMMA OneLess ==
  ASSUME NEW S, NEW T, NEW x, IsFiniteSet(S), x \in S, T = S \ {x}
  PROVE  Cardinality(T) = Cardinality(S) - 1
  BY FS_RemoveElement

\* The next number of a counter that wraps.
LEMMA Wrap ==
  ASSUME NEW T \in Nat \ {0}, NEW x \in 0..(T - 1)
  PROVE  (x + 1) % T = IF x + 1 = T THEN 0 ELSE x + 1
<1>1. CASE x + 1 = T
  <2>1. x + 1 = T * 1 + 0
    BY <1>1
  <2> QED BY <1>1
<1>2. CASE x + 1 # T
  BY <1>2
<1> QED BY <1>1, <1>2

-----------------------------------------------------------------------------
(***************************************************************************)
(* Tags, and the tasks in the queues.                                      *)
(***************************************************************************)

\* The numbers of the tag space.
LEMMA TagNumbers ==
  /\ Cardinality(Leader) \in Nat /\ TAG_SPACE \in Nat \ {0}
  /\ IsFiniteSet(Tagged) /\ Cardinality(Tagged) \in Nat
<1>1. IsFiniteSet(Leader) /\ Tagged \in SUBSET Leader
  BY FiniteAssumption DEF Tagged
<1> QED BY <1>1, FS_Subset, FS_CardinalityType, TagAssumption

\* A thread that gets its tag gets one that nobody has.
LEMMA NewTag ==
  ASSUME Types, TagInv, NEW l \in Leader, StartParallelSection(l), tag[l] = 0
  PROVE  TagInv' /\ Tagged' = Tagged \cup {l} /\ tag'[l] # 0
<1> DEFINE C == Cardinality(Tagged)
           g == GetNext
<1>1. /\ C \in Nat /\ TAG_SPACE \in Nat \ {0} /\ IsFiniteSet(Tagged)
      /\ Cardinality(Leader) \in Nat /\ Cardinality(Leader) < TAG_SPACE
  BY TagNumbers, TagAssumption
<1>2. C < Cardinality(Leader)
  <2>1. Tagged \in SUBSET Leader /\ Tagged # Leader
    BY DEF Tagged
  <2> QED BY <2>1, FS_Subset, FiniteAssumption, FS_CardinalityType
<1>3. C < TAG_SPACE - 1 /\ TAG_SPACE - 1 >= 1
  BY <1>1, <1>2
<1>4. g \in 1..(TAG_SPACE - 1) /\ FirstTag \in 1..(TAG_SPACE - 1)
  BY <1>1, <1>3, TagAssumption DEF Types, GetNext, FirstTag
<1>5. Distance(g) = C
  BY <1>3 DEF TagInv
<1>6. tag' = [tag EXCEPT ![l] = g] /\ next_tag' = (g + 1) % TAG_SPACE
  BY DEF StartParallelSection, AfterNext
<1>7. next_tag' = IF g + 1 = TAG_SPACE THEN 0 ELSE g + 1
  BY <1>1, <1>4, <1>6, Wrap
<1>8. tag \in [Leader -> 0..(TAG_SPACE - 1)]
  BY DEF Types
<1>9. tag'[l] = g /\ \A k \in Leader \ {l} : tag'[k] = tag[k]
  BY <1>6, <1>8
<1>10. tag'[l] # 0
  BY <1>9, <1>4
<1>11. Tagged' = Tagged \cup {l} /\ l \notin Tagged
  BY <1>9, <1>10 DEF Tagged
<1>12. Cardinality(Tagged') = C + 1
  BY <1>1, <1>11, OneMore
<1>13. ASSUME C + 1 < TAG_SPACE - 1
       PROVE  Distance(GetNext') = C + 1
  <2>0. GetNext' = IF next_tag' = 0 THEN 1 ELSE next_tag'
    BY DEF GetNext
  <2> HIDE DEF g, C
  <2>1. GetNext' = IF g = TAG_SPACE - 1 THEN 1 ELSE g + 1
    BY <2>0, <1>1, <1>4, <1>7
  <2> QED BY <2>1, <1>1, <1>3, <1>4, <1>5, <1>13 DEF Distance
<1>14. \A k \in Tagged : Distance(tag[k]) < C /\ tag'[k] = tag[k] /\ tag[k] \in 0..(TAG_SPACE - 1)
  BY <1>8, <1>9, <1>11 DEF TagInv, Tagged
<1>15. \A k \in Tagged' : Distance(tag'[k]) < C + 1
  <2> SUFFICES ASSUME NEW k \in Tagged' PROVE Distance(tag'[k]) < C + 1
    OBVIOUS
  <2>1. CASE k = l
    BY <2>1, <1>1, <1>5, <1>9
  <2>2. CASE k \in Tagged
    <3>1. Distance(tag[k]) \in Int
      BY <2>2, <1>1, <1>4, <1>14 DEF Distance
    <3> QED BY <2>2, <3>1, <1>14, <1>1
  <2> QED BY <2>1, <2>2, <1>11
<1>16. \A j, k \in Tagged' : tag'[j] = tag'[k] => j = k
  <2>1. \A k \in Tagged : tag'[k] # tag'[l]
    <3> SUFFICES ASSUME NEW k \in Tagged, tag'[k] = tag'[l] PROVE FALSE
      OBVIOUS
    <3>1. tag[k] = g
      BY <1>9, <1>14
    <3> QED BY <3>1, <1>14, <1>5, <1>1
  <2>2. \A j, k \in Tagged : tag'[j] = tag'[k] => j = k
    BY <1>14 DEF TagInv
  <2> QED BY <2>1, <2>2, <1>11
<1>17. FirstTag' = FirstTag /\ \A t : Distance(t)' = Distance(t)
  BY DEF FirstTag, Distance
<1> HIDE DEF C, g
<1>18. /\ Cardinality(Tagged)' < TAG_SPACE - 1 => Distance(GetNext)' = Cardinality(Tagged)'
       /\ \A k \in Tagged' : Distance(tag[k])' < Cardinality(Tagged)'
  BY <1>12, <1>13, <1>15 DEF Distance, FirstTag
<1> QED BY <1>10, <1>11, <1>16, <1>18 DEF TagInv

\* Every other step leaves the tags alone.
LEMMA TagStep ==
  ASSUME Types, TagInv, [Next]_vars
  PROVE  TagInv' /\ \A l \in Tagged : l \in Tagged' /\ tag'[l] = tag[l]
<1>1. CASE UNCHANGED tag_vars
  BY <1>1 DEF tag_vars, TagInv, Tagged, GetNext, Distance, FirstTag
<1>2. ASSUME NEW l \in Leader, StartParallelSection(l)
      PROVE  TagInv' /\ \A k \in Tagged : k \in Tagged' /\ tag'[k] = tag[k]
  <2>1. CASE tag[l] = 0
    <3>1. TagInv' /\ Tagged' = Tagged \cup {l}
      BY <1>2, <2>1, NewTag
    <3>2. \A k \in Tagged : k # l /\ k \in Leader
      BY <2>1 DEF Tagged
    <3>3. \A k \in Leader \ {l} : tag'[k] = tag[k]
      BY <1>2 DEF StartParallelSection, Types
    <3> QED BY <3>1, <3>2, <3>3
  <2>2. CASE tag[l] # 0
    <3>1. tag' = tag /\ next_tag' = next_tag
      BY <1>2, <2>2 DEF StartParallelSection, Types
    <3> QED BY <3>1, <1>1 DEF tag_vars
  <2> QED BY <2>1, <2>2
<1>3. ASSUME NEW l \in Leader, LeaderStep(l) PROVE UNCHANGED tag_vars
  BY <1>3 DEF LeaderStep, EnterLoop, SummonWorker, LeaveLoop, LoopDrained,
     EndParallelSection, Revoke, SectionDone
<1>4. ASSUME NEW w \in Worker, WorkerStep(w) PROVE UNCHANGED tag_vars
  BY <1>4 DEF WorkerStep, Take, TakeIndex, TestActive, Peek, JoinLoop, ReadLoop,
     QuitLoop, FinishTask
<1>5. ASSUME NEW q \in Scheduled, NEW s \in Slot, Schedule(q, s) PROVE UNCHANGED tag_vars
  BY <1>5 DEF Schedule
<1>6. CASE UNCHANGED vars
  BY <1>1, <1>6 DEF vars
<1> QED BY <1>1, <1>2, <1>3, <1>4, <1>5, <1>6 DEF Next

\* A step that changes at most this slot.
OneSlot(q, s) ==
  \A p \in Worker, r \in Slot : (p # q \/ r # s) => queue'[p][r] = queue[p][r]

\* The tasks of a leader in the queues when one of them goes, or comes.
LEMMA PushedChange ==
  ASSUME NEW q \in Worker, NEW s \in Slot, OneSlot(q, s), NEW k
  PROVE  /\ queue[q][s].from # k /\ queue'[q][s].from # k =>
              Cardinality(Pushed(k)') = Cardinality(Pushed(k))
         /\ queue[q][s].from = k /\ queue'[q][s].from # k =>
              Cardinality(Pushed(k)') = Cardinality(Pushed(k)) - 1
         /\ queue[q][s].from # k /\ queue'[q][s].from = k =>
              Cardinality(Pushed(k)') = Cardinality(Pushed(k)) + 1
<1>2. IsFiniteSet(Pushed(k))
  BY SetsFinite
<1>3. \A x \in Worker \X Slot : x # <<q, s>> => (x \in Pushed(k)' <=> x \in Pushed(k))
  BY DEF Pushed, OneSlot
<1>4. /\ <<q, s>> \in Pushed(k) <=> queue[q][s].from = k
      /\ <<q, s>> \in Pushed(k)' <=> queue'[q][s].from = k
  BY DEF Pushed
<1>5. Pushed(k) \subseteq Worker \X Slot /\ Pushed(k)' \subseteq Worker \X Slot
  BY DEF Pushed
<1>6. ASSUME queue[q][s].from # k /\ queue'[q][s].from # k PROVE Pushed(k)' = Pushed(k)
  BY <1>3, <1>4, <1>5, <1>6
<1>7. ASSUME queue[q][s].from = k /\ queue'[q][s].from # k PROVE Pushed(k)' = Pushed(k) \ {<<q, s>>}
  BY <1>3, <1>4, <1>5, <1>7
<1>8. ASSUME queue[q][s].from # k /\ queue'[q][s].from = k PROVE Pushed(k)' = Pushed(k) \cup {<<q, s>>}
  BY <1>3, <1>4, <1>5, <1>8
<1> QED BY <1>2, <1>4, <1>6, <1>7, <1>8, OneMore, OneLess

\* Every slot holds what it may hold.
LEMMA QueueStep ==
  ASSUME Types, TagInv, QueueInv, \A l \in Leader : LeaderInv(l), [Next]_vars
  PROVE  QueueInv'
<1>1. \A l \in Tagged : l \in Tagged' /\ tag'[l] = tag[l]
  BY TagStep
<1>2. ASSUME NEW q \in Worker, NEW s \in Slot, queue'[q][s] = queue[q][s]
      PROVE  \/ queue'[q][s] \in {Empty, Plain}
             \/ \E l \in Tagged' : queue'[q][s] = [from |-> l, tag |-> tag'[l]]
  BY <1>1, <1>2 DEF QueueInv
<1>3. CASE queue' = queue
  BY <1>2, <1>3 DEF QueueInv, Empty, Plain
<1>4. ASSUME NEW q \in Worker, NEW s \in Slot, NEW t, queue' = [queue EXCEPT ![q][s] = t],
             t \in {Empty, Plain} \/ \E l \in Tagged : t = [from |-> l, tag |-> tag[l]]
      PROVE  QueueInv'
  <2>1. /\ queue'[q][s] = t
        /\ \A p \in Worker, r \in Slot : (p # q \/ r # s) => queue'[p][r] = queue[p][r]
    BY <1>4 DEF Types
  <2>2. ASSUME NEW p \in Worker, NEW r \in Slot
        PROVE  \/ queue'[p][r] \in {Empty, Plain}
               \/ \E l \in Tagged' : queue'[p][r] = [from |-> l, tag |-> tag'[l]]
    <3>1. CASE p = q /\ r = s
      BY <3>1, <2>1, <1>1, <1>4
    <3>2. CASE p # q \/ r # s
      BY <3>2, <2>1, <1>2
    <3> QED BY <3>1, <3>2
  <2> QED BY <2>2 DEF QueueInv, Empty, Plain
<1>5. ASSUME NEW l \in Leader, StartParallelSection(l) \/ LeaderStep(l) PROVE QueueInv'
  <2>1. CASE SummonWorker(l)
    <3>1. l \in Tagged
      BY <2>1 DEF SummonWorker, At, LeaderInv, Tagged
    <3>2. \/ queue' = queue
          \/ \E q \in Worker, s \in Slot :
               queue' = [queue EXCEPT ![q][s] = [from |-> l, tag |-> tag[l]]]
      BY <2>1 DEF SummonWorker
    <3> QED BY <3>1, <3>2, <1>3, <1>4
  <2>2. CASE Revoke(l)
    <3>1. tasks[l] \in Seq(Worker \X Slot) /\ tasks[l] # <<>>
      BY <2>2 DEF Revoke, Types
    <3>2. tasks[l][Len(tasks[l])] \in Worker \X Slot
      BY <3>1
    <3>3. PICK q \in Worker, s \in Slot : tasks[l][Len(tasks[l])] = <<q, s>>
      BY <3>2
    <3>4. queue' = queue \/ queue' = [queue EXCEPT ![q][s] = Empty]
      BY <2>2, <3>3 DEF Revoke
    <3> QED BY <3>4, <1>3, <1>4
  <2>3. CASE ~SummonWorker(l) /\ ~Revoke(l)
    BY <1>5, <2>3, <1>3 DEF StartParallelSection, LeaderStep, EnterLoop, LeaveLoop,
       LoopDrained, EndParallelSection, SectionDone
  <2> QED BY <2>1, <2>2, <2>3
<1>6. ASSUME NEW w \in Worker, WorkerStep(w) PROVE QueueInv'
  <2>1. ASSUME NEW q \in Worker, NEW s \in Slot, Take(w, q, s) PROVE QueueInv'
    BY <2>1, <1>4 DEF Take
  <2>2. CASE TakeIndex(w) \/ TestActive(w) \/ Peek(w) \/ JoinLoop(w) \/ ReadLoop(w)
             \/ QuitLoop(w) \/ FinishTask(w)
    BY <2>2, <1>3 DEF TakeIndex, TestActive, Peek, JoinLoop, ReadLoop, QuitLoop, FinishTask
  <2> QED BY <1>6, <2>1, <2>2 DEF WorkerStep
<1>7. ASSUME NEW q \in Scheduled, NEW s \in Slot, Schedule(q, s) PROVE QueueInv'
  BY <1>7, <1>4, ScheduledAssumption DEF Schedule
<1>8. CASE UNCHANGED vars
  BY <1>8, <1>3 DEF vars
<1> QED BY <1>5, <1>6, <1>7, <1>8 DEF Next

-----------------------------------------------------------------------------
(***************************************************************************)
(* The leaders' books.                                                     *)
(***************************************************************************)

\* What a leader has written down, and what there is to count.
Books(l) == <<lpc[l], tasks[l], loops[l], n[l], left[l], to_wait_for[l], worker_idx[l],
              tasks_finished[l], current_loop[l], workers_in_loop[l]>>
Counts(l) == <<Cardinality(Pushed(l)), Cardinality(InSection(l)),
               Cardinality(Indexed(l)), Cardinality(InLoop(l))>>

\* Books that nobody touches stay in order.
LEMMA BooksKept ==
  ASSUME NEW k \in Leader, LeaderInv(k), Books(k)' = Books(k), Counts(k)' = Counts(k),
         tag[k] # 0 => tag'[k] # 0
  PROVE  LeaderInv(k)'
<1>1. /\ lpc'[k] = lpc[k] /\ tasks'[k] = tasks[k] /\ loops'[k] = loops[k] /\ n'[k] = n[k]
      /\ left'[k] = left[k] /\ to_wait_for'[k] = to_wait_for[k]
      /\ worker_idx'[k] = worker_idx[k] /\ tasks_finished'[k] = tasks_finished[k]
      /\ current_loop'[k] = current_loop[k] /\ workers_in_loop'[k] = workers_in_loop[k]
  BY DEF Books
<1>2. /\ Cardinality(Pushed(k))' = Cardinality(Pushed(k))
      /\ Cardinality(InSection(k))' = Cardinality(InSection(k))
      /\ Cardinality(Indexed(k))' = Cardinality(Indexed(k))
      /\ Cardinality(InLoop(k))' = Cardinality(InLoop(k))
  BY DEF Counts
<1>3. Total(k)' = Total(k)
  BY <1>1, <1>2 DEF Total
<1> QED BY <1>1, <1>2, <1>3 DEF LeaderInv

\* Who counts what: only the queues, the workers' jobs and places matter.
LEMMA CountsKept ==
  ASSUME queue' = queue, wpc' = wpc, job' = job, NEW k
  PROVE  Counts(k)' = Counts(k)
<1>1. /\ Pushed(k)' = Pushed(k) /\ InSection(k)' = InSection(k)
      /\ Indexed(k)' = Indexed(k) /\ InLoop(k)' = InLoop(k)
  BY DEF Pushed, InSection, Indexed, InLoop
<1> QED BY <1>1 DEF Counts

\* The tags of a leader do not go away.
LEMMA TagKept ==
  ASSUME Types, TagInv, [Next]_vars, NEW k \in Leader, tag[k] # 0
  PROVE  tag'[k] # 0
  BY TagStep DEF Tagged

\* The counts of a leader, named.
LEMMA CountsNamed ==
  ASSUME NEW k, Counts(k)' = Counts(k)
  PROVE  /\ Cardinality(Pushed(k))' = Cardinality(Pushed(k))
         /\ Cardinality(InSection(k))' = Cardinality(InSection(k))
         /\ Cardinality(Indexed(k))' = Cardinality(Indexed(k))
         /\ Cardinality(InLoop(k))' = Cardinality(InLoop(k))
         /\ tasks_finished'[k] = tasks_finished[k] => Total(k)' = Total(k)
  BY DEF Counts, Total

\* When the leader waits no more, all its tasks have been revoked or finished.
LEMMA AllFinished ==
  ASSUME IInv, NEW l \in Leader, SectionDone(l)
  PROVE  /\ Cardinality(Pushed(l)) = 0 /\ Cardinality(InSection(l)) = 0
         /\ Cardinality(Indexed(l)) = 0 /\ InSection(l) = {} /\ Pushed(l) = {}
<1>1. /\ Cardinality(Pushed(l)) \in Nat /\ Cardinality(InSection(l)) \in Nat
      /\ Cardinality(Indexed(l)) \in Nat
      /\ Cardinality(Indexed(l)) <= Cardinality(InSection(l))
      /\ IsFiniteSet(InSection(l)) /\ IsFiniteSet(Pushed(l))
  BY SetsFinite
<1>2. Total(l) = to_wait_for[l] /\ tasks_finished[l] >= to_wait_for[l]
  BY DEF IInv, LeaderInv, SectionDone, At
<1>3. tasks_finished[l] \in Nat /\ to_wait_for[l] \in Nat
  BY DEF IInv, Types
<1>4. /\ Cardinality(Pushed(l)) = 0 /\ Cardinality(InSection(l)) = 0
      /\ Cardinality(Indexed(l)) = 0
  BY <1>1, <1>2, <1>3 DEF Total
<1> QED BY <1>1, <1>4, FS_EmptySet

\* The steps of a leader that leave the queues alone keep its books in order.
LEMMA QuietBooks ==
  ASSUME IInv, Next, NEW l \in Leader,
         \/ StartParallelSection(l) \/ EnterLoop(l) \/ LeaveLoop(l) \/ LoopDrained(l)
         \/ EndParallelSection(l) \/ SectionDone(l)
  PROVE  \A k \in Leader : LeaderInv(k)'
<1>0. Types /\ TagInv /\ LeaderInv(l)
  BY DEF IInv
<1>1. queue' = queue /\ UNCHANGED worker_vars
  BY DEF StartParallelSection, EnterLoop, LeaveLoop, LoopDrained, EndParallelSection,
     SectionDone
<1>2. \A k : Counts(k)' = Counts(k)
  BY <1>1, CountsKept DEF worker_vars
<1>3. ASSUME NEW k \in Leader, k # l PROVE Books(k)' = Books(k)
  <2>1. lpc'[k] = lpc[k] /\ loops'[k] = loops[k] /\ n'[k] = n[k] /\ left'[k] = left[k]
    BY <1>3, <1>0 DEF StartParallelSection, EnterLoop, LeaveLoop, LoopDrained,
       EndParallelSection, SectionDone, Goto, Types
  <2>2. /\ to_wait_for'[k] = to_wait_for[k] /\ worker_idx'[k] = worker_idx[k]
        /\ tasks_finished'[k] = tasks_finished[k] /\ current_loop'[k] = current_loop[k]
    BY <1>3, <1>0 DEF StartParallelSection, EnterLoop, LeaveLoop, LoopDrained,
       EndParallelSection, SectionDone, Goto, section_vars, Types
  <2>3. workers_in_loop' = workers_in_loop /\ tasks' = tasks
    BY DEF StartParallelSection, EnterLoop, LeaveLoop, LoopDrained,
       EndParallelSection, SectionDone, section_vars
  <2> QED BY <2>1, <2>2, <2>3 DEF Books
<1>4. \A k \in Leader : tag[k] # 0 => tag'[k] # 0
  BY <1>0, TagKept
<1>5. ASSUME NEW k \in Leader, k # l PROVE LeaderInv(k)'
  BY <1>2, <1>3, <1>4, <1>5, BooksKept DEF IInv
<1>6. /\ Cardinality(Pushed(l))' = Cardinality(Pushed(l))
      /\ Cardinality(InSection(l))' = Cardinality(InSection(l))
      /\ Cardinality(Indexed(l))' = Cardinality(Indexed(l))
      /\ Cardinality(InLoop(l))' = Cardinality(InLoop(l))
      /\ tasks_finished'[l] = tasks_finished[l] => Total(l)' = Total(l)
  BY <1>2, CountsNamed
<1>7. CASE StartParallelSection(l)
  <2>1. /\ lpc[l] = "idle" /\ lpc'[l] = "section" /\ worker_idx' = worker_idx
        /\ tasks_finished' = tasks_finished
        /\ current_loop' = current_loop /\ workers_in_loop' = workers_in_loop
        /\ tasks' = tasks /\ loops' = loops /\ n' = n /\ left' = left
    BY <1>7, <1>0 DEF StartParallelSection, At, Goto, Types
  <2>2. Total(l)' = Total(l)
    BY <2>1, <1>6
  <2>3. tag'[l] # 0
    <3>1. CASE tag[l] = 0
      BY <3>1, <1>0, <1>7, NewTag
    <3>2. CASE tag[l] # 0
      BY <3>2, <1>4
    <3> QED BY <3>1, <3>2
  <2>4. Len(<<>>) = 0
    OBVIOUS
  <2>5. LeaderInv(l)'
    BY <1>0, <1>6, <2>1, <2>2, <2>3, <2>4 DEF LeaderInv
  <2> QED BY <2>5, <1>5
<1>8. CASE EnterLoop(l)
  <2> DEFINE dop == Dop[l][loops[l] + 1]
  <2>1. /\ lpc[l] = "section" /\ lpc'[l] = "summon" /\ worker_idx' = worker_idx
        /\ tasks_finished' = tasks_finished /\ workers_in_loop' = workers_in_loop
        /\ tasks' = tasks /\ tag' = tag /\ loops[l] < Len(Dop[l])
        /\ loops'[l] = loops[l] + 1 /\ n'[l] = dop /\ left'[l] = ExtraNeeded(l, dop)
        /\ current_loop'[l] = IF l \in SingleLoop THEN 0 ELSE loops[l] + 1
        /\ loops[l] \in Nat
    BY <1>8, <1>0 DEF EnterLoop, At, Goto, Types, tag_vars
  <2>2. Total(l)' = Total(l)
    BY <2>1, <1>6
  <2>3. dop \in Nat \ {0, 1}
    <3>1. Dop[l] \in Seq(Nat \ {0, 1}) /\ loops[l] + 1 \in 1..Len(Dop[l])
      BY <2>1, DopAssumption
    <3> QED BY <3>1
  <2>4. ASSUME l \in SingleLoop PROVE Total(l) + ExtraNeeded(l, dop) + 1 <= dop
    <3>1. loops[l] = 0
      BY <2>4, <2>1, DopAssumption
    <3>2. Total(l) = 0 /\ Total(l) = Len(tasks[l])
      BY <2>1, <2>4, <3>1, <1>0 DEF LeaderInv
    <3>3. ExtraNeeded(l, dop) = dop - 1
      BY <2>3, <3>2 DEF ExtraNeeded
    <3> QED BY <2>3, <3>2, <3>3
  <2> HIDE DEF dop
  <2>5. LeaderInv(l)'
    BY <1>0, <1>6, <2>1, <2>2, <2>4 DEF LeaderInv
  <2> QED BY <2>5, <1>5
<1>9. CASE LeaveLoop(l)
  <2>1. /\ lpc[l] = "summon" /\ lpc'[l] = IF l \in SingleLoop THEN "section" ELSE "drain"
        /\ worker_idx' = worker_idx
        /\ tasks_finished' = tasks_finished /\ workers_in_loop' = workers_in_loop
        /\ tasks' = tasks /\ tag' = tag /\ left' = left /\ loops' = loops /\ n' = n
        /\ left[l] = 0 /\ current_loop'[l] = 0
    BY <1>9, <1>0 DEF LeaveLoop, At, Goto, Types, tag_vars
  <2>2. Total(l)' = Total(l)
    BY <2>1, <1>6
  <2>3. LeaderInv(l)'
    BY <1>0, <1>6, <2>1, <2>2 DEF LeaderInv
  <2> QED BY <2>3, <1>5
<1>10. CASE LoopDrained(l)
  <2>1. /\ lpc[l] = "drain" /\ lpc'[l] = "section" /\ worker_idx' = worker_idx
        /\ tasks_finished' = tasks_finished /\ workers_in_loop' = workers_in_loop
        /\ tasks' = tasks /\ tag' = tag /\ left' = left /\ loops' = loops /\ n' = n
        /\ current_loop' = current_loop
    BY <1>10, <1>0 DEF LoopDrained, At, Goto, Types, tag_vars, section_vars
  <2>2. Total(l)' = Total(l)
    BY <2>1, <1>6
  <2>3. LeaderInv(l)'
    BY <1>0, <1>6, <2>1, <2>2 DEF LeaderInv
  <2> QED BY <2>3, <1>5
<1>11. CASE EndParallelSection(l)
  <2>1. /\ lpc[l] = "section" /\ lpc'[l] = "revoke" /\ worker_idx' = worker_idx
        /\ tasks_finished' = tasks_finished /\ workers_in_loop' = workers_in_loop
        /\ tasks' = tasks /\ tag' = tag /\ left' = left /\ loops' = loops /\ n' = n
        /\ current_loop' = current_loop /\ to_wait_for'[l] = Len(tasks[l])
    BY <1>11, <1>0 DEF EndParallelSection, At, Goto, Types, tag_vars
  <2>2. Total(l)' = Total(l)
    BY <2>1, <1>6
  <2>3. LeaderInv(l)'
    BY <1>0, <1>6, <2>1, <2>2 DEF LeaderInv
  <2> QED BY <2>3, <1>5
<1>12. CASE SectionDone(l)
  <2>1. /\ lpc[l] = "revoke" /\ lpc'[l] = "idle" /\ worker_idx'[l] = 0
        /\ tasks_finished'[l] = 0 /\ workers_in_loop' = workers_in_loop
        /\ tasks'[l] = <<>> /\ tag' = tag /\ left' = left /\ loops'[l] = 0
        /\ current_loop' = current_loop
    BY <1>12, <1>0 DEF SectionDone, At, Goto, Types, tag_vars
  <2>2. /\ Cardinality(Pushed(l)) = 0 /\ Cardinality(InSection(l)) = 0
        /\ Cardinality(Indexed(l)) = 0
    BY <1>12, AllFinished
  <2>3. Total(l)' = 0
    BY <2>1, <2>2, <1>6 DEF Total
  <2>4. Len(<<>>) = 0
    OBVIOUS
  <2>5. LeaderInv(l)'
    BY <1>0, <1>6, <2>1, <2>2, <2>3, <2>4 DEF LeaderInv
  <2> QED BY <2>5, <1>5
<1> QED BY <1>7, <1>8, <1>9, <1>10, <1>11, <1>12

\* A set that differs in one element at most.
LEMMA SetChange ==
  ASSUME NEW S, NEW T, NEW w, IsFiniteSet(S), \A v : v # w => (v \in T <=> v \in S)
  PROVE  /\ (w \in S <=> w \in T) => Cardinality(T) = Cardinality(S)
         /\ w \notin S /\ w \in T => Cardinality(T) = Cardinality(S) + 1
         /\ w \in S /\ w \notin T => Cardinality(T) = Cardinality(S) - 1
<1>1. ASSUME w \in S <=> w \in T PROVE T = S
  BY <1>1
<1>2. ASSUME w \notin S /\ w \in T PROVE T = S \cup {w}
  BY <1>2
<1>3. ASSUME w \in S /\ w \notin T PROVE T = S \ {w}
  BY <1>3
<1> QED BY <1>1, <1>2, <1>3, OneMore, OneLess

\* A step that changes the job or the place of one worker at most.
OneWorker(w) == \A v \in Worker : v # w => job'[v] = job[v] /\ wpc'[v] = wpc[v]

\* What such a step does to the counts of a section.
LEMMA WorkerCounts ==
  ASSUME NEW w \in Worker, OneWorker(w), NEW k
  PROVE  /\ (w \in InSection(k) <=> w \in InSection(k)') =>
              Cardinality(InSection(k)') = Cardinality(InSection(k))
         /\ w \notin InSection(k) /\ w \in InSection(k)' =>
              Cardinality(InSection(k)') = Cardinality(InSection(k)) + 1
         /\ w \in InSection(k) /\ w \notin InSection(k)' =>
              Cardinality(InSection(k)') = Cardinality(InSection(k)) - 1
         /\ (w \in Indexed(k) <=> w \in Indexed(k)') =>
              Cardinality(Indexed(k)') = Cardinality(Indexed(k))
         /\ w \notin Indexed(k) /\ w \in Indexed(k)' =>
              Cardinality(Indexed(k)') = Cardinality(Indexed(k)) + 1
         /\ w \in Indexed(k) /\ w \notin Indexed(k)' =>
              Cardinality(Indexed(k)') = Cardinality(Indexed(k)) - 1
         /\ (w \in InLoop(k) <=> w \in InLoop(k)') =>
              Cardinality(InLoop(k)') = Cardinality(InLoop(k))
         /\ w \notin InLoop(k) /\ w \in InLoop(k)' =>
              Cardinality(InLoop(k)') = Cardinality(InLoop(k)) + 1
         /\ w \in InLoop(k) /\ w \notin InLoop(k)' =>
              Cardinality(InLoop(k)') = Cardinality(InLoop(k)) - 1
<1>1. IsFiniteSet(InSection(k)) /\ IsFiniteSet(Indexed(k)) /\ IsFiniteSet(InLoop(k))
  BY SetsFinite
<1>2. \A v : v # w => (v \in InSection(k)' <=> v \in InSection(k))
  BY DEF OneWorker, InSection
<1>3. \A v : v # w => (v \in Indexed(k)' <=> v \in Indexed(k))
  BY DEF OneWorker, Indexed
<1>4. \A v : v # w => (v \in InLoop(k)' <=> v \in InLoop(k))
  BY DEF OneWorker, InLoop
<1>5. /\ (w \in InSection(k) <=> w \in InSection(k)') =>
           Cardinality(InSection(k)') = Cardinality(InSection(k))
      /\ w \notin InSection(k) /\ w \in InSection(k)' =>
           Cardinality(InSection(k)') = Cardinality(InSection(k)) + 1
      /\ w \in InSection(k) /\ w \notin InSection(k)' =>
           Cardinality(InSection(k)') = Cardinality(InSection(k)) - 1
  BY <1>1, <1>2, SetChange
<1>6. /\ (w \in Indexed(k) <=> w \in Indexed(k)') =>
           Cardinality(Indexed(k)') = Cardinality(Indexed(k))
      /\ w \notin Indexed(k) /\ w \in Indexed(k)' =>
           Cardinality(Indexed(k)') = Cardinality(Indexed(k)) + 1
      /\ w \in Indexed(k) /\ w \notin Indexed(k)' =>
           Cardinality(Indexed(k)') = Cardinality(Indexed(k)) - 1
  BY <1>1, <1>3, SetChange
<1>7. /\ (w \in InLoop(k) <=> w \in InLoop(k)') =>
           Cardinality(InLoop(k)') = Cardinality(InLoop(k))
      /\ w \notin InLoop(k) /\ w \in InLoop(k)' =>
           Cardinality(InLoop(k)') = Cardinality(InLoop(k)) + 1
      /\ w \in InLoop(k) /\ w \notin InLoop(k)' =>
           Cardinality(InLoop(k)') = Cardinality(InLoop(k)) - 1
  BY <1>1, <1>4, SetChange
<1> QED BY <1>5, <1>6, <1>7

\* Taking the last task off a leader's list.
LEMMA LastTask ==
  ASSUME NEW S, NEW s \in Seq(S), s # <<>>
  PROVE  /\ s[Len(s)] \in S /\ Len(s) \in Nat \ {0}
         /\ SubSeq(s, 1, Len(s) - 1) \in Seq(S)
         /\ Len(SubSeq(s, 1, Len(s) - 1)) = Len(s) - 1
<1>1. Len(s) \in Nat \ {0} /\ \A i \in 1..Len(s) : s[i] \in S
  BY EmptySeq, ElementOfSeq
<1>2. SubSeq(s, 1, Len(s) - 1) \in Seq(S)
  OBVIOUS
<1>3. Len(SubSeq(s, 1, Len(s) - 1)) = Len(s) - 1
  <2> DEFINE m == 1
             k == Len(s) - 1
  <2>1. m = 1 /\ m \in Int /\ k \in Nat /\ \A i \in m..k : s[i] \in S
    BY <1>1
  <2> HIDE DEF m, k
  <2>2. Len(SubSeq(s, m, k)) = IF m <= k THEN k - m + 1 ELSE 0
    BY <2>1, SubSeqProperties
  <2>3. Len(SubSeq(s, m, k)) = k
    BY <2>1, <2>2
  <2> QED BY <2>3 DEF m, k
<1> QED BY <1>1, <1>2, <1>3

\* The tag names the leader: a slot with a leader's tag holds a task of it.
LEMMA TagNamesLeader ==
  ASSUME IInv, NEW l \in Leader, lpc[l] # "idle", NEW q \in Worker, NEW s \in Slot,
         queue[q][s].tag = tag[l]
  PROVE  queue[q][s].from = l
<1>1. tag[l] # 0 /\ l \in Tagged /\ tag[l] # -1
  BY TagAssumption DEF IInv, LeaderInv, Tagged, Types
<1>2. PICK k \in Tagged : queue[q][s] = [from |-> k, tag |-> tag[k]]
  BY <1>1 DEF IInv, QueueInv, Empty, Plain
<1> QED BY <1>1, <1>2 DEF IInv, TagInv

\* Workers that stay where they are count as before.
LEMMA StillWorkers ==
  ASSUME wpc' = wpc, job' = job, NEW k
  PROVE  /\ Cardinality(InSection(k)') = Cardinality(InSection(k))
         /\ Cardinality(Indexed(k)') = Cardinality(Indexed(k))
         /\ Cardinality(InLoop(k)') = Cardinality(InLoop(k))
  BY DEF InSection, Indexed, InLoop

\* A pushed task is one more to account for.
LEMMA SummonBooks ==
  ASSUME IInv, Next, NEW l \in Leader, SummonWorker(l)
  PROVE  \A k \in Leader : LeaderInv(k)'
<1>0. Types /\ TagInv /\ QueueInv /\ LeaderInv(l) /\ Nobody # l
  BY LeaderAssumption DEF IInv
<1>1. wpc' = wpc /\ job' = job
  BY DEF SummonWorker, worker_vars
<1>2. \A k : /\ Cardinality(InSection(k)') = Cardinality(InSection(k))
             /\ Cardinality(Indexed(k)') = Cardinality(Indexed(k))
             /\ Cardinality(InLoop(k)') = Cardinality(InLoop(k))
  BY <1>1, StillWorkers
<1>3. /\ lpc' = lpc /\ loops' = loops /\ n' = n /\ to_wait_for' = to_wait_for
      /\ worker_idx' = worker_idx /\ tasks_finished' = tasks_finished
      /\ current_loop' = current_loop /\ workers_in_loop' = workers_in_loop
      /\ tag' = tag /\ lpc[l] = "summon"
  BY DEF SummonWorker, section_vars, tag_vars, At
<1>4. /\ left'[l] = left[l] - 1 /\ left[l] \in Nat \ {0}
      /\ \A k \in Leader \ {l} : left'[k] = left[k]
  BY <1>0 DEF SummonWorker, Types
<1>5. /\ \A k \in Leader \ {l} :
           Cardinality(Pushed(k)') = Cardinality(Pushed(k)) /\ tasks'[k] = tasks[k]
      /\ \/ Cardinality(Pushed(l)') = Cardinality(Pushed(l)) /\ tasks'[l] = tasks[l]
         \/ /\ Cardinality(Pushed(l)') = Cardinality(Pushed(l)) + 1
            /\ Len(tasks'[l]) = Len(tasks[l]) + 1
  <2>1. CASE UNCHANGED <<queue, tasks>>
    BY <2>1 DEF Pushed
  <2>2. ASSUME NEW q \in Worker, NEW s \in Slot, queue[q][s] = Empty,
               queue' = [queue EXCEPT ![q][s] = [from |-> l, tag |-> tag[l]]],
               tasks' = [tasks EXCEPT ![l] = Append(@, <<q, s>>)]
        PROVE  /\ \A k \in Leader \ {l} :
                    Cardinality(Pushed(k)') = Cardinality(Pushed(k)) /\ tasks'[k] = tasks[k]
               /\ Cardinality(Pushed(l)') = Cardinality(Pushed(l)) + 1
               /\ Len(tasks'[l]) = Len(tasks[l]) + 1
    <3>1. OneSlot(q, s) /\ queue'[q][s].from = l
      BY <2>2, <1>0 DEF OneSlot, Types
    <3>2. queue[q][s].from = Nobody
      BY <2>2 DEF Empty
    <3>3. \A k \in Leader \ {l} : Cardinality(Pushed(k)') = Cardinality(Pushed(k))
      BY <3>1, <3>2, PushedChange, LeaderAssumption
    <3>4. Cardinality(Pushed(l)') = Cardinality(Pushed(l)) + 1
      BY <3>1, <3>2, PushedChange, <1>0
    <3>5. tasks \in [Leader -> Seq(Worker \X Slot)]
      BY <1>0 DEF Types
    <3>6. tasks'[l] = Append(tasks[l], <<q, s>>) /\ \A k \in Leader \ {l} : tasks'[k] = tasks[k]
      BY <2>2, <3>5
    <3>7. Len(tasks'[l]) = Len(tasks[l]) + 1
      BY <3>5, <3>6
    <3> QED BY <3>3, <3>4, <3>6, <3>7
  <2> QED BY <2>1, <2>2 DEF SummonWorker
<1>6. ASSUME NEW k \in Leader, k # l PROVE LeaderInv(k)'
  <2>1. Books(k)' = Books(k) /\ Counts(k)' = Counts(k)
    BY <1>2, <1>3, <1>4, <1>5, <1>6 DEF Books, Counts
  <2> QED BY <2>1, <1>3, BooksKept DEF IInv
<1>7. /\ Cardinality(Pushed(l)) \in Nat /\ Cardinality(InSection(l)) \in Nat
      /\ tasks_finished[l] \in Nat /\ Len(tasks[l]) \in Nat /\ n[l] \in Nat
  BY <1>0, SetsFinite DEF Types
<1>8. \/ Total(l)' = Total(l) /\ tasks'[l] = tasks[l]
      \/ Total(l)' = Total(l) + 1 /\ Len(tasks'[l]) = Len(tasks[l]) + 1
  BY <1>2, <1>3, <1>5, <1>7 DEF Total
<1>9. Total(l) \in Nat
  BY <1>7 DEF Total
<1>10. LeaderInv(l)'
  <2>1. Total(l)' = Len(tasks'[l])
    BY <1>0, <1>3, <1>8 DEF LeaderInv
  <2>2. ASSUME l \in SingleLoop PROVE Total(l)' + left'[l] + 1 <= n'[l]
    <3>1. Total(l) + left[l] + 1 <= n[l]
      BY <2>2, <1>0, <1>3 DEF LeaderInv
    <3> QED BY <3>1, <1>3, <1>4, <1>7, <1>8, <1>9
  <2>3. loops[l] # 0
    BY <1>0, <1>3 DEF LeaderInv
  <2> QED BY <2>1, <2>2, <2>3, <1>0, <1>2, <1>3 DEF LeaderInv
<1> QED BY <1>6, <1>10

\* A revoked task is one that the leader need not wait for.
LEMMA RevokeBooks ==
  ASSUME IInv, Next, NEW l \in Leader, Revoke(l)
  PROVE  (\A k \in Leader : LeaderInv(k)') /\ to_wait_for' \in [Leader -> Nat]
<1>0. Types /\ TagInv /\ QueueInv /\ LeaderInv(l) /\ Nobody # l
  BY LeaderAssumption DEF IInv
<1>1. wpc' = wpc /\ job' = job
  BY DEF Revoke, worker_vars
<1>2. \A k : /\ Cardinality(InSection(k)') = Cardinality(InSection(k))
             /\ Cardinality(Indexed(k)') = Cardinality(Indexed(k))
             /\ Cardinality(InLoop(k)') = Cardinality(InLoop(k))
  BY <1>1, StillWorkers
<1>3. /\ lpc' = lpc /\ loops' = loops /\ n' = n /\ left' = left
      /\ worker_idx' = worker_idx /\ tasks_finished' = tasks_finished
      /\ current_loop' = current_loop /\ workers_in_loop' = workers_in_loop
      /\ tag' = tag /\ lpc[l] = "revoke"
  BY DEF Revoke, section_vars, tag_vars, At
<1>4. tasks \in [Leader -> Seq(Worker \X Slot)] /\ to_wait_for \in [Leader -> Nat]
  BY <1>0 DEF Types
<1>5. \A k \in Leader \ {l} : tasks'[k] = tasks[k]
  BY <1>4 DEF Revoke
<1>6. PICK q \in Worker, s \in Slot : tasks[l][Len(tasks[l])] = <<q, s>>
  <2>1. tasks[l] \in Seq(Worker \X Slot) /\ tasks[l] # <<>>
    BY <1>4 DEF Revoke
  <2>2. tasks[l][Len(tasks[l])] \in Worker \X Slot
    BY <2>1, LastTask
  <2> QED BY <2>2
<1>7. /\ Cardinality(Pushed(l)) \in Nat /\ Cardinality(InSection(l)) \in Nat
      /\ tasks_finished[l] \in Nat /\ n[l] \in Nat /\ left[l] \in Nat
      /\ IsFiniteSet(Pushed(l))
  BY <1>0, SetsFinite DEF Types
<1>8. Total(l) \in Nat /\ Total(l) = to_wait_for[l]
  BY <1>0, <1>3, <1>7 DEF Total, LeaderInv
<1>9. CASE queue[q][s].tag = tag[l]
  <2>1. queue' = [queue EXCEPT ![q][s] = Empty]
        /\ to_wait_for' = [to_wait_for EXCEPT ![l] = @ - 1]
    BY <1>6, <1>9 DEF Revoke
  <2>2. OneSlot(q, s) /\ queue'[q][s].from = Nobody
    BY <2>1, <1>0 DEF OneSlot, Types, Empty
  <2>3. queue[q][s].from = l
    BY <1>3, <1>9, TagNamesLeader
  <2>4. Cardinality(Pushed(l)') = Cardinality(Pushed(l)) - 1
    BY <2>2, <2>3, PushedChange, <1>0
  <2>5. \A k \in Leader \ {l} : Cardinality(Pushed(k)') = Cardinality(Pushed(k))
    BY <2>2, <2>3, PushedChange, LeaderAssumption
  <2>6. Cardinality(Pushed(l)) >= 1
    <3>1. <<q, s>> \in Pushed(l)
      BY <2>3 DEF Pushed
    <3>2. Cardinality(Pushed(l)) # 0
      BY <3>1, <1>7, FS_EmptySet
    <3> QED BY <3>2, <1>7
  <2>7. /\ to_wait_for'[l] = to_wait_for[l] - 1
        /\ \A k \in Leader \ {l} : to_wait_for'[k] = to_wait_for[k]
    BY <2>1, <1>4
  <2>8. to_wait_for[l] >= 1
    BY <1>7, <1>8, <2>6 DEF Total
  <2>9. to_wait_for' \in [Leader -> Nat]
    BY <2>1, <2>8, <1>4
  <2>10. Total(l)' = Total(l) - 1
    BY <1>2, <1>3, <1>7, <2>4 DEF Total
  <2>11. ASSUME NEW k \in Leader, k # l PROVE LeaderInv(k)'
    <3>1. Books(k)' = Books(k) /\ Counts(k)' = Counts(k)
      BY <1>2, <1>3, <1>5, <2>5, <2>7, <2>11 DEF Books, Counts
    <3> QED BY <3>1, <1>3, BooksKept DEF IInv
  <2>12. LeaderInv(l)'
    <3>1. Total(l)' = to_wait_for'[l]
      BY <2>7, <2>10, <1>8
    <3>2. ASSUME l \in SingleLoop, loops[l] # 0 PROVE Total(l)' + left'[l] + 1 <= n'[l]
      <4>1. Total(l) + left[l] + 1 <= n[l]
        BY <3>2, <1>0 DEF LeaderInv
      <4> QED BY <4>1, <1>3, <1>7, <1>8, <2>10
    <3>3. ASSUME l \in SingleLoop PROVE loops[l] # 0
      BY <3>3, <1>0, <1>8, <2>8 DEF LeaderInv
    <3> QED BY <3>1, <3>2, <3>3, <1>0, <1>2, <1>3 DEF LeaderInv
  <2> QED BY <2>9, <2>11, <2>12
<1>10. CASE queue[q][s].tag # tag[l]
  <2>1. queue' = queue /\ to_wait_for' = to_wait_for
    BY <1>6, <1>10 DEF Revoke
  <2>2. \A k : Cardinality(Pushed(k)') = Cardinality(Pushed(k))
    BY <2>1 DEF Pushed
  <2>3. ASSUME NEW k \in Leader, k # l PROVE LeaderInv(k)'
    <3>1. Books(k)' = Books(k) /\ Counts(k)' = Counts(k)
      BY <1>2, <1>3, <1>5, <2>1, <2>2, <2>3 DEF Books, Counts
    <3> QED BY <3>1, <1>3, BooksKept DEF IInv
  <2>4. Total(l)' = Total(l)
    BY <1>2, <1>3, <2>2 DEF Total
  <2>5. LeaderInv(l)'
    BY <2>1, <2>4, <1>0, <1>2, <1>3 DEF LeaderInv
  <2> QED BY <2>1, <2>3, <2>5, <1>4
<1> QED BY <1>9, <1>10

\* A task of Schedule is nobody's task.
LEMMA ScheduleBooks ==
  ASSUME IInv, NEW q \in Worker, NEW s \in Slot, Schedule(q, s)
  PROVE  \A k \in Leader : LeaderInv(k)'
<1>1. OneSlot(q, s) /\ queue'[q][s].from = Nobody /\ queue[q][s].from = Nobody
  BY DEF Schedule, OneSlot, IInv, Types, Empty, Plain
<1>2. \A k \in Leader : Cardinality(Pushed(k)') = Cardinality(Pushed(k))
  BY <1>1, PushedChange, LeaderAssumption
<1>3. wpc' = wpc /\ job' = job /\ UNCHANGED <<tag_vars, section_vars, leader_vars>>
  BY DEF Schedule, worker_vars
<1>4. \A k : /\ Cardinality(InSection(k)') = Cardinality(InSection(k))
             /\ Cardinality(Indexed(k)') = Cardinality(Indexed(k))
             /\ Cardinality(InLoop(k)') = Cardinality(InLoop(k))
  BY <1>3, StillWorkers
<1>5. \A k \in Leader : Books(k)' = Books(k) /\ Counts(k)' = Counts(k) /\ tag' = tag
  BY <1>2, <1>3, <1>4 DEF Books, Counts, tag_vars, section_vars, leader_vars
<1> QED BY <1>5, BooksKept DEF IInv

\* The leader of a worker that has a task.
LEMMA JobLeader ==
  ASSUME IInv, NEW w \in Worker, wpc[w] # "idle"
  PROVE  job[w] \in Leader /\ job[w] # Nobody
  BY LeaderAssumption DEF IInv, Types, WorkerInv

\* A section in which there is a worker has tasks, and its leader is in it.
LEMMA SectionBusy ==
  ASSUME IInv, NEW w \in Worker, wpc[w] # "idle"
  PROVE  /\ Cardinality(InSection(job[w])) \in Nat \ {0}
         /\ Total(job[w]) \in Nat \ {0} /\ lpc[job[w]] # "idle"
<1> DEFINE l == job[w]
<1>0. l \in Leader
  BY JobLeader
<1>1. w \in InSection(l)
  BY DEF InSection
<1>2. Cardinality(InSection(l)) \in Nat \ {0} /\ Cardinality(Pushed(l)) \in Nat
  BY <1>1, SetsFinite, FS_EmptySet
<1>3. tasks_finished[l] \in Nat
  BY <1>0 DEF IInv, Types
<1>4. Total(l) \in Nat \ {0}
  BY <1>2, <1>3 DEF Total
<1>5. Len(<<>>) = 0
  OBVIOUS
<1>6. lpc[l] # "idle"
  BY <1>0, <1>4, <1>5 DEF IInv, LeaderInv
<1> QED BY <1>2, <1>4, <1>6

\* A task that is taken is under way.
LEMMA TakeBooks ==
  ASSUME IInv, NEW w \in Worker, NEW q \in Worker, NEW s \in Slot, Take(w, q, s)
  PROVE  \A k \in Leader : LeaderInv(k)'
<1> DEFINE l == queue[q][s].from
<1>0. Types /\ WorkerInv(w)
  BY DEF IInv
<1>1. OneSlot(q, s) /\ queue'[q][s].from = Nobody
  BY <1>0 DEF Take, OneSlot, Types, Empty
<1>2. /\ OneWorker(w) /\ wpc[w] = "idle" /\ job[w] = Nobody
      /\ job'[w] = l /\ wpc'[w] = IF l = Nobody THEN "idle" ELSE "index"
  BY <1>0 DEF Take, OneWorker, Types, Is, Go, WorkerInv
<1>3. UNCHANGED <<tag_vars, section_vars, leader_vars>>
  BY DEF Take
<1> HIDE DEF l
<1>4. ASSUME NEW k \in Leader PROVE LeaderInv(k)'
  <2>0. k # Nobody
    BY LeaderAssumption
  <2>1. Books(k)' = Books(k) /\ tag' = tag /\ tasks_finished' = tasks_finished
    BY <1>3 DEF Books, tag_vars, section_vars, leader_vars
  <2>2. w \notin InSection(k) /\ w \notin Indexed(k) /\ w \notin InLoop(k)
    BY <1>2, <2>0 DEF InSection, Indexed, InLoop
  <2>3. w \notin Indexed(k)' /\ w \notin InLoop(k)'
    BY <1>2, <2>0 DEF Indexed, InLoop
  <2>4. /\ Cardinality(Indexed(k)') = Cardinality(Indexed(k))
        /\ Cardinality(InLoop(k)') = Cardinality(InLoop(k))
    BY <1>2, <2>2, <2>3, WorkerCounts
  <2>5. CASE k = l
    <3>1. w \in InSection(k)'
      BY <1>2, <2>5 DEF InSection
    <3>2. Cardinality(InSection(k)') = Cardinality(InSection(k)) + 1
      BY <1>2, <2>2, <3>1, WorkerCounts
    <3>3. Cardinality(Pushed(k)') = Cardinality(Pushed(k)) - 1
      BY <1>1, <2>0, <2>5, PushedChange DEF l
    <3>4. Cardinality(Pushed(k)) \in Nat /\ Cardinality(InSection(k)) \in Nat
          /\ tasks_finished[k] \in Nat
      BY <1>0, SetsFinite DEF Types
    <3>5. Total(k)' = Total(k)
      BY <2>1, <3>2, <3>3, <3>4 DEF Total
    <3> QED BY <2>1, <2>4, <3>5 DEF Books, LeaderInv, IInv
  <2>6. CASE k # l
    <3>1. w \notin InSection(k)'
      BY <1>2, <2>6 DEF InSection
    <3>2. Cardinality(InSection(k)') = Cardinality(InSection(k))
      BY <1>2, <2>2, <3>1, WorkerCounts
    <3>3. Cardinality(Pushed(k)') = Cardinality(Pushed(k))
      BY <1>1, <2>0, <2>6, PushedChange DEF l
    <3>4. Counts(k)' = Counts(k)
      BY <2>4, <3>2, <3>3 DEF Counts
    <3> QED BY <2>1, <3>4, BooksKept DEF IInv
  <2> QED BY <2>5, <2>6
<1> QED BY <1>4

\* The tasks in the queues when no queue changes.
LEMMA StillQueues ==
  ASSUME queue' = queue, NEW k
  PROVE  Cardinality(Pushed(k)') = Cardinality(Pushed(k))
  BY DEF Pushed

\* An index is given out.
LEMMA TakeIndexBooks ==
  ASSUME IInv, NEW w \in Worker, TakeIndex(w)
  PROVE  \A k \in Leader : LeaderInv(k)'
<1> DEFINE l == job[w]
<1>0. Types /\ WorkerInv(w) /\ l \in Leader /\ wpc[w] = "index" /\ LeaderInv(l)
  BY JobLeader DEF IInv, TakeIndex, Is
<1>1. /\ OneWorker(w) /\ job' = job
      /\ wpc'[w] = IF l \in SingleLoop THEN "fn" ELSE "test"
  BY <1>0 DEF TakeIndex, OneWorker, Types, Go
<1>2. UNCHANGED <<tag, queue, tasks_finished, current_loop, workers_in_loop, leader_vars>>
  BY DEF TakeIndex, tag_vars
<1>3. worker_idx'[l] = worker_idx[l] + 1 /\ \A k \in Leader \ {l} : worker_idx'[k] = worker_idx[k]
  BY <1>0 DEF TakeIndex, Types
<1> HIDE DEF l
<1>4. ASSUME NEW k \in Leader PROVE LeaderInv(k)'
  <2>1. Cardinality(Pushed(k)') = Cardinality(Pushed(k))
    BY <1>2, StillQueues
  <2>2. Cardinality(InSection(k)') = Cardinality(InSection(k))
    BY <1>1, WorkerCounts DEF InSection
  <2>3. Total(k)' = Total(k)
    BY <1>2, <2>1, <2>2 DEF Total
  <2>4. CASE k = l
    <3>1. w \notin Indexed(k) /\ w \in Indexed(k)'
      BY <1>0, <1>1, <2>4 DEF Indexed, l
    <3>2. Cardinality(Indexed(k)') = Cardinality(Indexed(k)) + 1
      BY <1>1, <3>1, WorkerCounts
    <3>3. k \notin SingleLoop => Cardinality(InLoop(k)') = Cardinality(InLoop(k))
      <4>1. k \notin SingleLoop => w \notin InLoop(k) /\ w \notin InLoop(k)'
        BY <1>0, <1>1, <2>4 DEF InLoop
      <4> QED BY <4>1, <1>1, WorkerCounts
    <3>4. /\ Cardinality(Indexed(k)) \in Nat /\ tasks_finished[k] \in Nat
          /\ worker_idx'[k] = worker_idx[k] + 1
      BY <1>0, <1>3, <2>4, SetsFinite DEF Types
    <3>5. worker_idx'[k] = tasks_finished'[k] + Cardinality(Indexed(k)')
      BY <1>0, <1>2, <2>4, <3>2, <3>4 DEF LeaderInv
    <3>6. lpc[k] # "idle"
      BY <1>0, <2>4, SectionBusy DEF l
    <3> QED BY <1>0, <1>2, <2>3, <2>4, <3>3, <3>5, <3>6 DEF LeaderInv, leader_vars
  <2>5. CASE k # l
    <3>1. (w \in Indexed(k) <=> w \in Indexed(k)') /\ (w \in InLoop(k) <=> w \in InLoop(k)')
      BY <1>0, <1>1, <2>5 DEF Indexed, InLoop, l
    <3>2. /\ Cardinality(Indexed(k)') = Cardinality(Indexed(k))
          /\ Cardinality(InLoop(k)') = Cardinality(InLoop(k))
      BY <1>1, <3>1, WorkerCounts
    <3>3. Books(k)' = Books(k) /\ Counts(k)' = Counts(k)
      BY <1>2, <1>3, <2>1, <2>2, <2>5, <3>2 DEF Books, Counts, leader_vars
    <3> QED BY <3>3, <1>2, BooksKept DEF IInv
  <2> QED BY <2>4, <2>5
<1> QED BY <1>4

\* A worker that looks round changes nothing that is counted.
LEMMA LookBooks ==
  ASSUME IInv, NEW w \in Worker, TestActive(w) \/ Peek(w) \/ ReadLoop(w)
  PROVE  \A k \in Leader : LeaderInv(k)'
<1>1. /\ OneWorker(w) /\ job' = job
      /\ \/ wpc[w] \in {"test", "peek"} /\ wpc'[w] \in {"test", "peek", "join", "finish"}
         \/ wpc[w] = "read" /\ wpc'[w] \in {"fn", "skip"}
  BY DEF TestActive, Peek, ReadLoop, OneWorker, Is, Go, IInv, Types
<1>2. UNCHANGED <<tag_vars, queue, section_vars, leader_vars>>
  BY DEF TestActive, Peek, ReadLoop
<1>3. ASSUME NEW k \in Leader PROVE LeaderInv(k)'
  <2>1. /\ w \in InSection(k) <=> w \in InSection(k)'
        /\ w \in Indexed(k) <=> w \in Indexed(k)'
        /\ w \in InLoop(k) <=> w \in InLoop(k)'
    BY <1>1 DEF InSection, Indexed, InLoop
  <2>2. /\ Cardinality(InSection(k)') = Cardinality(InSection(k))
        /\ Cardinality(Indexed(k)') = Cardinality(Indexed(k))
        /\ Cardinality(InLoop(k)') = Cardinality(InLoop(k))
        /\ Cardinality(Pushed(k)') = Cardinality(Pushed(k))
    BY <1>1, <1>2, <2>1, WorkerCounts, StillQueues
  <2>3. Books(k)' = Books(k) /\ Counts(k)' = Counts(k) /\ tag' = tag
    BY <1>2, <2>2 DEF Books, Counts, tag_vars, section_vars, leader_vars
  <2> QED BY <2>3, BooksKept DEF IInv
<1> QED BY <1>3

\* Joining and quitting a loop.
LEMMA LoopBooks ==
  ASSUME IInv, NEW w \in Worker, JoinLoop(w) \/ QuitLoop(w)
  PROVE  \A k \in Leader : LeaderInv(k)'
<1> DEFINE l == job[w]
<1>0. Types /\ WorkerInv(w) /\ l \in Leader /\ l \notin SingleLoop /\ LeaderInv(l)
  BY JobLeader DEF IInv, JoinLoop, QuitLoop, Is, WorkerInv
<1>1. /\ OneWorker(w) /\ job' = job
      /\ \/ /\ wpc[w] = "join" /\ wpc'[w] = "read"
            /\ workers_in_loop' = [workers_in_loop EXCEPT ![l] = @ + 1]
         \/ /\ wpc[w] \in {"skip", "fn"} /\ wpc'[w] = "test"
            /\ workers_in_loop' = [workers_in_loop EXCEPT ![l] = @ - 1]
  BY <1>0 DEF JoinLoop, QuitLoop, OneWorker, Types, Is, Go
<1>2. UNCHANGED <<tag, queue, tasks_finished, current_loop, worker_idx, leader_vars>>
  BY DEF JoinLoop, QuitLoop, tag_vars
<1>3. workers_in_loop \in [Leader -> Int]
  BY <1>0 DEF Types
<1> HIDE DEF l
<1>4. ASSUME NEW k \in Leader PROVE LeaderInv(k)'
  <2>1. /\ w \in InSection(k) <=> w \in InSection(k)'
        /\ w \in Indexed(k) <=> w \in Indexed(k)'
    BY <1>1 DEF InSection, Indexed
  <2>2. /\ Cardinality(InSection(k)') = Cardinality(InSection(k))
        /\ Cardinality(Indexed(k)') = Cardinality(Indexed(k))
        /\ Cardinality(Pushed(k)') = Cardinality(Pushed(k))
    BY <1>1, <1>2, <2>1, WorkerCounts, StillQueues
  <2>3. Total(k)' = Total(k)
    BY <1>2, <2>2 DEF Total
  <2>4. CASE k = l
    <3>1. \/ /\ w \notin InLoop(k) /\ w \in InLoop(k)'
             /\ workers_in_loop'[k] = workers_in_loop[k] + 1
          \/ /\ w \in InLoop(k) /\ w \notin InLoop(k)'
             /\ workers_in_loop'[k] = workers_in_loop[k] - 1
      BY <1>1, <1>3, <2>4 DEF InLoop, l
    <3>2. \/ /\ Cardinality(InLoop(k)') = Cardinality(InLoop(k)) + 1
             /\ workers_in_loop'[k] = workers_in_loop[k] + 1
          \/ /\ Cardinality(InLoop(k)') = Cardinality(InLoop(k)) - 1
             /\ workers_in_loop'[k] = workers_in_loop[k] - 1
      BY <1>1, <3>1, WorkerCounts
    <3>3. workers_in_loop'[k] = Cardinality(InLoop(k)')
      BY <1>0, <2>4, <3>2 DEF LeaderInv
    <3> QED BY <1>0, <1>2, <2>2, <2>3, <2>4, <3>3 DEF LeaderInv, leader_vars
  <2>5. CASE k # l
    <3>1. w \in InLoop(k) <=> w \in InLoop(k)'
      BY <1>1, <2>5 DEF InLoop, l
    <3>2. Cardinality(InLoop(k)') = Cardinality(InLoop(k))
      BY <1>1, <3>1, WorkerCounts
    <3>3. workers_in_loop'[k] = workers_in_loop[k]
      BY <1>1, <1>3, <2>5
    <3>4. Books(k)' = Books(k) /\ Counts(k)' = Counts(k)
      BY <1>2, <2>2, <3>2, <3>3 DEF Books, Counts, leader_vars
    <3> QED BY <3>4, <1>2, BooksKept DEF IInv
  <2> QED BY <2>4, <2>5
<1> QED BY <1>4

\* A task finishes.
LEMMA FinishBooks ==
  ASSUME IInv, NEW w \in Worker, FinishTask(w)
  PROVE  \A k \in Leader : LeaderInv(k)'
<1> DEFINE l == job[w]
<1>0. /\ Types /\ WorkerInv(w) /\ l \in Leader /\ l # Nobody /\ LeaderInv(l)
      /\ lpc[l] # "idle" /\ wpc[w] \notin {"idle", "index"}
      /\ wpc[w] = "finish" \/ l \in SingleLoop
  BY JobLeader, SectionBusy DEF IInv, FinishTask, Is
<1>1. OneWorker(w) /\ job'[w] = Nobody /\ wpc'[w] = "idle"
  BY <1>0 DEF FinishTask, OneWorker, Types, Go
<1>2. UNCHANGED <<tag, queue, current_loop, workers_in_loop, worker_idx, leader_vars>>
  BY DEF FinishTask, tag_vars
<1>3. /\ tasks_finished'[l] = tasks_finished[l] + 1
      /\ \A k \in Leader \ {l} : tasks_finished'[k] = tasks_finished[k]
  BY <1>0 DEF FinishTask, Types
<1> HIDE DEF l
<1>4. ASSUME NEW k \in Leader PROVE LeaderInv(k)'
  <2>0. k # Nobody
    BY LeaderAssumption
  <2>1. w \notin InSection(k)' /\ w \notin Indexed(k)' /\ w \notin InLoop(k)'
    BY <1>1, <2>0 DEF InSection, Indexed, InLoop
  <2>2. Cardinality(Pushed(k)') = Cardinality(Pushed(k))
    BY <1>2, StillQueues
  <2>3. CASE k = l
    <3>1. w \in InSection(k) /\ w \in Indexed(k)
      BY <1>0, <2>3 DEF InSection, Indexed, l
    <3>2. /\ Cardinality(InSection(k)') = Cardinality(InSection(k)) - 1
          /\ Cardinality(Indexed(k)') = Cardinality(Indexed(k)) - 1
      BY <1>1, <2>1, <3>1, WorkerCounts
    <3>3. k \notin SingleLoop => Cardinality(InLoop(k)') = Cardinality(InLoop(k))
      <4>1. k \notin SingleLoop => w \notin InLoop(k)
        BY <1>0, <2>3 DEF InLoop
      <4> QED BY <4>1, <1>1, <2>1, WorkerCounts
    <3>4. /\ Cardinality(Indexed(k)) \in Nat /\ Cardinality(InSection(k)) \in Nat
          /\ Cardinality(Pushed(k)) \in Nat /\ tasks_finished[k] \in Nat
          /\ tasks_finished'[k] = tasks_finished[k] + 1
      BY <1>0, <1>3, <2>3, SetsFinite DEF Types
    <3>5. Total(k)' = Total(k)
      BY <2>2, <3>2, <3>4 DEF Total
    <3>6. worker_idx'[k] = tasks_finished'[k] + Cardinality(Indexed(k)')
      BY <1>0, <1>2, <2>3, <3>2, <3>4 DEF LeaderInv
    <3> QED BY <1>0, <1>2, <2>3, <3>3, <3>5, <3>6 DEF LeaderInv, leader_vars
  <2>4. CASE k # l
    <3>1. w \notin InSection(k) /\ w \notin Indexed(k) /\ w \notin InLoop(k)
      BY <2>4 DEF InSection, Indexed, InLoop, l
    <3>2. /\ Cardinality(InSection(k)') = Cardinality(InSection(k))
          /\ Cardinality(Indexed(k)') = Cardinality(Indexed(k))
          /\ Cardinality(InLoop(k)') = Cardinality(InLoop(k))
      BY <1>1, <2>1, <3>1, WorkerCounts
    <3>3. Books(k)' = Books(k) /\ Counts(k)' = Counts(k)
      BY <1>2, <1>3, <2>2, <2>4, <3>2 DEF Books, Counts, leader_vars
    <3> QED BY <3>3, <1>2, BooksKept DEF IInv
  <2> QED BY <2>3, <2>4
<1> QED BY <1>4

\* The books stay in order.
LEMMA BooksStep ==
  ASSUME IInv, [Next]_vars
  PROVE  \A k \in Leader : LeaderInv(k)'
<1>1. ASSUME NEW l \in Leader, StartParallelSection(l) \/ LeaderStep(l), Next
      PROVE  \A k \in Leader : LeaderInv(k)'
  BY <1>1, QuietBooks, SummonBooks, RevokeBooks DEF LeaderStep
<1>2. ASSUME NEW w \in Worker, WorkerStep(w) PROVE \A k \in Leader : LeaderInv(k)'
  BY <1>2, TakeBooks, TakeIndexBooks, LookBooks, LoopBooks, FinishBooks DEF WorkerStep
<1>3. ASSUME NEW q \in Scheduled, NEW s \in Slot, Schedule(q, s)
      PROVE  \A k \in Leader : LeaderInv(k)'
  BY <1>3, ScheduleBooks, ScheduledAssumption
<1>4. CASE UNCHANGED vars
  <2>1. /\ queue' = queue /\ wpc' = wpc /\ job' = job /\ tag' = tag
        /\ UNCHANGED <<section_vars, leader_vars>>
    BY <1>4 DEF vars, worker_vars, tag_vars
  <2>2. \A k \in Leader : Books(k)' = Books(k) /\ Counts(k)' = Counts(k)
    BY <2>1, CountsKept DEF Books, section_vars, leader_vars
  <2> QED BY <2>1, <2>2, BooksKept DEF IInv
<1> QED BY <1>1, <1>2, <1>3, <1>4 DEF Next

-----------------------------------------------------------------------------
(***************************************************************************)
(* The types.                                                              *)
(***************************************************************************)

\* The tasks that a slot can hold.
SlotTask == [from: Leader \cup {Nobody}, tag: -1..(TAG_SPACE - 1)]

\* What is written to a slot.
LEMMA TaskTypes ==
  /\ Empty \in SlotTask /\ Plain \in SlotTask
  /\ Types => \A l \in Leader : [from |-> l, tag |-> tag[l]] \in SlotTask
  /\ Types => queue \in [Worker -> [Slot -> SlotTask]]
  BY TagAssumption DEF Empty, Plain, SlotTask, Types

\* The leader's steps keep the types.
LEMMA LeaderTypes ==
  ASSUME IInv, Next, NEW l \in Leader, StartParallelSection(l) \/ LeaderStep(l)
  PROVE  Types'
<1>0. Types
  BY DEF IInv
<1>1. CASE StartParallelSection(l)
  <2>1. GetNext \in 0..(TAG_SPACE - 1) /\ AfterNext \in 0..(TAG_SPACE - 1)
    <3>1. TAG_SPACE \in Nat /\ TAG_SPACE >= 2
      <4>1. Cardinality(Leader) \in Nat \ {0}
        BY FiniteAssumption, FS_CardinalityType, FS_EmptySet
      <4> QED BY <4>1, TagAssumption
    <3>2. GetNext \in 0..(TAG_SPACE - 1)
      BY <1>0, <3>1 DEF GetNext, Types
    <3>3. AfterNext = IF GetNext + 1 = TAG_SPACE THEN 0 ELSE GetNext + 1
      BY <3>1, <3>2, Wrap DEF AfterNext
    <3> QED BY <3>1, <3>2, <3>3
  <2>2. tag' \in [Leader -> 0..(TAG_SPACE - 1)] /\ next_tag' \in 0..(TAG_SPACE - 1)
    BY <1>0, <1>1, <2>1 DEF StartParallelSection, Types
  <2>3. lpc' \in [Leader -> {"idle", "section", "summon", "drain", "revoke"}]
    BY <1>0, <1>1 DEF StartParallelSection, Goto, Types
  <2>4. active' \in [Leader -> BOOLEAN]
    BY <1>0, <1>1 DEF StartParallelSection, Types
  <2>5. UNCHANGED <<queue, worker_idx, tasks_finished, current_loop,
                 workers_in_loop, tasks, loops, n, left, to_wait_for, worker_vars>>
    BY <1>1 DEF StartParallelSection
  <2> QED BY <1>0, <2>2, <2>3, <2>4, <2>5 DEF Types, worker_vars
<1>2. CASE EnterLoop(l)
  <2> DEFINE dop == Dop[l][loops[l] + 1]
  <2>1. loops[l] \in Nat /\ loops[l] < Len(Dop[l]) /\ Len(tasks[l]) \in Nat
    BY <1>0, <1>2 DEF EnterLoop, Types
  <2>2. dop \in Nat \ {0, 1}
    <3>1. Dop[l] \in Seq(Nat \ {0, 1}) /\ loops[l] + 1 \in 1..Len(Dop[l])
      BY <2>1, DopAssumption
    <3> QED BY <3>1
  <2>3. ExtraNeeded(l, dop) \in Nat
    BY <2>1, <2>2 DEF ExtraNeeded
  <2>4. n' = [n EXCEPT ![l] = dop] /\ left' = [left EXCEPT ![l] = ExtraNeeded(l, dop)]
    BY <1>2 DEF EnterLoop
  <2> HIDE DEF dop
  <2>5. n' \in [Leader -> Nat] /\ left' \in [Leader -> Nat]
    BY <1>0, <2>2, <2>3, <2>4 DEF Types
  <2>6. /\ lpc' \in [Leader -> {"idle", "section", "summon", "drain", "revoke"}]
        /\ loops' \in [Leader -> Nat] /\ current_loop' \in [Leader -> Nat]
    BY <1>0, <1>2, <2>1 DEF EnterLoop, Goto, Types
  <2>7. UNCHANGED <<tag_vars, queue, active, worker_idx, tasks_finished,
                    workers_in_loop, tasks, to_wait_for, worker_vars>>
    BY <1>2 DEF EnterLoop
  <2> QED BY <1>0, <2>5, <2>6, <2>7 DEF Types, worker_vars, tag_vars
<1>3. CASE SummonWorker(l)
  <2>1. left' \in [Leader -> Nat]
    BY <1>0, <1>3 DEF SummonWorker, Types
  <2>2. queue' \in [Worker -> [Slot -> [from: Leader \cup {Nobody}, tag: -1..(TAG_SPACE - 1)]]]
    <3>1. \/ queue' = queue
          \/ \E q \in Worker, s \in Slot, x \in SlotTask : queue' = [queue EXCEPT ![q][s] = x]
      BY <1>0, <1>3, TaskTypes DEF SummonWorker
    <3>2. queue' \in [Worker -> [Slot -> SlotTask]]
      BY <1>0, <3>1, TaskTypes
    <3> QED BY <3>2 DEF SlotTask
  <2>3. tasks' \in [Leader -> Seq(Worker \X Slot)]
    <3>1. tasks \in [Leader -> Seq(Worker \X Slot)]
      BY <1>0 DEF Types
    <3>2. \/ tasks' = tasks
          \/ \E p \in Worker \X Slot : tasks' = [tasks EXCEPT ![l] = Append(@, p)]
      BY <1>3 DEF SummonWorker
    <3>3. \A p \in Worker \X Slot : Append(tasks[l], p) \in Seq(Worker \X Slot)
      BY <3>1, AppendProperties
    <3> QED BY <3>1, <3>2, <3>3
  <2>4. UNCHANGED <<tag_vars, section_vars, lpc, loops, n, to_wait_for, worker_vars>>
    BY <1>3 DEF SummonWorker
  <2> QED BY <1>0, <2>1, <2>2, <2>3, <2>4 DEF Types, worker_vars, tag_vars, section_vars
<1>4. CASE LeaveLoop(l) \/ LoopDrained(l)
  <2>1. /\ lpc' \in [Leader -> {"idle", "section", "summon", "drain", "revoke"}]
        /\ current_loop' \in [Leader -> Nat]
    BY <1>0, <1>4 DEF LeaveLoop, LoopDrained, Goto, section_vars, Types
  <2>2. UNCHANGED <<tag_vars, queue, active, worker_idx, tasks_finished,
                 workers_in_loop, tasks, loops, n, left, to_wait_for, worker_vars>>
    BY <1>4 DEF LeaveLoop, LoopDrained, section_vars
  <2> QED BY <1>0, <2>1, <2>2 DEF Types, worker_vars, tag_vars
<1>5. CASE EndParallelSection(l)
  <2>1. Len(tasks[l]) \in Nat
    BY <1>0 DEF Types
  <2>2. lpc' \in [Leader -> {"idle", "section", "summon", "drain", "revoke"}]
    BY <1>0, <1>5 DEF EndParallelSection, Goto, Types
  <2>3. to_wait_for' \in [Leader -> Nat]
    BY <1>0, <1>5, <2>1 DEF EndParallelSection, Types
  <2>4. active' \in [Leader -> BOOLEAN]
    BY <1>0, <1>5 DEF EndParallelSection, Types
  <2>5. UNCHANGED <<tag_vars, queue, worker_idx, tasks_finished, current_loop,
                 workers_in_loop, tasks, loops, n, left, worker_vars>>
    BY <1>5 DEF EndParallelSection
  <2> QED BY <1>0, <2>2, <2>3, <2>4, <2>5 DEF Types, worker_vars, tag_vars
<1>6. CASE Revoke(l)
  <2>1. to_wait_for' \in [Leader -> Nat]
    BY <1>6, RevokeBooks
  <2>2. tasks \in [Leader -> Seq(Worker \X Slot)] /\ tasks[l] # <<>>
    BY <1>0, <1>6 DEF Types, Revoke
  <2>3. /\ SubSeq(tasks[l], 1, Len(tasks[l]) - 1) \in Seq(Worker \X Slot)
        /\ tasks[l][Len(tasks[l])] \in Worker \X Slot
    BY <2>2, LastTask
  <2>4. tasks' = [tasks EXCEPT ![l] = SubSeq(tasks[l], 1, Len(tasks[l]) - 1)]
    BY <1>6 DEF Revoke
  <2>5. tasks' \in [Leader -> Seq(Worker \X Slot)]
    BY <2>2, <2>3, <2>4
  <2>6. PICK q \in Worker, s \in Slot : tasks[l][Len(tasks[l])] = <<q, s>>
    BY <2>3
  <2>7. queue' = queue \/ queue' = [queue EXCEPT ![q][s] = Empty]
    BY <1>6, <2>6 DEF Revoke
  <2>8. queue' \in [Worker -> [Slot -> [from: Leader \cup {Nobody}, tag: -1..(TAG_SPACE - 1)]]]
    <3>1. queue' \in [Worker -> [Slot -> SlotTask]]
      BY <1>0, <2>7, TaskTypes
    <3> QED BY <3>1 DEF SlotTask
  <2>9. UNCHANGED <<tag_vars, section_vars, lpc, loops, n, left, worker_vars>>
    BY <1>6 DEF Revoke
  <2> QED BY <1>0, <2>1, <2>5, <2>8, <2>9 DEF Types, worker_vars, tag_vars, section_vars
<1>7. CASE SectionDone(l)
  <2>1. lpc' \in [Leader -> {"idle", "section", "summon", "drain", "revoke"}]
    BY <1>0, <1>7 DEF SectionDone, Goto, Types
  <2>2. /\ tasks_finished' \in [Leader -> Nat] /\ to_wait_for' \in [Leader -> Nat]
        /\ worker_idx' \in [Leader -> Nat]
    BY <1>0, <1>7 DEF SectionDone, Types
  <2>3. loops' \in [Leader -> Nat] /\ n' \in [Leader -> Nat]
    BY <1>0, <1>7 DEF SectionDone, Types
  <2>4. UNCHANGED <<tag_vars, queue, active, current_loop, workers_in_loop, tasks,
                    left, worker_vars>>
    BY <1>7 DEF SectionDone
  <2> QED BY <1>0, <2>1, <2>2, <2>3, <2>4 DEF Types, worker_vars, tag_vars
<1> QED BY <1>1, <1>2, <1>3, <1>4, <1>5, <1>6, <1>7 DEF LeaderStep

\* The workers' steps keep the types.
LEMMA WorkerTypes ==
  ASSUME IInv, NEW w \in Worker, WorkerStep(w)
  PROVE  Types'
<1>0. Types
  BY DEF IInv
<1> DEFINE Place == {"idle", "index", "test", "peek", "join", "read", "fn", "skip", "finish"}
<1>1. UNCHANGED <<tag_vars, active, current_loop, leader_vars>>
  BY DEF WorkerStep, Take, TakeIndex, TestActive, Peek, JoinLoop, ReadLoop, QuitLoop,
     FinishTask, section_vars
<1>2. \E p \in Place : wpc' = [wpc EXCEPT ![w] = p]
  BY DEF WorkerStep, Take, TakeIndex, TestActive, Peek, JoinLoop, ReadLoop, QuitLoop,
     FinishTask, Go
<1>3. wpc' \in [Worker -> Place]
  BY <1>0, <1>2 DEF Types
<1>4. queue' \in [Worker -> [Slot -> [from: Leader \cup {Nobody}, tag: -1..(TAG_SPACE - 1)]]]
  <2>1. queue' = queue \/ \E q \in Worker, s \in Slot : queue' = [queue EXCEPT ![q][s] = Empty]
    BY DEF WorkerStep, Take, TakeIndex, TestActive, Peek, JoinLoop, ReadLoop, QuitLoop,
       FinishTask
  <2>2. queue' \in [Worker -> [Slot -> SlotTask]]
    BY <1>0, <2>1, TaskTypes
  <2> QED BY <2>2 DEF SlotTask
<1>5. job' \in [Worker -> Leader \cup {Nobody}]
  <2>1. job' = job \/ \E l \in Leader \cup {Nobody} : job' = [job EXCEPT ![w] = l]
    <3>1. ASSUME NEW q \in Worker, NEW s \in Slot, Take(w, q, s)
          PROVE  \E l \in Leader \cup {Nobody} : job' = [job EXCEPT ![w] = l]
      <4>1. queue[q][s].from \in Leader \cup {Nobody}
        BY <1>0 DEF Types
      <4> QED BY <3>1, <4>1 DEF Take
    <3> QED BY <3>1 DEF WorkerStep, TakeIndex, TestActive, Peek, JoinLoop, ReadLoop, QuitLoop,
       FinishTask
  <2> QED BY <1>0, <2>1 DEF Types
<1>6. \/ worker_idx' = worker_idx /\ my_idx' = my_idx
      \/ worker_idx' = worker_idx /\ my_idx' = [my_idx EXCEPT ![w] = 0]
      \/ /\ job[w] \in Leader
         /\ worker_idx' = [worker_idx EXCEPT ![job[w]] = worker_idx[job[w]] + 1]
         /\ my_idx' = [my_idx EXCEPT ![w] = worker_idx[job[w]] + 1]
  BY JobLeader DEF WorkerStep, Take, TakeIndex, TestActive, Peek, JoinLoop, ReadLoop, QuitLoop,
     FinishTask, Is, section_vars
<1>7. worker_idx' \in [Leader -> Nat] /\ my_idx' \in [Worker -> Nat]
  <2>1. worker_idx \in [Leader -> Nat] /\ my_idx \in [Worker -> Nat]
    BY <1>0 DEF Types
  <2>2. job[w] \in Leader => worker_idx[job[w]] + 1 \in Nat
    BY <2>1
  <2> QED BY <1>6, <2>1, <2>2
<1>8. tasks_finished' \in [Leader -> Nat] /\ workers_in_loop' \in [Leader -> Int]
  <2>1. tasks_finished \in [Leader -> Nat] /\ workers_in_loop \in [Leader -> Int]
    BY <1>0 DEF Types
  <2>2. \/ tasks_finished' = tasks_finished
        \/ /\ job[w] \in Leader
           /\ tasks_finished' = [tasks_finished EXCEPT ![job[w]] = tasks_finished[job[w]] + 1]
    BY JobLeader DEF WorkerStep, Take, TakeIndex, TestActive, Peek, JoinLoop, ReadLoop,
       QuitLoop, FinishTask, Is, section_vars
  <2>3. \/ workers_in_loop' = workers_in_loop
        \/ job[w] \in Leader /\ \E i \in {-1, 1} :
             workers_in_loop' = [workers_in_loop EXCEPT ![job[w]] = workers_in_loop[job[w]] + i]
    <3>1. CASE UNCHANGED workers_in_loop
      BY <3>1
    <3>2. CASE JoinLoop(w)
      BY <3>2, JobLeader DEF JoinLoop, Is
    <3>3. CASE QuitLoop(w)
      <4>1. job[w] \in Leader
        BY <3>3, JobLeader DEF QuitLoop, Is
      <4>2. workers_in_loop[job[w]] - 1 = workers_in_loop[job[w]] + (-1)
        BY <2>1, <4>1
      <4> QED BY <3>3, <4>1, <4>2 DEF QuitLoop
    <3> QED BY <3>1, <3>2, <3>3 DEF WorkerStep, Take, TakeIndex, TestActive, Peek, ReadLoop,
       FinishTask, section_vars
  <2>4. tasks_finished' \in [Leader -> Nat]
    BY <2>1, <2>2
  <2>5. workers_in_loop' \in [Leader -> Int]
    BY <2>1, <2>3
  <2> QED BY <2>4, <2>5
<1>9. work_item' \in [Worker -> Nat]
  <2>1. work_item' = work_item \/ \E i \in Nat : work_item' = [work_item EXCEPT ![w] = i]
    BY <1>0, JobLeader DEF WorkerStep, Take, TakeIndex, TestActive, Peek, JoinLoop, ReadLoop,
       QuitLoop, FinishTask, Is, Types
  <2> QED BY <1>0, <2>1 DEF Types
<1> QED BY <1>0, <1>1, <1>3, <1>4, <1>5, <1>7, <1>8, <1>9
        DEF Types, tag_vars, leader_vars

\* Every step keeps the types.
LEMMA TypesStep ==
  ASSUME IInv, [Next]_vars
  PROVE  Types'
<1>1. ASSUME NEW q \in Scheduled, NEW s \in Slot, Schedule(q, s) PROVE Types'
  <2>1. queue' \in [Worker -> [Slot -> [from: Leader \cup {Nobody}, tag: -1..(TAG_SPACE - 1)]]]
    BY <1>1, TagAssumption, ScheduledAssumption DEF IInv, Types, Schedule, Plain
  <2> QED BY <1>1, <2>1 DEF Schedule, IInv, Types, tag_vars, section_vars, leader_vars,
          worker_vars
<1>2. CASE UNCHANGED vars
  BY <1>2 DEF IInv, Types, vars, tag_vars, section_vars, leader_vars, worker_vars
<1> QED BY <1>1, <1>2, LeaderTypes, WorkerTypes DEF Next

-----------------------------------------------------------------------------
(***************************************************************************)
(* The workers, and their indices.                                         *)
(***************************************************************************)

\* A worker that does nothing is not disturbed by a step that takes no index
\* back and leaves the loop that it runs as it is.
LEMMA WorkerKept ==
  ASSUME IInv, Types', NEW v \in Worker,
         job'[v] = job[v], wpc'[v] = wpc[v], my_idx'[v] = my_idx[v],
         work_item'[v] = work_item[v],
         wpc[v] # "idle" => worker_idx'[job[v]] >= worker_idx[job[v]],
         wpc[v] = "fn" => n'[job[v]] = n[job[v]],
         wpc[v] = "fn" /\ job[v] \notin SingleLoop =>
           lpc'[job[v]] \in {"summon", "drain"} /\ loops'[job[v]] = loops[job[v]]
  PROVE  WorkerInv(v)'
<1> DEFINE l == job[v]
<1>0. WorkerInv(v)
  BY DEF IInv
<1>1. ASSUME wpc[v] \notin {"idle", "index"} PROVE my_idx[v] \in 1..worker_idx'[l]
  <2>1. l \in Leader
    BY <1>1, JobLeader
  <2>2. worker_idx[l] \in Nat /\ worker_idx'[l] \in Nat
    BY <2>1 DEF IInv, Types
  <2>3. my_idx[v] \in 1..worker_idx[l] /\ worker_idx'[l] >= worker_idx[l]
    BY <1>0, <1>1 DEF WorkerInv
  <2> HIDE DEF l
  <2> QED BY <2>2, <2>3
<1> QED BY <1>0, <1>1 DEF WorkerInv

\* The leader's steps do not disturb the workers.
LEMMA LeaderWorkers ==
  ASSUME IInv, Types', NEW l \in Leader, StartParallelSection(l) \/ LeaderStep(l)
  PROVE  \A v \in Worker : WorkerInv(v)'
<1>0. Types /\ LeaderInv(l)
  BY DEF IInv
<1>1. job' = job /\ wpc' = wpc /\ my_idx' = my_idx /\ work_item' = work_item
  BY DEF StartParallelSection, LeaderStep, EnterLoop, SummonWorker, LeaveLoop, LoopDrained,
     EndParallelSection, Revoke, SectionDone, worker_vars
<1>2. ASSUME NEW k \in Leader, k # l
      PROVE  /\ worker_idx'[k] = worker_idx[k] /\ n'[k] = n[k]
             /\ lpc'[k] = lpc[k] /\ loops'[k] = loops[k]
  <2>1. worker_idx' = worker_idx \/ \E x : worker_idx' = [worker_idx EXCEPT ![l] = x]
    BY DEF StartParallelSection, LeaderStep, EnterLoop, SummonWorker, LeaveLoop,
       LoopDrained, EndParallelSection, Revoke, SectionDone, section_vars
  <2>2. n' = n \/ \E x : n' = [n EXCEPT ![l] = x]
    BY DEF StartParallelSection, LeaderStep, EnterLoop, SummonWorker, LeaveLoop,
       LoopDrained, EndParallelSection, Revoke, SectionDone
  <2>3. lpc' = lpc \/ \E x : lpc' = [lpc EXCEPT ![l] = x]
    BY DEF StartParallelSection, LeaderStep, EnterLoop, SummonWorker, LeaveLoop,
       LoopDrained, EndParallelSection, Revoke, SectionDone, Goto
  <2>4. loops' = loops \/ \E x : loops' = [loops EXCEPT ![l] = x]
    BY DEF StartParallelSection, LeaderStep, EnterLoop, SummonWorker, LeaveLoop,
       LoopDrained, EndParallelSection, Revoke, SectionDone
  <2>5. /\ worker_idx \in [Leader -> Nat] /\ n \in [Leader -> Nat] /\ loops \in [Leader -> Nat]
        /\ lpc \in [Leader -> {"idle", "section", "summon", "drain", "revoke"}]
    BY <1>0 DEF Types
  <2> QED BY <1>2, <2>1, <2>2, <2>3, <2>4, <2>5
<1>3. ASSUME NEW v \in Worker, wpc[v] # "idle", job[v] = l
      PROVE  worker_idx'[l] >= worker_idx[l]
  <2>1. ~SectionDone(l)
    BY <1>3, AllFinished DEF InSection
  <2>2. worker_idx' = worker_idx /\ worker_idx[l] \in Nat
    BY <1>0, <2>1 DEF StartParallelSection, LeaderStep, EnterLoop, SummonWorker, LeaveLoop,
       LoopDrained, EndParallelSection, Revoke, section_vars, Types
  <2> QED BY <2>2
<1>4. ASSUME NEW v \in Worker, wpc[v] = "fn", job[v] = l
      PROVE  /\ n'[l] = n[l]
             /\ l \notin SingleLoop =>
                  lpc'[l] \in {"summon", "drain"} /\ loops'[l] = loops[l]
  <2>1. ~SectionDone(l)
    BY <1>4, AllFinished DEF InSection
  <2>2. l \notin SingleLoop => lpc[l] \in {"summon", "drain"}
    BY <1>4 DEF IInv, WorkerInv
  <2>3. ~StartParallelSection(l)
    BY <1>4, SectionBusy DEF StartParallelSection, At
  <2>4. ~EnterLoop(l)
    <3>1. SUFFICES ASSUME EnterLoop(l) PROVE FALSE
      OBVIOUS
    <3>2. lpc[l] = "section" /\ loops[l] < Len(Dop[l]) /\ loops[l] \in Nat
      BY <1>0, <3>1 DEF EnterLoop, At, Types
    <3>3. l \in SingleLoop
      BY <2>2, <3>2
    <3>4. loops[l] = 0
      <4>1. Len(Dop[l]) = 1
        BY <3>3, DopAssumption
      <4> QED BY <3>2, <4>1
    <3> QED BY <3>3, <3>4, <1>0, <1>4, SectionBusy DEF LeaderInv
  <2>5. ~LoopDrained(l)
    <3>1. SUFFICES ASSUME LoopDrained(l) PROVE FALSE
      OBVIOUS
    <3>2. lpc[l] = "drain" /\ workers_in_loop[l] = 0 /\ l \notin SingleLoop
      BY <1>0, <3>1 DEF LoopDrained, At, LeaderInv
    <3>3. v \in InLoop(l)
      BY <1>4 DEF InLoop
    <3>4. Cardinality(InLoop(l)) = 0 /\ IsFiniteSet(InLoop(l))
      BY <1>0, <3>2, SetsFinite DEF LeaderInv
    <3> QED BY <3>3, <3>4, FS_EmptySet
  <2>6. loops' = loops /\ n' = n
    BY <2>1, <2>3, <2>4, <2>5 DEF LeaderStep, SummonWorker, LeaveLoop, EndParallelSection,
       Revoke
  <2>7. l \notin SingleLoop => lpc'[l] \in {"summon", "drain"}
    BY <1>0, <2>1, <2>2, <2>3, <2>4, <2>5 DEF LeaderStep, SummonWorker, LeaveLoop,
       EndParallelSection, Revoke, At, Goto, Types
  <2> QED BY <2>6, <2>7
<1>5. ASSUME NEW v \in Worker PROVE WorkerInv(v)'
  <2>1. wpc[v] # "idle" => job[v] \in Leader
    BY JobLeader
  <2>2. wpc[v] # "idle" => worker_idx'[job[v]] >= worker_idx[job[v]]
    <3>1. \A k \in Leader : worker_idx[k] \in Nat
      BY <1>0 DEF Types
    <3> QED BY <2>1, <3>1, <1>2, <1>3
  <2>3. wpc[v] = "fn" => n'[job[v]] = n[job[v]]
    BY <2>1, <1>2, <1>4
  <2>4. wpc[v] = "fn" /\ job[v] \notin SingleLoop =>
          lpc'[job[v]] \in {"summon", "drain"} /\ loops'[job[v]] = loops[job[v]]
    <3>1. wpc[v] = "fn" /\ job[v] \notin SingleLoop => lpc[job[v]] \in {"summon", "drain"}
      BY DEF IInv, WorkerInv
    <3> QED BY <2>1, <3>1, <1>2, <1>4
  <2> QED BY <1>1, <2>2, <2>3, <2>4, WorkerKept
<1> QED BY <1>5

\* A worker's step does not disturb the others.
LEMMA OthersKeep ==
  ASSUME IInv, Types', NEW w \in Worker, WorkerStep(w)
  PROVE  \A v \in Worker \ {w} : WorkerInv(v)' /\ my_idx'[v] = my_idx[v] /\ job'[v] = job[v]
<1>0. Types
  BY DEF IInv
<1>1. n' = n /\ lpc' = lpc /\ loops' = loops
  BY DEF WorkerStep, Take, TakeIndex, TestActive, Peek, JoinLoop, ReadLoop, QuitLoop,
     FinishTask, leader_vars
<1>2. \A k \in Leader : worker_idx'[k] >= worker_idx[k]
  <2>1. worker_idx' = worker_idx \/ worker_idx' = [worker_idx EXCEPT ![job[w]] = @ + 1]
    BY DEF WorkerStep, Take, TakeIndex, TestActive, Peek, JoinLoop, ReadLoop, QuitLoop,
       FinishTask, section_vars
  <2>2. worker_idx \in [Leader -> Nat]
    BY <1>0 DEF Types
  <2>3. ASSUME NEW k \in Leader PROVE worker_idx'[k] \in {worker_idx[k], worker_idx[k] + 1}
    BY <2>1, <2>2
  <2> QED BY <2>2, <2>3
<1>3. ASSUME NEW v \in Worker, v # w
      PROVE  /\ job'[v] = job[v] /\ wpc'[v] = wpc[v] /\ my_idx'[v] = my_idx[v]
             /\ work_item'[v] = work_item[v]
  <2>1. job' = job \/ \E x : job' = [job EXCEPT ![w] = x]
    BY DEF WorkerStep, Take, TakeIndex, TestActive, Peek, JoinLoop, ReadLoop, QuitLoop,
       FinishTask
  <2>2. wpc' = wpc \/ \E x : wpc' = [wpc EXCEPT ![w] = x]
    BY DEF WorkerStep, Take, TakeIndex, TestActive, Peek, JoinLoop, ReadLoop, QuitLoop,
       FinishTask, Go
  <2>3. my_idx' = my_idx \/ \E x : my_idx' = [my_idx EXCEPT ![w] = x]
    BY DEF WorkerStep, Take, TakeIndex, TestActive, Peek, JoinLoop, ReadLoop, QuitLoop,
       FinishTask
  <2>4. work_item' = work_item \/ \E x : work_item' = [work_item EXCEPT ![w] = x]
    BY DEF WorkerStep, Take, TakeIndex, TestActive, Peek, JoinLoop, ReadLoop, QuitLoop,
       FinishTask
  <2>5. DOMAIN job = Worker /\ DOMAIN wpc = Worker /\ DOMAIN my_idx = Worker
        /\ DOMAIN work_item = Worker
    BY <1>0 DEF Types
  <2> QED BY <1>3, <2>1, <2>2, <2>3, <2>4, <2>5
<1>4. ASSUME NEW v \in Worker, v # w PROVE WorkerInv(v)'
  <2>1. wpc[v] # "idle" => worker_idx'[job[v]] >= worker_idx[job[v]]
    BY <1>2, JobLeader
  <2>2. wpc[v] = "fn" /\ job[v] \notin SingleLoop => lpc[job[v]] \in {"summon", "drain"}
    BY DEF IInv, WorkerInv
  <2> QED BY <1>1, <1>3, <1>4, <2>1, <2>2, WorkerKept
<1> QED BY <1>3, <1>4

\* A worker's step leaves it in a proper place.
LEMMA OwnStep ==
  ASSUME IInv, Types', NEW w \in Worker, WorkerStep(w)
  PROVE  WorkerInv(w)'
<1> DEFINE l == job[w]
<1>0. Types /\ WorkerInv(w)
  BY DEF IInv
<1>1. ASSUME NEW q \in Worker, NEW s \in Slot, Take(w, q, s) PROVE WorkerInv(w)'
  <2>1. /\ wpc[w] = "idle" /\ job'[w] = queue[q][s].from /\ my_idx' = my_idx
        /\ wpc'[w] = IF queue[q][s].from = Nobody THEN "idle" ELSE "index"
    BY <1>0, <1>1 DEF Take, Is, Go, Types
  <2>2. Nobody \notin SingleLoop
    BY LeaderAssumption
  <2> QED BY <1>0, <2>1, <2>2 DEF WorkerInv
<1>2. CASE TakeIndex(w)
  <2>1. /\ wpc[w] = "index" /\ l \in Leader /\ l # Nobody /\ LeaderInv(l)
    BY <1>2, JobLeader DEF TakeIndex, Is, IInv
  <2>2. /\ job' = job /\ wpc'[w] = (IF l \in SingleLoop THEN "fn" ELSE "test")
        /\ my_idx'[w] = worker_idx[l] + 1 /\ worker_idx'[l] = worker_idx[l] + 1
        /\ worker_idx[l] \in Nat /\ n' = n
    BY <1>0, <1>2, <2>1 DEF TakeIndex, Go, Types, leader_vars
  <2>3. ASSUME l \in SingleLoop PROVE worker_idx[l] + 1 < n[l]
    <3>1. /\ Cardinality(Indexed(l)) \in Nat /\ Cardinality(InSection(l)) \in Nat
          /\ Cardinality(Pushed(l)) \in Nat /\ tasks_finished[l] \in Nat
          /\ n[l] \in Nat /\ left[l] \in Nat /\ IsFiniteSet(InSection(l))
      BY <1>0, <2>1, SetsFinite DEF Types
    <3>2. Cardinality(Indexed(l)) < Cardinality(InSection(l))
      <4>1. Indexed(l) \in SUBSET InSection(l) /\ w \in InSection(l) /\ w \notin Indexed(l)
        BY <2>1 DEF Indexed, InSection
      <4> QED BY <4>1, <3>1, FS_Subset
    <3>3. Total(l) # 0
      BY <2>1, SectionBusy
    <3>4. Total(l) + left[l] + 1 <= n[l] /\ worker_idx[l] = tasks_finished[l] + Cardinality(Indexed(l))
      BY <2>1, <2>3, <3>3 DEF LeaderInv
    <3> HIDE DEF l
    <3> QED BY <3>1, <3>2, <3>4 DEF Total
  <2>4. my_idx'[w] \in 1..worker_idx'[l]
    BY <2>2
  <2> QED BY <1>0, <2>1, <2>2, <2>3, <2>4 DEF WorkerInv
<1>3. CASE TestActive(w) \/ Peek(w) \/ JoinLoop(w)
  <2>1. /\ wpc[w] \in {"test", "peek", "join"} /\ job' = job /\ my_idx' = my_idx
        /\ wpc'[w] \in {"test", "peek", "join", "read", "finish"} /\ worker_idx' = worker_idx
    BY <1>0, <1>3 DEF TestActive, Peek, JoinLoop, Is, Go, Types, section_vars
  <2> QED BY <1>0, <2>1 DEF WorkerInv
<1>4. CASE ReadLoop(w)
  <2>1. /\ wpc[w] = "read" /\ l \in Leader /\ l # Nobody /\ LeaderInv(l)
    BY <1>4, JobLeader DEF ReadLoop, Is, IInv
  <2>2. /\ job' = job /\ my_idx' = my_idx /\ worker_idx' = worker_idx /\ n' = n
        /\ loops' = loops /\ lpc' = lpc /\ work_item'[w] = current_loop[l]
        /\ wpc'[w] = IF current_loop[l] # 0 /\ my_idx[w] < n[l] THEN "fn" ELSE "skip"
    BY <1>0, <1>4 DEF ReadLoop, Go, Types, leader_vars, section_vars
  <2>3. current_loop[l] # 0 => lpc[l] = "summon" /\ current_loop[l] = loops[l]
    BY <2>1 DEF LeaderInv
  <2> QED BY <1>0, <2>1, <2>2, <2>3 DEF WorkerInv
<1>5. CASE QuitLoop(w)
  <2>1. /\ wpc[w] \in {"fn", "skip"} /\ wpc'[w] = "test" /\ job' = job /\ my_idx' = my_idx
        /\ worker_idx' = worker_idx /\ l \notin SingleLoop
    BY <1>0, <1>5 DEF QuitLoop, Is, Go, Types, WorkerInv
  <2> QED BY <1>0, <2>1 DEF WorkerInv
<1>6. CASE FinishTask(w)
  <2>1. wpc'[w] = "idle" /\ job'[w] = Nobody /\ my_idx'[w] = 0
    BY <1>0, <1>6 DEF FinishTask, Go, Types
  <2>2. Nobody \notin SingleLoop
    BY LeaderAssumption
  <2> QED BY <2>1, <2>2 DEF WorkerInv
<1> QED BY <1>1, <1>2, <1>3, <1>4, <1>5, <1>6 DEF WorkerStep

\* No two workers of a section get the same index.
LEMMA IndexStep ==
  ASSUME IInv, [Next]_vars
  PROVE  IndexInv'
<1>0. Types /\ IndexInv
  BY DEF IInv
<1>1. CASE my_idx' = my_idx /\ job' = job
  BY <1>0, <1>1 DEF IndexInv
<1>2. ASSUME NEW w \in Worker, WorkerStep(w), Types' PROVE IndexInv'
  <2>1. \A v \in Worker : v # w => my_idx'[v] = my_idx[v] /\ job'[v] = job[v]
    BY <1>2, OthersKeep
  <2>2. CASE my_idx'[w] = 0
    BY <1>0, <2>1, <2>2 DEF IndexInv
  <2>3. CASE my_idx' = my_idx /\ job' = job
    BY <2>3, <1>1
  <2>4. CASE TakeIndex(w)
    <3>1. job[w] \in Leader /\ worker_idx[job[w]] \in Nat /\ job' = job
      BY <2>4, <1>0, JobLeader DEF TakeIndex, Is, Types
    <3>2. my_idx'[w] = worker_idx[job[w]] + 1
      BY <2>4, <1>0 DEF TakeIndex, Types
    <3>3. ASSUME NEW v \in Worker, v # w, job[v] = job[w] PROVE my_idx[v] # my_idx'[w]
      <4>1. my_idx[v] = 0 \/ my_idx[v] \in 1..worker_idx[job[w]]
        BY <3>3 DEF IInv, WorkerInv
      <4> QED BY <3>1, <3>2, <4>1
    <3> QED BY <1>0, <2>1, <3>1, <3>3 DEF IndexInv
  <2>5. ASSUME NEW q \in Worker, NEW s \in Slot, Take(w, q, s) PROVE my_idx'[w] = 0
    BY <2>5 DEF Take, Is, IInv, WorkerInv
  <2>6. ASSUME FinishTask(w) PROVE my_idx'[w] = 0
    BY <2>6, <1>0 DEF FinishTask, Types
  <2> QED BY <1>2, <2>2, <2>3, <2>4, <2>5, <2>6
          DEF WorkerStep, TestActive, Peek, JoinLoop, ReadLoop, QuitLoop
<1>3. ASSUME NEW l \in Leader, StartParallelSection(l) \/ LeaderStep(l)
      PROVE  my_idx' = my_idx /\ job' = job
  BY <1>3 DEF StartParallelSection, LeaderStep, EnterLoop, SummonWorker, LeaveLoop, LoopDrained,
     EndParallelSection, Revoke, SectionDone, worker_vars
<1>4. ASSUME NEW q \in Scheduled, NEW s \in Slot, Schedule(q, s)
      PROVE  my_idx' = my_idx /\ job' = job
  BY <1>4 DEF Schedule, worker_vars
<1>5. CASE UNCHANGED vars
  BY <1>1, <1>5 DEF vars, worker_vars
<1>6. Types'
  BY TypesStep
<1> QED BY <1>1, <1>2, <1>3, <1>4, <1>5, <1>6 DEF Next

\* Every worker is in a proper place after every step.
LEMMA WorkersStep ==
  ASSUME IInv, [Next]_vars
  PROVE  \A v \in Worker : WorkerInv(v)'
<1>1. Types'
  BY TypesStep
<1>2. ASSUME NEW w \in Worker, WorkerStep(w) PROVE \A v \in Worker : WorkerInv(v)'
  BY <1>1, <1>2, OthersKeep, OwnStep
<1>3. CASE UNCHANGED <<worker_vars, section_vars, leader_vars>>
  <2>1. \A k \in Leader : worker_idx[k] \in Nat
    BY DEF IInv, Types
  <2>2. ASSUME NEW v \in Worker PROVE WorkerInv(v)'
    <3>1. /\ job' = job /\ wpc' = wpc /\ my_idx' = my_idx /\ work_item' = work_item
          /\ worker_idx' = worker_idx /\ n' = n /\ lpc' = lpc /\ loops' = loops
      BY <1>3 DEF worker_vars, section_vars, leader_vars
    <3> QED BY <3>1 DEF IInv, WorkerInv
  <2> QED BY <2>2
<1>4. ASSUME NEW q \in Scheduled, NEW s \in Slot, Schedule(q, s)
      PROVE  UNCHANGED <<worker_vars, section_vars, leader_vars>>
  BY <1>4 DEF Schedule
<1>5. CASE UNCHANGED vars
  BY <1>3, <1>5 DEF vars
<1> QED BY <1>1, <1>2, <1>3, <1>4, <1>5, LeaderWorkers DEF Next

-----------------------------------------------------------------------------
(***************************************************************************)
(* The theorems.                                                           *)
(***************************************************************************)

\* Nobody leads a section, no task is in a queue and no worker has one.
LEMMA InitInv == Init => IInv
<1> SUFFICES ASSUME Init PROVE IInv
  OBVIOUS
<1>1. Types
  <2>1. <<>> \in Seq(Worker \X Slot)
    OBVIOUS
  <2>2. queue \in [Worker -> [Slot -> [from: Leader \cup {Nobody}, tag: -1..(TAG_SPACE - 1)]]]
    BY TagAssumption DEF Init, Empty
  <2> QED BY <2>1, <2>2, TagAssumption DEF Init, Types
<1>2. TagInv
  <2>1. Tagged = {} /\ Cardinality(Tagged) = 0
    BY FS_EmptySet DEF Init, Tagged
  <2>2. GetNext = FirstTag /\ FirstTag \in Nat
    BY TagAssumption DEF Init, GetNext, FirstTag
  <2>3. Distance(GetNext) = 0
    BY <2>2 DEF Distance
  <2> QED BY <2>1, <2>3 DEF TagInv
<1>3. QueueInv
  BY DEF Init, QueueInv
<1>4. ASSUME NEW l \in Leader PROVE LeaderInv(l)
  <2>0. l # Nobody /\ Len(<<>>) = 0
    BY LeaderAssumption
  <2>1. Pushed(l) = {} /\ InSection(l) = {} /\ Indexed(l) = {} /\ InLoop(l) = {}
    BY <2>0 DEF Init, Empty, Pushed, InSection, Indexed, InLoop
  <2>2. /\ Cardinality(Pushed(l)) = 0 /\ Cardinality(InSection(l)) = 0
        /\ Cardinality(Indexed(l)) = 0 /\ Cardinality(InLoop(l)) = 0
    BY <2>1, FS_EmptySet
  <2>3. Total(l) = 0
    BY <2>2 DEF Total, Init
  <2> QED BY <2>0, <2>2, <2>3 DEF LeaderInv, Init
<1>5. ASSUME NEW w \in Worker PROVE WorkerInv(w)
  BY LeaderAssumption DEF Init, WorkerInv
<1>6. IndexInv
  BY DEF Init, IndexInv
<1> QED BY <1>1, <1>2, <1>3, <1>4, <1>5, <1>6 DEF IInv

\* The tags, the queues, the leaders' books and the workers' places and indices
\* stay in order together.
THEOREM Inductive == Spec => []IInv
<1>1. IInv /\ [Next]_vars => IInv'
  <2>1. SUFFICES ASSUME IInv, [Next]_vars PROVE IInv'
    OBVIOUS
  <2>2. Types' /\ (\A l \in Leader : LeaderInv(l)') /\ (\A w \in Worker : WorkerInv(w)')
    BY <2>1, TypesStep, BooksStep, WorkersStep
  <2>3. TagInv' /\ QueueInv' /\ IndexInv'
    BY <2>1, TagStep, QueueStep, IndexStep DEF IInv
  <2> QED BY <2>2, <2>3 DEF IInv
<1> QED BY InitInv, <1>1, PTL DEF Spec

\* When EndParallelSection has returned, no worker is in the section and no
\* queue holds a task of it, whatever the leaders, workers, queues and loops,
\* as long as no two leaders have the same tag (TagAssumption).  With a tag that
\* is used again it does not hold: a leader that finds another's task in a slot
\* it once pushed to revokes it, waits for one task too few, and may return
\* while a worker is in its section.
THEOREM SectionSafe == Spec => []SectionOutlivesWorkers
<1>1. IInv => SectionOutlivesWorkers
  <2> SUFFICES ASSUME IInv, NEW l \in Leader, lpc[l] = "idle"
               PROVE  InSection(l) = {} /\ Pushed(l) = {}
    BY DEF SectionOutlivesWorkers, At
  <2>1. /\ Cardinality(Pushed(l)) \in Nat /\ Cardinality(InSection(l)) \in Nat
        /\ IsFiniteSet(Pushed(l)) /\ IsFiniteSet(InSection(l)) /\ tasks_finished[l] = 0
    BY SetsFinite DEF IInv, LeaderInv
  <2>2. Total(l) = 0
    <3>1. Len(<<>>) = 0
      OBVIOUS
    <3> QED BY <3>1 DEF IInv, LeaderInv
  <2>3. Cardinality(Pushed(l)) = 0 /\ Cardinality(InSection(l)) = 0
    BY <2>1, <2>2 DEF Total
  <2> QED BY <2>1, <2>3, FS_EmptySet
<1> QED BY Inductive, <1>1, PTL

\* A worker runs fn of a loop only while RunInParallelSection is in that loop.
THEOREM LoopSafe == Spec => []LoopOutlivesReaders
<1>1. IInv => LoopOutlivesReaders
  BY DEF IInv, WorkerInv, LoopOutlivesReaders, Is
<1> QED BY Inductive, <1>1, PTL

\* The workers of a section have different indices, and run a loop only with
\* an index between 1 and its degree of parallelism; every variable has its type.
THEOREM IndicesSafe == Spec => []IndicesDistinct
<1>1. IInv => IndicesDistinct
  <2> SUFFICES ASSUME IInv PROVE IndicesDistinct
    OBVIOUS
  <2>1. TypeOK
    <3>1. \A l \in Leader : current_loop[l] \in {0, loops[l]}
      BY DEF IInv, LeaderInv
    <3>2. workers_in_loop \in [Leader -> 0..Cardinality(Worker)]
      <4>1. workers_in_loop \in [Leader -> Int]
        BY DEF IInv, Types
      <4>2. ASSUME NEW l \in Leader PROVE workers_in_loop[l] \in 0..Cardinality(Worker)
        <5>1. workers_in_loop[l] \in {0, Cardinality(InLoop(l))}
          BY DEF IInv, LeaderInv
        <5> QED BY <5>1, SetsFinite
      <4> QED BY <4>1, <4>2
    <3> QED BY <3>1, <3>2 DEF IInv, Types, TypeOK
  <2>2. ASSUME NEW w \in Worker, wpc[w] = "fn" PROVE my_idx[w] \in 1..(n[job[w]] - 1)
    <3>1. my_idx[w] \in 1..worker_idx[job[w]] /\ my_idx[w] < n[job[w]]
      BY <2>2 DEF IInv, WorkerInv
    <3>2. n[job[w]] \in Nat /\ worker_idx[job[w]] \in Nat
      BY <2>2, JobLeader DEF IInv, Types
    <3> QED BY <3>1, <3>2
  <2> QED BY <2>1, <2>2 DEF IndicesDistinct, IInv, IndexInv, Is
<1> QED BY Inductive, <1>1, PTL

\* A leader that revokes takes only tasks of its own out of the queues.
THEOREM RevokesSafe == Spec => RevokesOnlyItsOwn
<1> DEFINE Own ==
      \A l \in Leader :
        Len(tasks'[l]) < Len(tasks[l]) =>
          \A q \in Worker, s \in Slot :
            queue'[q][s] # queue[q][s] => queue[q][s].from = l
<1>1. IInv /\ [Next]_vars => [Own]_vars
  <2> SUFFICES ASSUME IInv, Next, NEW l \in Leader, Len(tasks'[l]) < Len(tasks[l]),
                      NEW p \in Worker, NEW r \in Slot, queue'[p][r] # queue[p][r]
               PROVE  queue[p][r].from = l
    OBVIOUS
  <2>0. tasks \in [Leader -> Seq(Worker \X Slot)]
    BY DEF IInv, Types
  <2>1. tasks'[l] # tasks[l] /\ Len(tasks[l]) \in Nat
    BY <2>0
  <2>2. ASSUME NEW k \in Leader, SummonWorker(k) PROVE FALSE
    <3>1. PICK x \in Worker \X Slot : tasks' = [tasks EXCEPT ![k] = Append(@, x)]
      BY <2>1, <2>2 DEF SummonWorker
    <3>2. k = l
      BY <2>0, <2>1, <3>1
    <3>3. Len(tasks'[l]) = Len(tasks[l]) + 1
      BY <2>0, <3>1, <3>2
    <3> QED BY <2>1, <3>3
  <2>3. Revoke(l)
    <3>1. \E k \in Leader : Revoke(k)
      BY <2>1, <2>2 DEF Next, StartParallelSection, LeaderStep, EnterLoop, LeaveLoop,
         LoopDrained, EndParallelSection, SectionDone, WorkerStep, Take, TakeIndex, TestActive,
         Peek, JoinLoop, ReadLoop, QuitLoop, FinishTask, Schedule, leader_vars
    <3>2. ASSUME NEW k \in Leader, k # l, Revoke(k) PROVE tasks'[l] = tasks[l]
      BY <2>0, <3>2 DEF Revoke
    <3> QED BY <2>1, <3>1, <3>2
  <2>4. PICK q \in Worker, s \in Slot : tasks[l][Len(tasks[l])] = <<q, s>>
    <3>1. tasks[l] \in Seq(Worker \X Slot) /\ tasks[l] # <<>>
      BY <2>0, <2>3 DEF Revoke
    <3>2. tasks[l][Len(tasks[l])] \in Worker \X Slot
      BY <3>1, LastTask
    <3> QED BY <3>2
  <2>5. queue[q][s].tag = tag[l] /\ queue' = [queue EXCEPT ![q][s] = Empty]
    BY <2>3, <2>4 DEF Revoke
  <2>6. p = q /\ r = s
    BY <2>5 DEF IInv, Types
  <2> QED BY <2>3, <2>5, <2>6, TagNamesLeader DEF Revoke, At
<1> QED BY Inductive, <1>1, PTL DEF Spec, RevokesOnlyItsOwn
=============================================================================
