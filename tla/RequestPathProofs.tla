------------------------- MODULE RequestPathProofs --------------------------
(***************************************************************************)
(* The request path is an in-order, exactly-once service in which each     *)
(* read comes with its own data; its two queues stay in step with the      *)
(* memory's pipeline and never hold more than LATENCY + 1 words.  All for  *)
(* every set of tags, every set of data words and every memory latency.    *)
(* The refinement rests on the invariant: that the k-th queued read meets  *)
(* the k-th reply is what the queues being in step makes possible.         *)
(***************************************************************************)
EXTENDS RequestPath, FunctionTheorems, FiniteSetTheorems, SequenceTheorems, TLAPS

-----------------------------------------------------------------------------
(***************************************************************************)
(* Counting the reads of a queue.                                          *)
(***************************************************************************)
\* The reads among the first i commands are finitely many, at most i.
LEMMA CountFinite ==
  ASSUME NEW q, NEW i \in Nat
  PROVE  /\ IsFiniteSet({j \in 1..i : q[j].rd})
         /\ Cardinality({j \in 1..i : q[j].rd}) \in Nat
         /\ Cardinality({j \in 1..i : q[j].rd}) <= i
<1>1. IsFiniteSet(1..i) /\ Cardinality(1..i) = i
  BY FS_Interval
<1>2. {j \in 1..i : q[j].rd} \in SUBSET (1..i)
  OBVIOUS
<1> QED BY <1>1, <1>2, FS_Subset, FS_CardinalityType

\* Their number.
LEMMA CountType ==
  ASSUME NEW q, NEW i \in Nat
  PROVE  ReadsUpTo(q, i) \in Nat /\ ReadsUpTo(q, i) <= i
  BY CountFinite DEF ReadsUpTo

\* Among no commands there is no read.
LEMMA CountZero ==
  ASSUME NEW q
  PROVE  ReadsUpTo(q, 0) = 0
<1>1. {j \in 1..0 : q[j].rd} = {}
  OBVIOUS
<1> QED BY <1>1, FS_EmptySet DEF ReadsUpTo

\* One more command adds one if it is a read.
LEMMA CountNext ==
  ASSUME NEW q, NEW i \in Nat, q[i + 1].rd \in BOOLEAN
  PROVE  ReadsUpTo(q, i + 1) = ReadsUpTo(q, i) + (IF q[i + 1].rd THEN 1 ELSE 0)
<1> DEFINE S == {j \in 1..i : q[j].rd}
<1>1. IsFiniteSet(S) /\ ReadsUpTo(q, i) = Cardinality(S)
  BY CountFinite DEF ReadsUpTo
<1>2. CASE q[i + 1].rd
  <2>1. {j \in 1..(i + 1) : q[j].rd} = S \cup {i + 1} /\ i + 1 \notin S
    BY <1>2
  <2> QED BY <1>1, <1>2, <2>1, FS_AddElement DEF ReadsUpTo
<1>3. CASE ~q[i + 1].rd
  <2>1. {j \in 1..(i + 1) : q[j].rd} = S
    BY <1>3
  <2>2. ReadsUpTo(q, i + 1) = ReadsUpTo(q, i)
    BY <2>1 DEF ReadsUpTo
  <2>3. ReadsUpTo(q, i) + 0 = ReadsUpTo(q, i)
    BY CountType
  <2> QED BY <1>3, <2>2, <2>3, Zenon
<1> QED BY <1>2, <1>3

\* Looking at more commands finds no fewer reads.
LEMMA CountMonotone ==
  ASSUME NEW q, NEW i \in Nat, NEW k \in Nat, i <= k
  PROVE  ReadsUpTo(q, i) <= ReadsUpTo(q, k)
<1>1. {j \in 1..i : q[j].rd} \in SUBSET {j \in 1..k : q[j].rd}
  OBVIOUS
<1> QED BY <1>1, CountFinite, FS_Subset DEF ReadsUpTo

\* Only the commands counted matter.
LEMMA CountAgree ==
  ASSUME NEW q, NEW r, NEW i \in Nat, \A j \in 1..i : q[j] = r[j]
  PROVE  ReadsUpTo(q, i) = ReadsUpTo(r, i)
<1>1. {j \in 1..i : q[j].rd} = {j \in 1..i : r[j].rd}
  OBVIOUS
<1> QED BY <1>1 DEF ReadsUpTo

\* Counting in a queue whose first command was removed.
LEMMA CountShift ==
  ASSUME NEW q, NEW r, NEW i \in Nat, q[1].rd \in BOOLEAN,
         \A j \in 1..i : r[j] = q[j + 1]
  PROVE  ReadsUpTo(q, i + 1) = ReadsUpTo(r, i) + (IF q[1].rd THEN 1 ELSE 0)
<1> DEFINE R == {j \in 1..i : r[j].rd}
           U == {j \in 2..(i + 1) : q[j].rd}
           f == [j \in R |-> j + 1]
<1>1. IsFiniteSet(R)
  BY CountFinite
<1>2. ExistsBijection(R, U)
  <2>1. f \in [R -> U]
    OBVIOUS
  <2>2. \A a, b \in R : f[a] = f[b] => a = b
    OBVIOUS
  <2>3. \A u \in U : \E j \in R : f[j] = u
    <3> SUFFICES ASSUME NEW u \in U PROVE \E j \in R : f[j] = u
      OBVIOUS
    <3>1. u - 1 \in R
      OBVIOUS
    <3> QED BY <3>1
  <2> HIDE DEF f, R, U
  <2>4. f \in Bijection(R, U)
    BY <2>1, <2>2, <2>3, Fun_IsBij
  <2> QED BY <2>4, Fun_ExistsBij
<1>3. IsFiniteSet(U) /\ Cardinality(U) = Cardinality(R)
  BY <1>1, <1>2, FS_Bijection
<1>4. CASE q[1].rd
  <2>1. {j \in 1..(i + 1) : q[j].rd} = U \cup {1} /\ 1 \notin U
    BY <1>4
  <2> QED BY <1>3, <1>4, <2>1, FS_AddElement DEF ReadsUpTo
<1>5. CASE ~q[1].rd
  <2>1. {j \in 1..(i + 1) : q[j].rd} = U
    BY <1>5
  <2>2. ReadsUpTo(q, i + 1) = ReadsUpTo(r, i)
    BY <1>3, <2>1 DEF ReadsUpTo
  <2>3. ReadsUpTo(r, i) + 0 = ReadsUpTo(r, i)
    BY CountType
  <2> QED BY <1>5, <2>2, <2>3, Zenon
<1> QED BY <1>4, <1>5

-----------------------------------------------------------------------------
(***************************************************************************)
(* What a clock edge does to the queues, index by index.                   *)
(***************************************************************************)

\* What the bus and the memory can put on the inputs in one cycle.
Inputs(cmd, bypass, issued) ==
  /\ cmd \in Seq(Command) /\ Len(cmd) < 2
  /\ bypass \in {<<>>} \cup {<<q>> : q \in Service!Request}
  /\ bypass # <<>> => cmd = <<>>
  /\ issued \in Seq(Flight)
  /\ Len(issued) = IF Len(cmd) = 1 /\ cmd[1].rd THEN 1 ELSE 0
  /\ \A i \in 1..Len(issued) : issued[i].age = 0

Dequeued(dstC)     == IF CAS_rw_queue_rd_en(dstC) THEN 1 ELSE 0
DequeuedData(dstC) == IF CAS_read_data_QUEUE_rd_en(dstC) THEN 1 ELSE 0
Replied(reply)     == IF reply THEN 1 ELSE 0

\* What is dequeued in a cycle, and under which conditions: a read only together
\* with its data, nothing while a result write is on the bus.
LEMMA DequeueCases ==
  ASSUME TypeOK, NEW dstC \in BOOLEAN
  PROVE  /\ Dequeued(dstC) \in {0, 1}
         /\ DequeuedData(dstC) \in {0, 1}
         /\ Dequeued(dstC) = 1 => Len(rw_queue) > 0 /\ ~dstC
         /\ DequeuedData(dstC) = 1 => Len(read_data_queue) > 0
         /\ Dequeued(dstC) = 1 =>
              DequeuedData(dstC) = IF rw_queue[1].rd THEN 1 ELSE 0
         /\ Dequeued(dstC) = 0 => DequeuedData(dstC) = 0
         /\ Dequeued(dstC) = 0 /\ ~dstC /\ Len(rw_queue) > 0 =>
              rw_queue[1].rd /\ Len(read_data_queue) = 0
<1>1. rw_queue # <<>> => Head(rw_queue) = rw_queue[1] /\ rw_queue[1] \in Command
  BY HeadTailProperties, EmptySeq, ElementOfSeq DEF TypeOK
<1>2. rw_queue # <<>> <=> Len(rw_queue) > 0
  BY EmptySeq DEF TypeOK
<1>3. read_data_queue # <<>> <=> Len(read_data_queue) > 0
  BY EmptySeq DEF TypeOK
<1>4. Len(read_data_queue) \in Nat
  BY DEF TypeOK
<1> QED BY <1>1, <1>2, <1>3, <1>4
        DEF Dequeued, DequeuedData, CAS_rw_queue_rd_en,
            CAS_read_data_QUEUE_rd_en, ui_read_valid, ui_write_valid, Command

\* The command queue after a possible dequeue.
LEMMA KeptCommands ==
  ASSUME TypeOK, NEW dstC \in BOOLEAN
  PROVE  LET K == IF CAS_rw_queue_rd_en(dstC) THEN Tail(rw_queue) ELSE rw_queue
             s == Dequeued(dstC)
         IN  /\ K \in Seq(Command)
             /\ Len(K) = Len(rw_queue) - s
             /\ \A i \in 1..Len(K) : K[i] = rw_queue[i + s]
             /\ \A i \in 0..Len(K) :
                  ReadsUpTo(K, i) = ReadsUpTo(rw_queue, i + s) - DequeuedData(dstC)
<1> DEFINE K == IF CAS_rw_queue_rd_en(dstC) THEN Tail(rw_queue) ELSE rw_queue
<1>0. rw_queue \in Seq(Command) /\ Len(rw_queue) \in Nat
  BY DEF TypeOK
<1>1. CASE CAS_rw_queue_rd_en(dstC)
  <2>1. Dequeued(dstC) = 1 /\ K = Tail(rw_queue)
    BY <1>1 DEF Dequeued
  <2>2. rw_queue # <<>>
    BY <2>1, DequeueCases, EmptySeq
  <2>3. /\ Tail(rw_queue) \in Seq(Command)
        /\ Len(Tail(rw_queue)) = Len(rw_queue) - 1
        /\ \A i \in 1..Len(Tail(rw_queue)) : Tail(rw_queue)[i] = rw_queue[i + 1]
    BY <1>0, <2>2, HeadTailProperties
  <2>4. rw_queue[1].rd \in BOOLEAN
    <3>1. 1 \in 1..Len(rw_queue)
      BY <1>0, <2>1, DequeueCases
    <3>2. rw_queue[1] \in Command
      BY <1>0, <3>1, ElementOfSeq
    <3> QED BY <3>2 DEF Command
  <2>5. ASSUME NEW i \in 0..Len(Tail(rw_queue))
        PROVE  ReadsUpTo(rw_queue, i + 1) =
                 ReadsUpTo(Tail(rw_queue), i) + DequeuedData(dstC)
    <3>1. i \in Nat /\ \A j \in 1..i : Tail(rw_queue)[j] = rw_queue[j + 1]
      BY <1>0, <2>3
    <3>2. ReadsUpTo(rw_queue, i + 1) = ReadsUpTo(Tail(rw_queue), i)
                                       + (IF rw_queue[1].rd THEN 1 ELSE 0)
      BY <2>4, <3>1, CountShift
    <3>3. DequeuedData(dstC) = IF rw_queue[1].rd THEN 1 ELSE 0
      BY <2>1, DequeueCases
    <3> QED BY <3>2, <3>3, Zenon
  <2>6. ASSUME NEW i \in 0..Len(Tail(rw_queue))
        PROVE  ReadsUpTo(Tail(rw_queue), i) =
                 ReadsUpTo(rw_queue, i + 1) - DequeuedData(dstC)
    BY <1>0, <2>3, <2>5, CountType, DequeueCases
  <2> QED BY <2>1, <2>3, <2>6
<1>2. CASE ~CAS_rw_queue_rd_en(dstC)
  <2>1. Dequeued(dstC) = 0 /\ K = rw_queue
    BY <1>2 DEF Dequeued
  <2>2. DequeuedData(dstC) = 0
    BY <2>1, DequeueCases
  <2>3. Len(rw_queue) = Len(rw_queue) - 0
    BY <1>0
  <2>4. \A i \in 1..Len(rw_queue) : rw_queue[i] = rw_queue[i + 0]
    BY <1>0
  <2>5. ASSUME NEW i \in 0..Len(rw_queue)
        PROVE  ReadsUpTo(rw_queue, i) = ReadsUpTo(rw_queue, i + 0) - 0
    <3>1. i \in Nat /\ i + 0 = i
      BY <1>0
    <3> QED BY <3>1, CountType
  <2> QED BY <1>0, <2>1, <2>2, <2>3, <2>4, <2>5
<1> QED BY <1>1, <1>2

\* The command queue after a clock edge, index by index.
LEMMA CommandsStep ==
  ASSUME TypeOK, NEW cmd, NEW bypass, NEW issued, NEW reply \in BOOLEAN,
         Inputs(cmd, bypass, issued), Clock(cmd, bypass, issued, reply)
  PROVE  LET s == Dequeued(bypass # <<>>)
             p == DequeuedData(bypass # <<>>)
             n == Len(rw_queue) - s
         IN  /\ rw_queue' \in Seq(Command)
             /\ n \in Nat
             /\ Len(rw_queue') = n + Len(cmd)
             /\ \A i \in 1..n : rw_queue'[i] = rw_queue[i + s]
             /\ \A i \in 0..n :
                  ReadsUpTo(rw_queue', i) = ReadsUpTo(rw_queue, i + s) - p
             /\ Len(cmd) = 1 => rw_queue'[n + 1] = cmd[1]
<1> DEFINE dstC == bypass # <<>>
           K == IF CAS_rw_queue_rd_en(dstC) THEN Tail(rw_queue) ELSE rw_queue
           s == Dequeued(dstC)
           p == DequeuedData(dstC)
           n == Len(rw_queue) - s
<1>1. /\ K \in Seq(Command)
      /\ Len(K) = n
      /\ \A i \in 1..Len(K) : K[i] = rw_queue[i + s]
      /\ \A i \in 0..Len(K) : ReadsUpTo(K, i) = ReadsUpTo(rw_queue, i + s) - p
  BY KeptCommands
<1>2. rw_queue' = K \o cmd
  BY DEF Clock
<1>3. cmd \in Seq(Command) /\ Len(cmd) \in Nat
  BY DEF Inputs
<1> HIDE DEF K, s, p, n, dstC
<1>4. n \in Nat
  BY <1>1
<1>5. /\ rw_queue' \in Seq(Command)
      /\ Len(rw_queue') = n + Len(cmd)
      /\ \A i \in 1..(n + Len(cmd)) :
           rw_queue'[i] = IF i <= n THEN K[i] ELSE cmd[i - n]
  BY <1>1, <1>2, <1>3, ConcatProperties
<1>6. \A i \in 1..n : rw_queue'[i] = K[i]
  BY <1>3, <1>4, <1>5
<1>7. ASSUME NEW i \in 0..n PROVE ReadsUpTo(rw_queue', i) = ReadsUpTo(K, i)
  <2>1. i \in Nat /\ \A j \in 1..i : rw_queue'[j] = K[j]
    BY <1>4, <1>6
  <2> QED BY <2>1, CountAgree
<1>8. Len(cmd) = 1 => rw_queue'[n + 1] = cmd[1]
  BY <1>4, <1>5
<1>9. /\ rw_queue' \in Seq(Command)
      /\ n \in Nat
      /\ Len(rw_queue') = n + Len(cmd)
      /\ \A i \in 1..n : rw_queue'[i] = rw_queue[i + s]
      /\ \A i \in 0..n : ReadsUpTo(rw_queue', i) = ReadsUpTo(rw_queue, i + s) - p
      /\ Len(cmd) = 1 => rw_queue'[n + 1] = cmd[1]
  BY <1>1, <1>4, <1>5, <1>6, <1>7, <1>8
<1> QED BY <1>9 DEF s, p, n, dstC

\* The data queue after a clock edge, index by index.
LEMMA DataStep ==
  ASSUME TypeOK, NEW cmd, NEW bypass, NEW issued, NEW reply \in BOOLEAN,
         Clock(cmd, bypass, issued, reply)
  PROVE  LET p == DequeuedData(bypass # <<>>)
             r == Replied(reply)
             n == Len(read_data_queue) - p
         IN  /\ read_data_queue' \in Seq(Data)
             /\ n \in Nat
             /\ Len(read_data_queue') = n + r
             /\ \A i \in 1..n : read_data_queue'[i] = read_data_queue[i + p]
             /\ r = 1 => Len(in_flight) > 0 /\ read_data_queue'[n + 1] = in_flight[1].data
<1> DEFINE dstC == bypass # <<>>
           K == IF CAS_read_data_QUEUE_rd_en(dstC) THEN Tail(read_data_queue)
                ELSE read_data_queue
           p == DequeuedData(dstC)
           r == Replied(reply)
           n == Len(read_data_queue) - p
<1>0. read_data_queue \in Seq(Data) /\ Len(read_data_queue) \in Nat
  BY DEF TypeOK
<1>1. /\ K \in Seq(Data)
      /\ Len(K) = n
      /\ \A i \in 1..Len(K) : K[i] = read_data_queue[i + p]
  <2>1. CASE CAS_read_data_QUEUE_rd_en(dstC)
    <3>1. read_data_queue # <<>> /\ p = 1 /\ K = Tail(read_data_queue)
      BY <2>1 DEF CAS_read_data_QUEUE_rd_en, DequeuedData
    <3> QED BY <1>0, <3>1, HeadTailProperties
  <2>2. CASE ~CAS_read_data_QUEUE_rd_en(dstC)
    <3>1. p = 0 /\ K = read_data_queue
      BY <2>2 DEF DequeuedData
    <3>2. \A i \in 1..Len(read_data_queue) : i + 0 = i
      BY <1>0
    <3> HIDE DEF K, p
    <3> QED BY <1>0, <3>1, <3>2
  <2> QED BY <2>1, <2>2
<1>2. read_data_queue' = K \o Answered(reply)
  BY DEF Clock
<1>3. /\ Answered(reply) \in Seq(Data)
      /\ Len(Answered(reply)) = r
      /\ r \in {0, 1}
      /\ r = 1 => Len(in_flight) > 0 /\ Answered(reply)[1] = in_flight[1].data
  <2>1. CASE reply
    <3>1. in_flight # <<>> /\ in_flight \in Seq(Flight)
      BY <2>1 DEF Clock, MayReply, TypeOK
    <3>2. Len(in_flight) > 0 /\ in_flight[1] \in Flight
      BY <3>1, EmptySeq, ElementOfSeq
    <3>3. in_flight[1].data \in Data
      BY <3>2 DEF Flight
    <3>4. Answered(reply) = <<in_flight[1].data>> /\ r = 1
      BY <2>1 DEF Answered, Replied
    <3>5. <<in_flight[1].data>> \in Seq(Data) /\ Len(<<in_flight[1].data>>) = 1
      BY <3>3
    <3> HIDE DEF r
    <3> QED BY <3>2, <3>4, <3>5
  <2>2. CASE ~reply
    BY <2>2 DEF Answered, Replied
  <2> QED BY <2>1, <2>2
<1> HIDE DEF K, p, r, n, dstC
<1>4. n \in Nat
  BY <1>1
<1>5. /\ read_data_queue' \in Seq(Data)
      /\ Len(read_data_queue') = n + r
      /\ \A i \in 1..(n + r) :
           read_data_queue'[i] = IF i <= n THEN K[i] ELSE Answered(reply)[i - n]
  BY <1>1, <1>2, <1>3, ConcatProperties
<1>6. /\ \A i \in 1..n : read_data_queue'[i] = read_data_queue[i + p]
      /\ r = 1 => read_data_queue'[n + 1] = in_flight[1].data
  BY <1>1, <1>3, <1>4, <1>5
<1> QED BY <1>3, <1>4, <1>5, <1>6 DEF p, r, n, dstC

\* The reads under way: the answered one leaves, the others age by one cycle,
\* and the one just issued joins at the end.
LEMMA MemoryStep ==
  ASSUME TypeOK, AgesDecrease,
         NEW cmd, NEW bypass, NEW issued, NEW reply \in BOOLEAN,
         Inputs(cmd, bypass, issued), Clock(cmd, bypass, issued, reply)
  PROVE  LET r == Replied(reply)
             n == Len(in_flight) - r
         IN  /\ in_flight' \in Seq(Flight)
             /\ n \in Nat
             /\ Len(in_flight') = n + Len(issued)
             /\ \A i \in 1..n : /\ in_flight'[i].data = in_flight[i + r].data
                                /\ in_flight'[i].age = in_flight[i + r].age + 1
             /\ Len(issued) = 1 => in_flight'[n + 1] = issued[1]
<1> DEFINE rest == IF reply THEN Tail(in_flight) ELSE in_flight
           A == Aged(reply)
           r == Replied(reply)
           n == Len(in_flight) - r
<1>0. in_flight \in Seq(Flight) /\ Len(in_flight) \in Nat
  BY DEF TypeOK
<1>1. /\ rest \in Seq(Flight)
      /\ Len(rest) = n
      /\ \A i \in 1..n : rest[i] = in_flight[i + r]
      /\ r \in {0, 1}
      /\ n \in Nat
  <2>1. CASE reply
    <3>1. in_flight # <<>> /\ r = 1 /\ rest = Tail(in_flight)
      BY <2>1 DEF Clock, MayReply, Replied
    <3>2. Len(in_flight) > 0
      BY <1>0, <3>1, EmptySeq
    <3>3. /\ Tail(in_flight) \in Seq(Flight)
          /\ Len(Tail(in_flight)) = Len(in_flight) - 1
          /\ \A i \in 1..Len(Tail(in_flight)) : Tail(in_flight)[i] = in_flight[i + 1]
      BY <1>0, <3>1, HeadTailProperties
    <3> HIDE DEF rest, r
    <3> QED BY <1>0, <3>1, <3>2, <3>3
  <2>2. CASE ~reply
    <3>1. r = 0 /\ rest = in_flight
      BY <2>2 DEF Replied
    <3>2. \A i \in 1..Len(in_flight) : i + 0 = i
      BY <1>0
    <3> HIDE DEF rest, r
    <3> QED BY <1>0, <3>1, <3>2
  <2> QED BY <2>1, <2>2
<1>2. A = [i \in 1..Len(rest) |-> [rest[i] EXCEPT !.age = @ + 1]]
  BY DEF Aged
<1>3. in_flight' = A \o issued
  BY DEF Clock
<1>4. \A i \in 1..n : in_flight[i + r].age < LATENCY - 1
  <2> SUFFICES ASSUME NEW i \in 1..n PROVE in_flight[i + r].age < LATENCY - 1
    OBVIOUS
  <2>1. i + r \in 1..Len(in_flight) /\ 1 \in 1..Len(in_flight)
    BY <1>0, <1>1
  <2>2. in_flight[1] \in Flight /\ in_flight[i + r] \in Flight
    BY <1>0, <2>1, ElementOfSeq
  <2>3. in_flight[1].age \in 0..(LATENCY - 1) /\ in_flight[i + r].age \in 0..(LATENCY - 1)
    BY <2>2 DEF Flight
  <2>4. i + r > 1 => in_flight[1].age > in_flight[i + r].age
    BY <2>1 DEF AgesDecrease
  <2>5. i + r = 1 => in_flight[1].age < LATENCY - 1
    <3>1. i + r = 1 => ~reply
      BY <1>1 DEF Replied
    <3>2. in_flight # <<>>
      BY <2>1, EmptySeq
    <3>3. ~reply => in_flight[1].age # LATENCY - 1
      BY <3>2 DEF Clock, MayReply
    <3> QED BY <3>1, <3>3, <2>3, LatencyAssumption
  <2> QED BY <1>1, <2>1, <2>3, <2>4, <2>5, LatencyAssumption
<1> HIDE DEF rest, r
<1>5. ASSUME NEW i \in 1..n
      PROVE  /\ A[i] = [in_flight[i + r] EXCEPT !.age = @ + 1]
             /\ A[i] \in Flight
             /\ A[i].data = in_flight[i + r].data
             /\ A[i].age = in_flight[i + r].age + 1
  <2>1. A[i] = [in_flight[i + r] EXCEPT !.age = @ + 1]
    BY <1>1, <1>2
  <2>2. i + r \in 1..Len(in_flight)
    BY <1>0, <1>1
  <2>3. in_flight[i + r] \in Flight
    BY <1>0, <2>2, ElementOfSeq
  <2>4. in_flight[i + r].age + 1 \in 0..(LATENCY - 1)
    BY <1>4, <2>3, LatencyAssumption DEF Flight
  <2> QED BY <2>1, <2>3, <2>4 DEF Flight
<1>6. A \in Seq(Flight) /\ Len(A) = n
  <2>1. A = [i \in 1..n |-> A[i]]
    BY <1>1, <1>2
  <2>2. A \in [1..n -> Flight]
    BY <1>5, <2>1
  <2> HIDE DEF A, n
  <2> QED BY <1>1, <2>2
<1>7. issued \in Seq(Flight) /\ Len(issued) \in Nat
  BY DEF Inputs
<1> HIDE DEF A, n
<1>8. /\ in_flight' \in Seq(Flight)
      /\ Len(in_flight') = n + Len(issued)
      /\ \A i \in 1..(n + Len(issued)) :
           in_flight'[i] = IF i <= n THEN A[i] ELSE issued[i - n]
  BY <1>3, <1>6, <1>7, ConcatProperties
<1>9. /\ \A i \in 1..n : in_flight'[i] = A[i]
      /\ Len(issued) = 1 => in_flight'[n + 1] = issued[1]
  BY <1>1, <1>7, <1>8
<1>10. /\ in_flight' \in Seq(Flight)
       /\ n \in Nat
       /\ Len(in_flight') = n + Len(issued)
       /\ \A i \in 1..n : /\ in_flight'[i].data = in_flight[i + r].data
                          /\ in_flight'[i].age = in_flight[i + r].age + 1
       /\ Len(issued) = 1 => in_flight'[n + 1] = issued[1]
  BY <1>1, <1>5, <1>8, <1>9
<1> QED BY <1>10 DEF r, n

-----------------------------------------------------------------------------
(***************************************************************************)
(* The inductive invariant.  Type correctness alone is not inductive: that *)
(* no read grows older than LATENCY - 1 needs the ages to decrease along   *)
(* the queue of the memory.  The occupancy bound needs to know, of every   *)
(* read that still waits, that what is queued behind it is not more than   *)
(* its age.                                                                *)
(***************************************************************************)
Inv ==
  /\ TypeOK
  /\ AgesDecrease
  /\ QueuesInStep
  /\ BacklogYoungerThanRead
  /\ OccupancyBounded

\* How many reads the queue holds after a clock edge.
LEMMA ReadsAfter ==
  ASSUME TypeOK, NEW cmd, NEW bypass, NEW issued, NEW reply \in BOOLEAN,
         Inputs(cmd, bypass, issued), Clock(cmd, bypass, issued, reply)
  PROVE  ReadsUpTo(rw_queue', Len(rw_queue')) =
           ReadsUpTo(rw_queue, Len(rw_queue)) - DequeuedData(bypass # <<>>)
             + Len(issued)
<1> DEFINE s == Dequeued(bypass # <<>>)
           p == DequeuedData(bypass # <<>>)
           n == Len(rw_queue) - s
<1>0. Len(rw_queue) \in Nat /\ s \in {0, 1} /\ p \in {0, 1}
  <2>1. Len(rw_queue) \in Nat
    BY DEF TypeOK
  <2>2. s \in {0, 1} /\ p \in {0, 1}
    BY DequeueCases
  <2> QED BY <2>1, <2>2
<1>1. /\ rw_queue' \in Seq(Command)
      /\ n \in Nat
      /\ Len(rw_queue') = n + Len(cmd)
      /\ \A i \in 0..n : ReadsUpTo(rw_queue', i) = ReadsUpTo(rw_queue, i + s) - p
      /\ Len(cmd) = 1 => rw_queue'[n + 1] = cmd[1]
  BY CommandsStep
<1>2. n + s = Len(rw_queue)
  BY <1>0
<1>3. ReadsUpTo(rw_queue', n) = ReadsUpTo(rw_queue, Len(rw_queue)) - p
  BY <1>1, <1>2
<1>4. ReadsUpTo(rw_queue', n) \in Nat /\ ReadsUpTo(rw_queue, Len(rw_queue)) \in Nat
  BY <1>0, <1>1, CountType
<1>5. cmd \in Seq(Command) /\ Len(cmd) \in 0..1
  <2>1. cmd \in Seq(Command)
    BY DEF Inputs
  <2>2. Len(cmd) < 2
    BY DEF Inputs
  <2>3. Len(cmd) \in Nat
    BY <2>1, LenProperties
  <2>4. Len(cmd) \in 0..1
    BY <2>2, <2>3
  <2> QED BY <2>1, <2>4
<1> HIDE DEF s, p, n
<1>6. CASE Len(cmd) < 1
  <2>1. Len(rw_queue') = n /\ Len(issued) = 0
    BY <1>1, <1>5, <1>6 DEF Inputs
  <2> QED BY <1>0, <1>3, <1>4, <2>1 DEF p
<1>7. CASE Len(cmd) = 1
  <2>1. Len(rw_queue') = n + 1 /\ rw_queue'[n + 1] = cmd[1]
    BY <1>1, <1>7
  <2>2. cmd[1] \in Command
    <3>1. 1 \in 1..Len(cmd)
      BY <1>7
    <3> QED BY <1>5, <3>1, ElementOfSeq
  <2>3. cmd[1].rd \in BOOLEAN
    BY <2>2 DEF Command
  <2>4. ReadsUpTo(rw_queue', n + 1) =
          ReadsUpTo(rw_queue', n) + (IF cmd[1].rd THEN 1 ELSE 0)
    BY <1>1, <2>1, <2>3, CountNext
  <2>5. Len(issued) = IF cmd[1].rd THEN 1 ELSE 0
    BY <1>7 DEF Inputs
  <2>6. ReadsUpTo(rw_queue', n + 1) = ReadsUpTo(rw_queue', n) + Len(issued)
    BY <2>4, <2>5, Zenon
  <2> QED BY <1>3, <2>1, <2>6 DEF p
<1> QED BY <1>5, <1>6, <1>7

\* A clock edge keeps commands and data in step.
LEMMA StepInStep ==
  ASSUME Inv, NEW cmd, NEW bypass, NEW issued, NEW reply \in BOOLEAN,
         Inputs(cmd, bypass, issued), Clock(cmd, bypass, issued, reply)
  PROVE  QueuesInStep'
<1> DEFINE p == DequeuedData(bypass # <<>>)
           r == Replied(reply)
<1>0. TypeOK /\ AgesDecrease /\ QueuesInStep
  BY DEF Inv
<1>1. Len(read_data_queue') = (Len(read_data_queue) - p) + r
  BY <1>0, DataStep
<1>2. Len(in_flight') = (Len(in_flight) - r) + Len(issued)
  BY <1>0, MemoryStep
<1>3. ReadsUpTo(rw_queue', Len(rw_queue')) =
        ReadsUpTo(rw_queue, Len(rw_queue)) - p + Len(issued)
  BY <1>0, ReadsAfter
<1>4. /\ Len(read_data_queue) \in Nat /\ Len(in_flight) \in Nat
      /\ Len(issued) \in Nat
      /\ p \in {0, 1} /\ r \in {0, 1}
  <2>1. Len(read_data_queue) \in Nat /\ Len(in_flight) \in Nat
    BY <1>0 DEF TypeOK
  <2>2. Len(issued) \in Nat
    BY DEF Inputs
  <2>3. p \in {0, 1}
    BY <1>0, DequeueCases
  <2>4. r \in {0, 1}
    BY DEF Replied
  <2> QED BY <2>1, <2>2, <2>3, <2>4
<1>5. ReadsUpTo(rw_queue, Len(rw_queue)) = Len(read_data_queue) + Len(in_flight)
  BY <1>0 DEF QueuesInStep
<1> HIDE DEF p, r
<1>6. ReadsUpTo(rw_queue', Len(rw_queue')) = Len(read_data_queue') + Len(in_flight')
  BY <1>1, <1>2, <1>3, <1>4, <1>5
<1> QED BY <1>6 DEF QueuesInStep

\* A clock edge keeps the reads under way in order of age.
LEMMA StepAges ==
  ASSUME Inv, NEW cmd, NEW bypass, NEW issued, NEW reply \in BOOLEAN,
         Inputs(cmd, bypass, issued), Clock(cmd, bypass, issued, reply)
  PROVE  AgesDecrease'
<1> DEFINE r == Replied(reply)
           n == Len(in_flight) - r
<1>0. TypeOK /\ AgesDecrease /\ in_flight \in Seq(Flight) /\ r \in {0, 1}
  BY DEF Inv, TypeOK, Replied
<1>1. /\ n \in Nat
      /\ Len(in_flight') = n + Len(issued)
      /\ \A i \in 1..n : in_flight'[i].age = in_flight[i + r].age + 1
      /\ Len(issued) = 1 => in_flight'[n + 1] = issued[1]
  BY <1>0, MemoryStep
<1>2. Len(issued) \in 0..1 /\ (Len(issued) = 1 => issued[1].age = 0)
  BY DEF Inputs
<1>3. \A i \in 1..n : i + r \in 1..Len(in_flight) /\ in_flight[i + r].age \in Nat
  <2> SUFFICES ASSUME NEW i \in 1..n
               PROVE  i + r \in 1..Len(in_flight) /\ in_flight[i + r].age \in Nat
    OBVIOUS
  <2>1. i + r \in 1..Len(in_flight)
    BY <1>0, <1>1
  <2>2. in_flight[i + r] \in Flight
    BY <1>0, <2>1, ElementOfSeq
  <2> QED BY <2>1, <2>2, LatencyAssumption DEF Flight
<1> HIDE DEF r, n
<1>4. SUFFICES ASSUME NEW i \in 1..Len(in_flight'), NEW j \in 1..Len(in_flight'), i < j
               PROVE  in_flight'[i].age > in_flight'[j].age
  BY DEF AgesDecrease
<1>5. i \in 1..n /\ (j \in 1..n \/ (Len(issued) = 1 /\ j = n + 1))
  <2> DEFINE k == Len(issued)
             m == Len(in_flight')
  <2>1. m = n + k /\ n \in Nat /\ k \in 0..1 /\ i \in 1..m /\ j \in 1..m /\ i < j
    BY <1>1, <1>2, <1>4
  <2> HIDE DEF k, m
  <2>2. i \in 1..n /\ (j \in 1..n \/ (k = 1 /\ j = n + 1))
    BY <2>1
  <2> QED BY <2>2 DEF k
<1>6. CASE j \in 1..n
  <2>1. in_flight[i + r].age > in_flight[j + r].age
    BY <1>0, <1>3, <1>4, <1>5, <1>6 DEF AgesDecrease
  <2> QED BY <1>1, <1>3, <1>5, <1>6, <2>1
<1>7. CASE j \notin 1..n
  <2>1. Len(issued) = 1 /\ j = n + 1
    BY <1>5, <1>7
  <2>2. in_flight'[j].age = 0
    BY <1>1, <1>2, <2>1
  <2> QED BY <1>1, <1>3, <1>5, <2>2
<1> QED BY <1>6, <1>7

\* A command with a word of data is a request.
LEMMA SeenType ==
  ASSUME NEW c \in Command, NEW d \in Data
  PROVE  Seen(c, d) \in Service!Request
<1>1. c.rd \in BOOLEAN /\ c.tag \in Tag
  BY DEF Command
<1>2. CASE c.rd
  <2>1. Seen(c, d) = [rd |-> TRUE, tag |-> c.tag, data |-> d]
    BY <1>1, <1>2 DEF Seen
  <2> QED BY <1>1, <2>1 DEF Service!Request
<1>3. CASE ~c.rd
  <2>1. Seen(c, d) = [rd |-> FALSE, tag |-> c.tag, data |-> NoData]
    BY <1>1, <1>3 DEF Seen
  <2> QED BY <1>1, <2>1 DEF Service!Request
<1> QED BY <1>2, <1>3

\* A clock edge keeps the types.
LEMMA StepType ==
  ASSUME Inv, NEW cmd, NEW bypass, NEW issued, NEW reply \in BOOLEAN,
         Inputs(cmd, bypass, issued), Clock(cmd, bypass, issued, reply)
  PROVE  TypeOK'
<1>0. TypeOK /\ AgesDecrease
  BY DEF Inv
<1>1. rw_queue' \in Seq(Command)
  BY <1>0, CommandsStep
<1>2. read_data_queue' \in Seq(Data)
  BY <1>0, DataStep
<1>3. in_flight' \in Seq(Flight)
  BY <1>0, MemoryStep
<1>4. CAS_queue_head_r' \in {<<>>} \cup {<<c>> : c \in Command}
  <2>1. CAS_rw_queue_rd_en(bypass # <<>>) => Head(rw_queue) \in Command
    <3>1. CAS_rw_queue_rd_en(bypass # <<>>) => rw_queue # <<>>
      BY DEF CAS_rw_queue_rd_en, CAS_read_data_QUEUE_rd_en, ui_read_valid,
             ui_write_valid
    <3> QED BY <1>0, <3>1, HeadTailProperties DEF TypeOK
  <2>2. CAS_queue_head_r \in {<<>>} \cup {<<c>> : c \in Command}
    BY <1>0 DEF TypeOK
  <2>3. \/ CAS_queue_head_r' = CAS_queue_head_r
        \/ /\ CAS_rw_queue_rd_en(bypass # <<>>)
           /\ CAS_queue_head_r' = <<Head(rw_queue)>>
        \/ CAS_queue_head_r' = <<>>
    BY DEF Clock
  <2> QED BY <2>1, <2>2, <2>3
<1>5. DRAM_data' \in Data
  <2>1. CAS_read_data_QUEUE_rd_en(bypass # <<>>) => Head(read_data_queue) \in Data
    BY <1>0, HeadTailProperties DEF TypeOK, CAS_read_data_QUEUE_rd_en
  <2>2. DRAM_data' = IF CAS_read_data_QUEUE_rd_en(bypass # <<>>)
                     THEN Head(read_data_queue) ELSE DRAM_data
    BY DEF Clock
  <2> QED BY <1>0, <2>1, <2>2 DEF TypeOK
<1>6. req_r' \in {<<>>} \cup {<<q>> : q \in Service!Request}
  <2>1. req_r' = Presented(bypass)
    BY DEF Clock
  <2>2. bypass \in {<<>>} \cup {<<q>> : q \in Service!Request}
    BY DEF Inputs
  <2>3. CAS_queue_head_r # <<>> =>
          \E c \in Command : CAS_queue_head_r = <<c>> /\ CAS_queue_head_r[1] = c
    BY <1>0 DEF TypeOK
  <2>4. DRAM_data \in Data
    BY <1>0 DEF TypeOK
  <2>5. CAS_queue_head_r # <<>> =>
          Seen(CAS_queue_head_r[1], DRAM_data) \in Service!Request
    BY <2>3, <2>4, SeenType
  <2> QED BY <2>1, <2>2, <2>5 DEF Presented
<1> QED BY <1>1, <1>2, <1>3, <1>4, <1>5, <1>6 DEF TypeOK

\* A clock edge adds at most one command behind a waiting read, and that read
\* gets one cycle older.
LEMMA StepBacklog ==
  ASSUME Inv, NEW cmd, NEW bypass, NEW issued, NEW reply \in BOOLEAN,
         Inputs(cmd, bypass, issued), Clock(cmd, bypass, issued, reply)
  PROVE  BacklogYoungerThanRead'
<1> DEFINE s == Dequeued(bypass # <<>>)
           p == DequeuedData(bypass # <<>>)
           r == Replied(reply)
           L == Len(rw_queue)
           n == L - s
           R(i) == ReadsUpTo(rw_queue, i)
           Q(i) == ReadsUpTo(rw_queue', i)
           D == Len(read_data_queue)
           M == Len(in_flight)
           I == Len(issued)
           C == Len(cmd)
           DD == Len(read_data_queue')
<1>0. TypeOK /\ AgesDecrease /\ QueuesInStep /\ BacklogYoungerThanRead
  BY DEF Inv
<1>1. /\ n \in Nat
      /\ Len(rw_queue') = n + C
      /\ \A i \in 1..n : rw_queue'[i] = rw_queue[i + s]
      /\ \A i \in 0..n : Q(i) = R(i + s) - p
  BY <1>0, CommandsStep
<1>2. D - p \in Nat /\ Len(read_data_queue') = (D - p) + r
  BY <1>0, DataStep
<1>3. /\ M - r \in Nat
      /\ Len(in_flight') = (M - r) + I
      /\ \A i \in 1..(M - r) : in_flight'[i].age = in_flight[i + r].age + 1
  BY <1>0, MemoryStep
<1>4. Q(Len(rw_queue')) = Len(read_data_queue') + Len(in_flight')
  BY StepInStep DEF QueuesInStep
<1>5. in_flight' \in Seq(Flight)
  BY StepType DEF TypeOK
<1>6. /\ s \in {0, 1} /\ p \in {0, 1}
      /\ L \in Nat /\ D \in Nat /\ M \in Nat
  <2>1. s \in {0, 1} /\ p \in {0, 1}
    BY <1>0, DequeueCases
  <2>2. L \in Nat /\ D \in Nat /\ M \in Nat
    BY <1>0 DEF TypeOK
  <2> QED BY <2>1, <2>2
<1>7. r \in {0, 1}
  BY DEF Replied
<1>8. C \in Nat /\ C < 2 /\ I \in Nat
  BY DEF Inputs
<1>9. \A i \in 1..L : rw_queue[i].rd /\ R(i) > D => L - i <= in_flight[R(i) - D].age
  BY <1>0 DEF BacklogYoungerThanRead
<1>10. SUFFICES ASSUME NEW i \in 1..Len(rw_queue'), rw_queue'[i].rd,
                       Q(i) > Len(read_data_queue')
                PROVE  Len(rw_queue') - i <=
                         in_flight'[Q(i) - Len(read_data_queue')].age
  BY DEF BacklogYoungerThanRead
<1>11. i \in Nat /\ Q(i) \in Nat
  <2>1. i \in Nat
    BY <1>1, <1>8
  <2> QED BY <2>1, CountType
<1>12. CASE i \in 1..n
  \* the command was in the queue before: its reply is one cycle older
  <2> DEFINE k == R(i + s) - D
  <2>1. Q(i) = R(i + s) - p /\ rw_queue[i + s].rd
    BY <1>1, <1>10, <1>12
  <2>2. i + s \in 1..L
    BY <1>6, <1>12
  <2>3. i + s \in Nat /\ R(i + s) \in Nat /\ R(L) \in Nat
    BY <1>6, <2>2, CountType
  <2>4. k \in Nat /\ k > r /\ Q(i) - DD = k - r
    <3> DEFINE a == R(i + s)
               b == Q(i)
    <3>1. a \in Nat /\ b \in Nat /\ b = a - p /\ k = a - D
      BY <1>11, <2>1, <2>3
    <3>2. D - p \in Nat /\ DD = (D - p) + r /\ b > DD
      BY <1>2, <1>10
    <3>3. D \in Nat /\ p \in {0, 1} /\ r \in {0, 1}
      BY <1>6, <1>7
    <3> HIDE DEF a, b, k, p, r, D, DD
    <3>4. k \in Nat /\ k > r /\ b - DD = k - r
      BY <3>1, <3>2, <3>3
    <3> QED BY <3>4 DEF b
  <2>5. R(i + s) <= R(L)
    BY <1>6, <2>2, <2>3, CountMonotone
  <2>6. R(L) = D + M
    BY <1>0 DEF QueuesInStep
  <2>7. L - (i + s) <= in_flight[k].age
    <3>1. R(i + s) > D
      <4> HIDE DEF R, s, p, r, n, D
      <4> QED BY <1>6, <1>7, <2>3, <2>4
    <3>2. rw_queue[i + s].rd /\ R(i + s) > D
      BY <2>1, <3>1
    <3> HIDE DEF R, s, D, L
    <3> QED BY <1>9, <2>2, <3>2
  <2> HIDE DEF R, Q, s, p, r, n, D, DD, M, L, I, C
  <2>8. k - r \in 1..(M - r) /\ (k - r) + r = k
    <3> DEFINE a == R(i + s)
    <3>1. a \in Nat /\ a <= D + M /\ k = a - D
      BY <2>3, <2>5, <2>6
    <3> HIDE DEF a, k
    <3> QED BY <1>6, <1>7, <2>4, <3>1
  <2> HIDE DEF k
  <2>9. in_flight'[k - r].age = in_flight[k].age + 1
    BY <1>3, <2>8
  <2>10. in_flight[k].age \in Nat
    <3>1. k \in 1..M
      BY <1>6, <1>7, <2>4, <2>8
    <3>2. in_flight[k] \in Flight
      BY <1>0, <3>1, ElementOfSeq DEF TypeOK, M
    <3> QED BY <3>2, LatencyAssumption DEF Flight
  <2>11. Len(rw_queue') - i = (L - (i + s)) + C
    <3>1. Len(rw_queue') = (L - s) + C
      BY <1>1 DEF n
    <3> QED BY <1>6, <1>8, <1>11, <3>1
  <2> QED BY <1>6, <1>8, <1>11, <2>4, <2>7, <2>9, <2>10, <2>11 DEF DD
<1>13. CASE i \notin 1..n
  \* the command just queued: nothing is behind it
  <2> DEFINE j == Q(i) - Len(read_data_queue')
  <2>1. i = Len(rw_queue')
    <3> HIDE DEF n, C
    <3>1. i \in 1..(n + C) /\ C \in 0..1
      BY <1>1, <1>8
    <3> QED BY <1>1, <1>13, <3>1
  <2>2. j = Len(in_flight') /\ j \in Nat /\ j > 0
    <3>1. Len(read_data_queue') \in Nat /\ Len(in_flight') \in Nat
      BY <1>2, <1>3, <1>7, <1>8
    <3>2. Q(i) = Len(read_data_queue') + Len(in_flight')
      BY <1>4, <2>1
    <3> HIDE DEF Q
    <3> QED BY <3>1, <3>2, <1>10
  <2>3. in_flight'[j] \in Flight
    <3>1. j \in 1..Len(in_flight')
      BY <2>2
    <3> QED BY <1>5, <3>1, ElementOfSeq
  <2>4. in_flight'[j].age \in Nat
    BY <2>3, LatencyAssumption DEF Flight
  <2>5. Len(rw_queue') - i = 0
    BY <1>11, <2>1
  <2> QED BY <2>4, <2>5
<1> QED BY <1>12, <1>13

\* A clock edge leaves both queues within their bound.
LEMMA StepOccupancy ==
  ASSUME Inv, NEW cmd, NEW bypass, NEW issued, NEW reply \in BOOLEAN,
         Inputs(cmd, bypass, issued), Clock(cmd, bypass, issued, reply)
  PROVE  OccupancyBounded'
<1> DEFINE s == Dequeued(bypass # <<>>)
           L == Len(rw_queue)
           LL == Len(rw_queue')
           C == Len(cmd)
<1>0. /\ TypeOK /\ AgesDecrease /\ QueuesInStep /\ BacklogYoungerThanRead
      /\ OccupancyBounded
  BY DEF Inv
<1>1. LL = (L - s) + C /\ L \in Nat /\ s \in {0, 1}
  <2>1. LL = (L - s) + C
    BY <1>0, CommandsStep
  <2>2. L \in Nat
    BY <1>0 DEF TypeOK
  <2> QED BY <1>0, <2>1, <2>2, DequeueCases
<1>2. C \in Nat /\ C < 2
  BY DEF Inputs
<1>3. L <= LATENCY + 1
  BY <1>0 DEF OccupancyBounded
<1>4. LL <= LATENCY + 1
  <2>1. CASE s = 1
    <3> HIDE DEF s, L, LL, C
    <3> QED BY <1>1, <1>2, <1>3, <2>1, LatencyAssumption
  <2>2. CASE s = 0 /\ bypass # <<>>
    <3>1. C = 0
      BY <2>2 DEF Inputs
    <3> HIDE DEF s, L, LL, C
    <3> QED BY <1>1, <1>3, <2>2, <3>1
  <2>3. CASE s = 0 /\ bypass = <<>> /\ L > 0
    \* the oldest command is a read without its data: the backlog behind it
    \* is not longer than its age
    <3>1. rw_queue[1].rd /\ Len(read_data_queue) = 0
      BY <1>0, <2>3, DequeueCases
    <3>2. 1 \in 1..L
      BY <1>1, <2>3
    <3>3. ReadsUpTo(rw_queue, 1) = 1
      <4>1. 0 \in Nat /\ 0 + 1 = 1 /\ 0 + (IF TRUE THEN 1 ELSE 0) = 1
        OBVIOUS
      <4>2. rw_queue[0 + 1].rd \in BOOLEAN
        <5>1. rw_queue[1] \in Command
          BY <1>0, <3>2, ElementOfSeq DEF TypeOK
        <5> QED BY <5>1, <4>1 DEF Command
      <4>3. ReadsUpTo(rw_queue, 0 + 1) =
              ReadsUpTo(rw_queue, 0) + (IF rw_queue[0 + 1].rd THEN 1 ELSE 0)
        BY <4>1, <4>2, CountNext
      <4>4. ReadsUpTo(rw_queue, 0) = 0
        BY CountZero
      <4> QED BY <3>1, <4>1, <4>3, <4>4, Zenon
    <3>4. L - 1 <= in_flight[1].age
      <4>1. 1 > 0 /\ 1 - 0 = 1
        OBVIOUS
      <4>2. L - 1 <= in_flight[1 - 0].age
        BY <1>0, <3>1, <3>2, <3>3, <4>1 DEF BacklogYoungerThanRead
      <4> QED BY <4>1, <4>2
    <3>5. in_flight[1].age \in 0..(LATENCY - 1)
      <4>1. 1 \in 1..Len(in_flight)
        <5>1. L \in Nat /\ 1 <= L
          BY <1>1, <2>3
        <5>2. ReadsUpTo(rw_queue, 1) <= ReadsUpTo(rw_queue, L)
          BY <5>1, CountMonotone
        <5>3. ReadsUpTo(rw_queue, L) = 0 + Len(in_flight)
          BY <1>0, <3>1 DEF QueuesInStep
        <5>4. Len(in_flight) \in Nat
          BY <1>0 DEF TypeOK
        <5> QED BY <3>3, <5>2, <5>3, <5>4
      <4>2. in_flight[1] \in Flight
        BY <1>0, <4>1, ElementOfSeq DEF TypeOK
      <4> QED BY <4>2 DEF Flight
    <3> HIDE DEF s, L, LL, C
    <3> QED BY <1>1, <1>2, <2>3, <3>4, <3>5, LatencyAssumption
  <2>4. CASE s = 0 /\ ~(L > 0)
    <3> HIDE DEF s, L, LL, C
    <3> QED BY <1>1, <1>2, <2>4, LatencyAssumption
  <2> QED BY <1>1, <2>1, <2>2, <2>3, <2>4
<1>5. Len(read_data_queue') <= LATENCY + 1
  <2> DEFINE q == ReadsUpTo(rw_queue', LL)
             d == Len(read_data_queue')
             m == Len(in_flight')
  <2>1. q = d + m
    BY StepInStep DEF QueuesInStep
  <2>2. d \in Nat /\ m \in Nat /\ LL \in Nat
    BY StepType DEF TypeOK
  <2>3. q \in Nat /\ q <= LL
    BY <2>2, CountType
  <2> HIDE DEF q, d, m, LL
  <2>4. d <= LATENCY + 1
    BY <1>4, <2>1, <2>2, <2>3, LatencyAssumption
  <2> QED BY <2>4 DEF d
<1> QED BY <1>4, <1>5 DEF OccupancyBounded

\* The cycles without a result write are instances of Clock.
LEMMA FreeIsClock ==
  ASSUME FreeCycle
  PROVE  \E cmd, issued, reply :
           /\ reply \in BOOLEAN
           /\ Inputs(cmd, <<>>, issued)
           /\ Clock(cmd, <<>>, issued, reply)
<1>0. <<>> \in Seq(Command) /\ Len(<<>>) = 0 /\ <<>> \in Seq(Flight)
  OBVIOUS
<1>1. ASSUME NEW reply \in BOOLEAN, Idle(reply)
      PROVE  Inputs(<<>>, <<>>, <<>>) /\ Clock(<<>>, <<>>, <<>>, reply)
  BY <1>1 DEF Idle, Inputs
<1>2. ASSUME NEW reply \in BOOLEAN, NEW t \in Tag, NEW d \in Data, Read(t, d, reply)
      PROVE  LET cmd == <<[rd |-> TRUE, tag |-> t]>>
                 issued == <<[data |-> d, age |-> 0]>>
             IN  Inputs(cmd, <<>>, issued) /\ Clock(cmd, <<>>, issued, reply)
  <2> DEFINE c == [rd |-> TRUE, tag |-> t]
             f == [data |-> d, age |-> 0]
  <2>1. c \in Command /\ c.rd
    BY DEF Command
  <2>2. f \in Flight /\ f.age = 0
    BY LatencyAssumption DEF Flight
  <2>3. Clock(<<c>>, <<>>, <<f>>, reply)
    BY <1>2 DEF Read
  <2> HIDE DEF c, f
  <2>4. <<c>> \in Seq(Command) /\ Len(<<c>>) < 2 /\ Len(<<c>>) = 1 /\ <<c>>[1] = c
    BY <2>1
  <2>5. <<f>> \in Seq(Flight) /\ Len(<<f>>) = 1 /\ \A i \in 1..1 : <<f>>[i].age = 0
    BY <2>2
  <2>6. Inputs(<<c>>, <<>>, <<f>>)
    BY <2>1, <2>4, <2>5 DEF Inputs
  <2> QED BY <2>3, <2>6 DEF c, f
<1>3. ASSUME NEW reply \in BOOLEAN, NEW t \in Tag, Write(t, reply)
      PROVE  LET cmd == <<[rd |-> FALSE, tag |-> t]>>
             IN  Inputs(cmd, <<>>, <<>>) /\ Clock(cmd, <<>>, <<>>, reply)
  <2> DEFINE c == [rd |-> FALSE, tag |-> t]
  <2>1. c \in Command /\ ~c.rd
    BY DEF Command
  <2>3. Clock(<<c>>, <<>>, <<>>, reply)
    BY <1>3 DEF Write
  <2> HIDE DEF c
  <2>4. <<c>> \in Seq(Command) /\ Len(<<c>>) < 2 /\ <<c>>[1] = c
    BY <2>1
  <2>6. Inputs(<<c>>, <<>>, <<>>)
    BY <1>0, <2>1, <2>4 DEF Inputs
  <2> QED BY <2>3, <2>6 DEF c
<1> QED BY <1>1, <1>2, <1>3, Zenon DEF FreeCycle

\* So is the result write.
LEMMA ResultIsClock ==
  ASSUME NEW reply \in BOOLEAN, NEW t \in Tag, ResultWrite(t, reply)
  PROVE  LET w == <<[rd |-> FALSE, tag |-> t, data |-> NoData]>>
         IN  Inputs(<<>>, w, <<>>) /\ Clock(<<>>, w, <<>>, reply)
<1>0. <<>> \in Seq(Command) /\ Len(<<>>) = 0 /\ <<>> \in Seq(Flight)
  OBVIOUS
<1> DEFINE w == [rd |-> FALSE, tag |-> t, data |-> NoData]
<1>1. w \in Service!Request
  BY DEF Service!Request
<1>2. Clock(<<>>, <<w>>, <<>>, reply)
  BY DEF ResultWrite
<1> HIDE DEF w
<1>3. Inputs(<<>>, <<w>>, <<>>)
  BY <1>0, <1>1 DEF Inputs
<1> QED BY <1>2, <1>3 DEF w

\* The four kinds of clock cycle are instances of Clock.
LEMMA CycleIsClock ==
  ASSUME FreeCycle \/ ResultCycle
  PROVE  \E cmd, bypass, issued, reply :
           /\ reply \in BOOLEAN
           /\ Inputs(cmd, bypass, issued)
           /\ Clock(cmd, bypass, issued, reply)
<1>1. CASE FreeCycle
  BY <1>1, FreeIsClock, Zenon
<1>2. CASE ResultCycle
  BY <1>2, ResultIsClock, Zenon DEF ResultCycle
<1> QED BY <1>1, <1>2

\* The device starts with empty queues.
LEMMA InvInit == Init => Inv
<1> SUFFICES ASSUME Init PROVE Inv
  OBVIOUS
<1> USE DEF Init
<1>1. TypeOK
  BY ZeroAssumption DEF TypeOK
<1>2. AgesDecrease /\ BacklogYoungerThanRead
  BY DEF AgesDecrease, BacklogYoungerThanRead
<1>3. QueuesInStep
  <2>1. Len(<<>>) = 0 /\ Len(<<>>) = Len(<<>>) + Len(<<>>)
    OBVIOUS
  <2> QED BY <2>1, CountZero DEF QueuesInStep
<1>4. OccupancyBounded
  BY LatencyAssumption DEF OccupancyBounded
<1> QED BY <1>1, <1>2, <1>3, <1>4 DEF Inv

\* Every clock cycle, and a reset, keeps the inductive invariant.
LEMMA InvStep == Inv /\ [Next]_vars => Inv'
<1> SUFFICES ASSUME Inv, [Next]_vars PROVE Inv'
  OBVIOUS
<1>1. CASE FreeCycle \/ ResultCycle
  <2>1. PICK cmd, bypass, issued, reply :
          /\ reply \in BOOLEAN
          /\ Inputs(cmd, bypass, issued)
          /\ Clock(cmd, bypass, issued, reply)
    BY <1>1, CycleIsClock
  <2> QED BY <2>1, StepType, StepAges, StepInStep, StepBacklog, StepOccupancy
          DEF Inv
<1>2. CASE Reset
  <2>1. /\ rw_queue' = <<>> /\ read_data_queue' = <<>> /\ in_flight' = <<>>
        /\ CAS_queue_head_r' = <<>> /\ DRAM_data' = ZERO /\ req_r' = <<>>
    BY <1>2 DEF Reset
  <2>2. TypeOK'
    BY <2>1, ZeroAssumption DEF TypeOK
  <2>3. AgesDecrease' /\ BacklogYoungerThanRead'
    BY <2>1 DEF AgesDecrease, BacklogYoungerThanRead
  <2>4. QueuesInStep'
    <3>1. Len(<<>>) = 0 /\ Len(<<>>) = Len(<<>>) + Len(<<>>)
      OBVIOUS
    <3> QED BY <2>1, <3>1, CountZero DEF QueuesInStep
  <2>5. OccupancyBounded'
    BY <2>1, LatencyAssumption DEF OccupancyBounded
  <2> QED BY <2>2, <2>3, <2>4, <2>5 DEF Inv
<1>3. CASE UNCHANGED vars
  BY <1>3 DEF vars, Inv, TypeOK, AgesDecrease, QueuesInStep,
              BacklogYoungerThanRead, OccupancyBounded
<1> QED BY <1>1, <1>2, <1>3 DEF Next

\* The inductive invariant holds of every behaviour of the request path, for
\* every latency and every set of commands and data.
THEOREM Invariance == Spec => []Inv
  BY InvInit, InvStep, PTL DEF Spec

\* The registers and queues hold what their widths say, and no read is under
\* way longer than the memory's latency.
THEOREM TypeCorrect == Spec => []TypeOK
<1>1. Inv => TypeOK
  BY DEF Inv
<1> QED BY <1>1, Invariance, PTL

\* Every queued read has exactly one reply, returned or on its way.
THEOREM InStep == Spec => []QueuesInStep
<1>1. Inv => QueuesInStep
  BY DEF Inv
<1> QED BY <1>1, Invariance, PTL

\* Neither queue ever holds more than LATENCY + 1 words.
THEOREM Bounded == Spec => []OccupancyBounded
<1>1. Inv => OccupancyBounded
  BY DEF Inv
<1> QED BY <1>1, Invariance, PTL

-----------------------------------------------------------------------------
(***************************************************************************)
(* The refinement of InOrderService: what its mapping looks like.          *)
(***************************************************************************)

\* The replies, index by index.
LEMMA RepliesShape ==
  ASSUME NEW q \in Seq(Data), NEW m \in Seq(Flight)
  PROVE  LET R == q \o [i \in 1..Len(m) |-> m[i].data]
         IN  /\ R \in Seq(Data)
             /\ Len(R) = Len(q) + Len(m)
             /\ \A j \in 1..Len(q) : R[j] = q[j]
             /\ \A j \in 1..Len(m) : R[Len(q) + j] = m[j].data
<1> DEFINE d == [i \in 1..Len(m) |-> m[i].data]
<1>1. Len(q) \in Nat /\ Len(m) \in Nat
  OBVIOUS
<1>2. ASSUME NEW i \in 1..Len(m) PROVE m[i].data \in Data
  <2>1. m[i] \in Flight
    BY ElementOfSeq
  <2> QED BY <2>1 DEF Flight
<1>3. d \in [1..Len(m) -> Data]
  BY <1>2
<1>4. d \in Seq(Data) /\ Len(d) = Len(m)
  <2> HIDE DEF d
  <2> QED BY <1>1, <1>3
<1>5. \A j \in 1..Len(m) : d[j] = m[j].data
  OBVIOUS
<1> HIDE DEF d
<1>6. /\ q \o d \in Seq(Data)
      /\ Len(q \o d) = Len(q) + Len(m)
      /\ \A i \in 1..(Len(q) + Len(m)) :
           (q \o d)[i] = IF i <= Len(q) THEN q[i] ELSE d[i - Len(q)]
  <2>1. /\ q \o d \in Seq(Data)
        /\ Len(q \o d) = Len(q) + Len(d)
        /\ \A i \in 1..(Len(q) + Len(d)) :
             (q \o d)[i] = IF i <= Len(q) THEN q[i] ELSE d[i - Len(q)]
    BY <1>4, ConcatProperties
  <2> QED BY <1>4, <2>1, Zenon
<1>7. \A j \in 1..Len(q) : (q \o d)[j] = q[j]
  BY <1>1, <1>6
<1>8. ASSUME NEW j \in 1..Len(m) PROVE (q \o d)[Len(q) + j] = m[j].data
  <2> DEFINE a == Len(q)
             b == Len(m)
             i == a + j
  <2>1. a \in Nat /\ b \in Nat /\ j \in 1..b
    BY <1>1
  <2> HIDE DEF a, b
  <2>2. i \in 1..(a + b) /\ ~(i <= a) /\ i - a = j
    BY <2>1
  <2>3. (q \o d)[i] = IF i <= a THEN q[i] ELSE d[i - a]
    BY <1>6, <2>2 DEF a, b
  <2>4. (q \o d)[i] = d[j]
    BY <2>2, <2>3
  <2> QED BY <1>5, <2>4 DEF a
<1>9. /\ q \o d \in Seq(Data)
      /\ Len(q \o d) = Len(q) + Len(m)
      /\ \A j \in 1..Len(q) : (q \o d)[j] = q[j]
      /\ \A j \in 1..Len(m) : (q \o d)[Len(q) + j] = m[j].data
  BY <1>6, <1>7, <1>8
<1> QED BY <1>9 DEF d

\* A read in the queue has a reply.
LEMMA ReadHasReply ==
  ASSUME NEW q \in Seq(Command), NEW i \in 1..Len(q), q[i].rd
  PROVE  ReadsUpTo(q, i) \in 1..ReadsUpTo(q, Len(q))
<1>1. i \in Nat /\ Len(q) \in Nat /\ i <= Len(q) /\ i - 1 \in Nat /\ (i - 1) + 1 = i
  OBVIOUS
<1>2. ReadsUpTo(q, i) <= ReadsUpTo(q, Len(q))
  BY <1>1, CountMonotone
<1>3. ReadsUpTo(q, i) \in Nat /\ ReadsUpTo(q, Len(q)) \in Nat
      /\ ReadsUpTo(q, i - 1) \in Nat
  BY <1>1, CountType
<1>4. ReadsUpTo(q, i) = ReadsUpTo(q, i - 1) + 1
  <2>1. q[(i - 1) + 1].rd \in BOOLEAN
    <3>1. q[i] \in Command
      BY ElementOfSeq
    <3> QED BY <1>1, <3>1 DEF Command
  <2>2. ReadsUpTo(q, (i - 1) + 1) =
          ReadsUpTo(q, i - 1) + (IF q[(i - 1) + 1].rd THEN 1 ELSE 0)
    BY <1>1, <2>1, CountNext
  <2> QED BY <1>1, <2>2, Zenon
<1> QED BY <1>2, <1>3, <1>4

\* The queued commands paired with their data are a sequence of requests.
LEMMA WaitingShape ==
  ASSUME NEW q \in Seq(Command), NEW R \in Seq(Data),
         ReadsUpTo(q, Len(q)) = Len(R)
  PROVE  LET W == [i \in 1..Len(q) |-> Seen(q[i], R[ReadsUpTo(q, i)])]
         IN  W \in Seq(Service!Request) /\ Len(W) = Len(q)
<1> DEFINE W == [i \in 1..Len(q) |-> Seen(q[i], R[ReadsUpTo(q, i)])]
<1>1. ASSUME NEW i \in 1..Len(q)
      PROVE  Seen(q[i], R[ReadsUpTo(q, i)]) \in Service!Request
  <2>1. q[i] \in Command
    BY ElementOfSeq
  <2>2. CASE q[i].rd
    <3>1. ReadsUpTo(q, i) \in 1..Len(R)
      BY <2>2, ReadHasReply
    <3>2. R[ReadsUpTo(q, i)] \in Data
      BY <3>1, ElementOfSeq
    <3> QED BY <2>1, <3>2, SeenType
  <2>3. CASE ~q[i].rd
    <3>1. Seen(q[i], R[ReadsUpTo(q, i)]) = Seen(q[i], ZERO)
      BY <2>3, Zenon DEF Seen
    <3> QED BY <2>1, <3>1, SeenType, ZeroAssumption
  <2> QED BY <2>2, <2>3
<1>2. W \in [1..Len(q) -> Service!Request]
  BY <1>1
<1>3. Len(q) \in Nat
  OBVIOUS
<1> HIDE DEF W
<1>4. W \in Seq(Service!Request) /\ Len(W) = Len(q)
  BY <1>2, <1>3
<1> QED BY <1>4 DEF W

\* The replies that are left after a cycle stay in their order.
LEMMA RepliesStep ==
  ASSUME Inv, NEW cmd, NEW bypass, NEW issued, NEW reply \in BOOLEAN,
         Inputs(cmd, bypass, issued), Clock(cmd, bypass, issued, reply)
  PROVE  LET p == DequeuedData(bypass # <<>>)
         IN  \A k \in 1..(Len(read_data_queue) + Len(in_flight) - p) :
               Replies'[k] = Replies[k + p]
<1>0. TypeOK /\ TypeOK' /\ AgesDecrease
  BY StepType DEF Inv
<1> DEFINE p == DequeuedData(bypass # <<>>)
           r == Replied(reply)
           D == Len(read_data_queue)
           M == Len(in_flight)
           DD == Len(read_data_queue')
           MM == Len(in_flight')
<1>1. /\ D \in Nat /\ M \in Nat /\ DD \in Nat /\ MM \in Nat
      /\ p \in {0, 1} /\ r \in {0, 1}
  <2>1. D \in Nat /\ M \in Nat /\ DD \in Nat /\ MM \in Nat
    BY <1>0 DEF TypeOK
  <2>2. p \in {0, 1}
    BY <1>0, DequeueCases
  <2>3. r \in {0, 1}
    BY DEF Replied
  <2> QED BY <2>1, <2>2, <2>3
<1>2. /\ \A j \in 1..D : Replies[j] = read_data_queue[j]
      /\ \A j \in 1..M : Replies[D + j] = in_flight[j].data
  BY <1>0, RepliesShape DEF TypeOK, Replies
<1>3. /\ \A j \in 1..DD : Replies'[j] = read_data_queue'[j]
      /\ \A j \in 1..MM : Replies'[DD + j] = in_flight'[j].data
  BY <1>0, RepliesShape DEF TypeOK, Replies
<1>4. /\ D - p \in Nat /\ DD = (D - p) + r
      /\ \A i \in 1..(D - p) : read_data_queue'[i] = read_data_queue[i + p]
      /\ r = 1 => M > 0 /\ read_data_queue'[(D - p) + 1] = in_flight[1].data
  BY <1>0, DataStep
<1>5. /\ M - r \in Nat /\ MM >= M - r
      /\ \A i \in 1..(M - r) : in_flight'[i].data = in_flight[i + r].data
  <2>1. /\ M - r \in Nat /\ MM = (M - r) + Len(issued)
        /\ \A i \in 1..(M - r) : in_flight'[i].data = in_flight[i + r].data
    BY <1>0, MemoryStep
  <2>2. Len(issued) \in Nat
    BY DEF Inputs
  <2> HIDE DEF M, MM, r
  <2> QED BY <1>1, <2>1, <2>2
<1> HIDE DEF p, r, D, M, DD, MM
<1>6. ASSUME NEW k \in 1..(D + M - p) PROVE Replies'[k] = Replies[k + p]
  <2>1. CASE k <= D - p
    <3>1. k \in 1..(D - p) /\ k \in 1..DD /\ k + p \in 1..D
      BY <1>1, <1>4, <2>1
    <3> QED BY <1>2, <1>3, <1>4, <3>1
  <2>2. CASE r = 1 /\ k = (D - p) + 1
    <3>1. k \in 1..DD /\ k + p = D + 1 /\ 1 \in 1..M
      BY <1>1, <1>4, <2>2
    <3>2. Replies[D + 1] = in_flight[1].data
      BY <1>2, <3>1
    <3> QED BY <1>3, <1>4, <2>2, <3>1, <3>2
  <2>3. CASE k > (D - p) + r
    <3>1. PICK j \in 1..(M - r) : k = DD + j
      <4>1. k - DD \in 1..(M - r) /\ k = DD + (k - DD)
        BY <1>1, <1>4, <2>3
      <4> QED BY <4>1
    <3>2. j \in 1..MM
      BY <1>1, <1>5, <3>1
    <3>3. PICK i \in 1..M : i = j + r
      BY <1>1, <1>5, <3>1
    <3>4. k + p = D + i
      BY <1>1, <1>4, <3>1, <3>3
    <3>5. Replies'[DD + j] = in_flight'[j].data /\ Replies[D + i] = in_flight[i].data
      BY <1>2, <1>3, <3>2
    <3> QED BY <1>5, <3>1, <3>3, <3>4, <3>5
  <2> QED BY <1>1, <1>4, <2>1, <2>2, <2>3
<1> QED BY <1>6 DEF p, D, M

\* The commands that wait with their data are requests.
LEMMA WaitingType ==
  ASSUME Inv
  PROVE  Waiting \in Seq(Service!Request) /\ Len(Waiting) = Len(rw_queue)
<1>1. TypeOK /\ QueuesInStep
  BY DEF Inv
<1>2. Replies \in Seq(Data) /\ Len(Replies) = Len(read_data_queue) + Len(in_flight)
  BY <1>1, RepliesShape DEF TypeOK, Replies
<1> QED BY <1>1, <1>2, WaitingShape DEF TypeOK, QueuesInStep, Waiting

\* So are those that wait after a step.
LEMMA NextWaitingType ==
  ASSUME Inv'
  PROVE  Waiting' \in Seq(Service!Request) /\ Len(Waiting') = Len(rw_queue')
<1>1. TypeOK' /\ QueuesInStep'
  BY DEF Inv
<1>2. Replies' \in Seq(Data) /\ Len(Replies') = Len(read_data_queue') + Len(in_flight')
  BY <1>1, RepliesShape DEF TypeOK, Replies
<1>3. rw_queue' \in Seq(Command)
  BY <1>1 DEF TypeOK
<1>4. ReadsUpTo(rw_queue', Len(rw_queue')) = Len(Replies')
  BY <1>1, <1>2 DEF QueuesInStep, ReadsUpTo
<1>5. Waiting' = [i \in 1..Len(rw_queue') |->
                    Seen(rw_queue'[i], Replies'[ReadsUpTo(rw_queue', i)])]
  BY DEF Waiting, Seen, ReadsUpTo
<1> QED BY <1>2, <1>3, <1>4, <1>5, WaitingShape

\* A command that stays in the queue keeps the data it waits for.
LEMMA WaitingStep ==
  ASSUME Inv, NEW cmd, NEW bypass, NEW issued, NEW reply \in BOOLEAN,
         Inputs(cmd, bypass, issued), Clock(cmd, bypass, issued, reply)
  PROVE  LET s == Dequeued(bypass # <<>>)
         IN  /\ Len(rw_queue) - s \in Nat
             /\ Len(rw_queue') = Len(rw_queue) - s + Len(cmd)
             /\ \A i \in 1..(Len(rw_queue) - s) : Waiting'[i] = Waiting[i + s]
<1>0. TypeOK /\ QueuesInStep
  BY DEF Inv
<1> DEFINE s == Dequeued(bypass # <<>>)
           p == DequeuedData(bypass # <<>>)
           n == Len(rw_queue) - s
<1>1. /\ n \in Nat /\ Len(rw_queue') = n + Len(cmd)
      /\ \A i \in 1..n : rw_queue'[i] = rw_queue[i + s]
      /\ \A i \in 0..n : ReadsUpTo(rw_queue', i) = ReadsUpTo(rw_queue, i + s) - p
  BY <1>0, CommandsStep
<1>2. s \in {0, 1} /\ p \in {0, 1} /\ Len(rw_queue) \in Nat /\ Len(cmd) \in Nat
  <2>1. Len(rw_queue) \in Nat /\ Len(cmd) \in Nat
    BY <1>0 DEF TypeOK, Inputs
  <2>2. s \in {0, 1} /\ p \in {0, 1}
    BY <1>0, DequeueCases
  <2> QED BY <2>1, <2>2
<1>3. \A k \in 1..(Len(read_data_queue) + Len(in_flight) - p) :
        Replies'[k] = Replies[k + p]
  BY RepliesStep
<1>4. ASSUME NEW i \in 1..n PROVE Waiting'[i] = Waiting[i + s]
  <2>1. PICK j \in 1..Len(rw_queue) : j = i + s
    <3> HIDE DEF s
    <3> QED BY <1>2
  <2>2. i \in 1..Len(rw_queue') /\ i \in 0..n
    <3> HIDE DEF n
    <3> QED BY <1>1, <1>2
  <2>3. /\ Waiting[j] = Seen(rw_queue[j], Replies[ReadsUpTo(rw_queue, j)])
        /\ Waiting'[i] = Seen(rw_queue'[i], Replies'[ReadsUpTo(rw_queue', i)])
    BY <2>1, <2>2 DEF Waiting, Seen
  <2>4. rw_queue'[i] = rw_queue[j] /\ ReadsUpTo(rw_queue', i) = ReadsUpTo(rw_queue, j) - p
    BY <1>1, <2>1, <2>2
  <2>5. CASE ~rw_queue[j].rd
    BY <2>1, <2>3, <2>4, <2>5 DEF Seen
  <2>6. CASE rw_queue[j].rd
    <3>1. PICK k \in Int : k = ReadsUpTo(rw_queue', i)
      <4>1. ReadsUpTo(rw_queue', i) \in Nat
        BY <2>2, CountType
      <4> QED BY <4>1
    <3>2. ReadsUpTo(rw_queue', i) \in 1..ReadsUpTo(rw_queue', Len(rw_queue'))
      <4>1. rw_queue' \in Seq(Command) /\ rw_queue'[i].rd
        BY <2>4, <2>6, StepType DEF TypeOK, Inv
      <4> QED BY <2>2, <4>1, ReadHasReply
    <3>3. ReadsUpTo(rw_queue, j) \in Int /\ ReadsUpTo(rw_queue, j) = k + p
      <4>1. ReadsUpTo(rw_queue, j) \in Nat
        BY CountType
      <4> HIDE DEF p
      <4> QED BY <1>2, <2>4, <3>1, <4>1
    <3>4. ReadsUpTo(rw_queue, j) <= Len(read_data_queue) + Len(in_flight)
      <4>1. ReadsUpTo(rw_queue, j) \in 1..ReadsUpTo(rw_queue, Len(rw_queue))
        BY <1>0, <2>6, ReadHasReply DEF TypeOK
      <4> QED BY <1>0, <4>1 DEF QueuesInStep
    <3>5. k \in 1..(Len(read_data_queue) + Len(in_flight) - p)
      <4>1. k >= 1
        BY <3>1, <3>2
      <4>2. Len(read_data_queue) \in Nat /\ Len(in_flight) \in Nat
        BY <1>0 DEF TypeOK
      <4> HIDE DEF p
      <4> QED BY <1>2, <3>3, <3>4, <4>1, <4>2
    <3>6. Replies'[k] = Replies[k + p]
      BY <1>3, <3>5
    <3>7. Seen(rw_queue'[i], Replies'[k]) = Seen(rw_queue[j], Replies[k + p])
      BY <2>4, <3>6
    <3> QED BY <2>1, <2>3, <3>1, <3>3, <3>7
  <2> QED BY <2>5, <2>6
<1> QED BY <1>1, <1>4

\* What waits (W) moves up into V: its first element, if taken, is in H, the
\* rest stays in order, and a, if there is one, joins at the end.
MovesUp(S, W, V, H, a) ==
  /\ W \in Seq(S) /\ V \in Seq(S) /\ H \in Seq(S) /\ a \in Seq(S)
  /\ Len(H) \in 0..1 /\ Len(a) \in 0..1 /\ Len(H) <= Len(W)
  /\ Len(V) = Len(W) - Len(H) + Len(a)
  /\ Len(H) = 1 => H[1] = W[1]
  /\ \A i \in 1..(Len(W) - Len(H)) : V[i] = W[i + Len(H)]
  /\ Len(a) = 1 => a[1] = V[Len(V)]

\* A pure fact of sequences: then nothing is lost, duplicated or reordered.
LEMMA MovedUp ==
  ASSUME NEW S, NEW W, NEW V, NEW H, NEW a, MovesUp(S, W, V, H, a)
  PROVE  H \o V = W \o a
<1> DEFINE s == Len(H)
           L == Len(W)
           C == Len(a)
           n == Len(V)
<1>a. W \in Seq(S) /\ V \in Seq(S) /\ H \in Seq(S) /\ a \in Seq(S)
  BY DEF MovesUp
<1>2. /\ H \o V \in Seq(S) /\ Len(H \o V) = s + n
      /\ \A i \in 1..(s + n) : (H \o V)[i] = IF i <= s THEN H[i] ELSE V[i - s]
  BY <1>a, ConcatProperties
<1>3. /\ W \o a \in Seq(S) /\ Len(W \o a) = L + C
      /\ \A i \in 1..(L + C) : (W \o a)[i] = IF i <= L THEN W[i] ELSE a[i - L]
  BY <1>a, ConcatProperties
<1>0. L \in Nat /\ n \in Nat
  BY <1>a
<1> HIDE DEF s, L, C, n
<1> SUFFICES ASSUME s \in 0..1, C \in 0..1, s <= L, n = L - s + C,
                    s = 1 => H[1] = W[1],
                    \A i \in 1..(L - s) : V[i] = W[i + s],
                    C = 1 => a[1] = V[n]
             PROVE  H \o V = W \o a
  BY DEF MovesUp, s, L, C, n
<1>1. s \in 0..1 /\ L \in Nat /\ C \in 0..1 /\ n = L - s + C /\ s <= L /\ n \in Nat
  BY <1>0
<1>4. /\ s = 1 => H[1] = W[1]
      /\ \A i \in 1..(L - s) : V[i] = W[i + s]
      /\ C = 1 => a[1] = V[n]
  OBVIOUS
<1>5. Len(H \o V) = Len(W \o a)
  BY <1>1, <1>2, <1>3
<1>6. ASSUME NEW i \in 1..(L + C) PROVE (H \o V)[i] = (W \o a)[i]
  <2>0. i \in 1..(s + n)
    BY <1>1
  <2>1. CASE i <= s
    <3>1. i = 1 /\ s = 1 /\ i <= L
      BY <1>1, <2>1
    <3> QED BY <1>2, <1>3, <1>4, <2>0, <3>1
  <2>2. CASE i > s /\ i <= L
    <3>1. PICK j \in 1..(L - s) : j = i - s
      BY <1>1, <2>2
    <3>2. j + s = i
      BY <1>1, <3>1
    <3>3. ~(i <= s)
      BY <1>1, <2>2
    <3>4. (H \o V)[i] = V[j]
      BY <1>2, <2>0, <3>1, <3>3
    <3>5. (W \o a)[i] = W[i]
      BY <1>3, <2>2
    <3> QED BY <1>4, <3>1, <3>2, <3>4, <3>5
  <2>3. CASE i > L
    <3>1. C = 1 /\ i - L = 1 /\ i - s = n /\ ~(i <= s) /\ ~(i <= L)
      BY <1>1, <2>3
    <3>2. (H \o V)[i] = V[n]
      BY <1>2, <2>0, <3>1
    <3>3. (W \o a)[i] = a[1]
      BY <1>3, <3>1
    <3> QED BY <1>4, <3>1, <3>2, <3>3
  <2>4. i <= s \/ (i > s /\ i <= L) \/ i > L
    BY <1>1
  <2> QED BY <2>1, <2>2, <2>3, <2>4, Zenon
<1>7. \A i \in 1..Len(H \o V) : (H \o V)[i] = (W \o a)[i]
  BY <1>3, <1>5, <1>6
<1> QED BY <1>2, <1>3, <1>5, <1>7, SeqEqual

\* The first command of the queue waits for the first reply, if it is a read.
LEMMA FirstWaiting ==
  ASSUME Inv, Len(rw_queue) > 0
  PROVE  /\ rw_queue[1] \in Command
         /\ rw_queue[1].rd => Waiting[1] = Seen(rw_queue[1], Replies[1])
         /\ ~rw_queue[1].rd => \A d : Waiting[1] = Seen(rw_queue[1], d)
<1>0. TypeOK
  BY DEF Inv
<1>1. 1 \in 1..Len(rw_queue) /\ rw_queue[1] \in Command
  <2>1. 1 \in 1..Len(rw_queue)
    BY <1>0 DEF TypeOK
  <2> QED BY <1>0, <2>1, ElementOfSeq DEF TypeOK
<1>2. Waiting[1] = Seen(rw_queue[1], Replies[ReadsUpTo(rw_queue, 1)])
  BY <1>1 DEF Waiting
<1>3. rw_queue[1].rd => ReadsUpTo(rw_queue, 1) = 1
  <2>1. 0 \in Nat /\ 0 + 1 = 1 /\ 0 + (IF TRUE THEN 1 ELSE 0) = 1
    OBVIOUS
  <2>2. rw_queue[0 + 1].rd \in BOOLEAN
    BY <1>1, <2>1 DEF Command
  <2>3. ReadsUpTo(rw_queue, 0 + 1) =
          ReadsUpTo(rw_queue, 0) + (IF rw_queue[0 + 1].rd THEN 1 ELSE 0)
    BY <2>1, <2>2, CountNext
  <2>4. ReadsUpTo(rw_queue, 0) = 0
    BY CountZero
  <2> QED BY <2>1, <2>3, <2>4, Zenon
<1> QED BY <1>1, <1>2, <1>3 DEF Seen

\* What is in the head register after a cycle without a result write is the
\* command that waited first, with its own data.
LEMMA HeadStep ==
  ASSUME Inv, NEW cmd, NEW issued, NEW reply \in BOOLEAN,
         Inputs(cmd, <<>>, issued), Clock(cmd, <<>>, issued, reply)
  PROVE  /\ Dequeued(FALSE) = 0 => Presented(<<>>)' = <<>>
         /\ Dequeued(FALSE) = 1 => Presented(<<>>)' = <<Waiting[1]>>
<1>0. TypeOK
  BY DEF Inv
<1>1. /\ CAS_queue_head_r' =
           IF CAS_rw_queue_rd_en(FALSE) THEN <<Head(rw_queue)>> ELSE <<>>
      /\ DRAM_data' = IF CAS_read_data_QUEUE_rd_en(FALSE) THEN Head(read_data_queue)
                      ELSE DRAM_data
  BY DEF Clock
<1>2. CASE ~CAS_rw_queue_rd_en(FALSE)
  BY <1>1, <1>2 DEF Dequeued, Presented
<1>3. CASE CAS_rw_queue_rd_en(FALSE)
  <2>1. Dequeued(FALSE) = 1
    BY <1>3 DEF Dequeued
  <2>2. Len(rw_queue) > 0 /\ DequeuedData(FALSE) = IF rw_queue[1].rd THEN 1 ELSE 0
    BY <1>0, <2>1, DequeueCases
  <2>3. Head(rw_queue) = rw_queue[1]
    OBVIOUS
  <2>4. CAS_queue_head_r' = <<rw_queue[1]>> /\ <<rw_queue[1]>> # <<>>
    BY <1>1, <1>3, <2>3
  <2>5. Presented(<<>>)' = <<Seen(rw_queue[1], DRAM_data')>>
    BY <2>4 DEF Presented, Seen
  <2>6. Seen(rw_queue[1], DRAM_data') = Waiting[1]
    <3>1. CASE ~rw_queue[1].rd
      BY <2>2, <3>1, FirstWaiting
    <3>2. CASE rw_queue[1].rd
      <4>1. DequeuedData(FALSE) = 1
        BY <2>2, <3>2
      <4>2. CAS_read_data_QUEUE_rd_en(FALSE)
        <5>1. CASE ~CAS_read_data_QUEUE_rd_en(FALSE)
          <6>1. DequeuedData(FALSE) = 0
            BY <5>1, Zenon DEF DequeuedData
          <6>2. 0 # 1
            OBVIOUS
          <6> QED BY <4>1, <6>1, <6>2, Zenon
        <5> QED BY <5>1
      <4>3. 1 \in 1..Len(read_data_queue)
        <5>1. Len(read_data_queue) > 0
          BY <1>0, <4>1, DequeueCases
        <5>2. Len(read_data_queue) \in Nat
          BY <1>0 DEF TypeOK
        <5> QED BY <5>1, <5>2
      <4>4. Replies[1] = read_data_queue[1]
        BY <1>0, <4>3, RepliesShape DEF TypeOK, Replies
      <4>5. DRAM_data' = Replies[1]
        BY <1>1, <4>2, <4>4
      <4> QED BY <2>2, <3>2, <4>5, FirstWaiting
    <3> QED BY <3>1, <3>2
  <2>7. Presented(<<>>)' = <<Waiting[1]>>
    BY <2>5, <2>6, Zenon
  <2>8. 1 # 0
    OBVIOUS
  <2> QED BY <2>1, <2>7, <2>8, Zenon
<1> QED BY <1>2, <1>3

\* After a cycle without a result write, what waited before it follows in
\* order, with the command of the cycle at the end.
LEMMA PendingStep ==
  ASSUME Inv, NEW cmd, NEW issued, NEW reply \in BOOLEAN,
         Inputs(cmd, <<>>, issued), Clock(cmd, <<>>, issued, reply)
  PROVE  \E a \in {<<>>} \cup {<<q>> : q \in Service!Request} :
           Presented(<<>>)' \o Waiting' = Waiting \o a
<1>0. TypeOK /\ Inv'
  BY StepType, StepAges, StepInStep, StepBacklog, StepOccupancy DEF Inv
<1> DEFINE s == Dequeued(FALSE)
           H == Presented(<<>>)'
           V == Waiting'
           S == Service!Request
<1>1. Waiting \in Seq(S) /\ Len(Waiting) = Len(rw_queue)
  BY WaitingType
<1>2. V \in Seq(S) /\ Len(V) = Len(rw_queue')
  BY <1>0, NextWaitingType
<1>3. (<<>> # <<>>) = FALSE
  OBVIOUS
<1>4. /\ Len(rw_queue) - s \in Nat /\ Len(rw_queue') = Len(rw_queue) - s + Len(cmd)
      /\ \A i \in 1..(Len(rw_queue) - s) : V[i] = Waiting[i + s]
  BY <1>3, WaitingStep
<1>5. s \in {0, 1} /\ (s = 1 => Len(rw_queue) > 0) /\ Len(rw_queue) \in Nat
      /\ Len(cmd) \in 0..1
  <2>1. s \in {0, 1} /\ (s = 1 => Len(rw_queue) > 0)
    BY <1>0, DequeueCases
  <2>2. Len(rw_queue) \in Nat
    BY <1>0 DEF TypeOK
  <2>3. Len(cmd) \in 0..1
    <3>1. cmd \in Seq(Command) /\ Len(cmd) < 2
      BY DEF Inputs
    <3>2. Len(cmd) \in Nat
      BY <3>1
    <3>3. \A c \in Nat : c < 2 => c \in 0..1
      OBVIOUS
    <3> QED BY <3>1, <3>2, <3>3, Zenon
  <2> QED BY <2>1, <2>2, <2>3
<1>6. H \in Seq(S) /\ Len(H) = s /\ (s = 1 => H[1] = Waiting[1])
  <2>1. CASE s = 0
    <3>1. H = <<>>
      BY <2>1, HeadStep
    <3> HIDE DEF H, S, s
    <3> QED BY <2>1, <3>1
  <2>2. CASE s = 1
    <3>1. H = <<Waiting[1]>>
      BY <2>2, HeadStep
    <3>2. Waiting[1] \in S
      BY <1>1, <1>5, <2>2, ElementOfSeq
    <3> HIDE DEF H, S, s
    <3>3. <<Waiting[1]>> \in Seq(S) /\ Len(<<Waiting[1]>>) = 1 /\ <<Waiting[1]>>[1] = Waiting[1]
      BY <3>2
    <3> QED BY <2>2, <3>1, <3>3
  <2> QED BY <1>5, <2>1, <2>2
<1>7. PICK a \in {<<>>} \cup {<<q>> : q \in S} :
        a \in Seq(S) /\ Len(a) = Len(cmd) /\ (Len(a) = 1 => a[1] = V[Len(V)])
  <2>1. CASE Len(cmd) = 0
    <3>1. <<>> \in Seq(S) /\ Len(<<>>) = 0
      OBVIOUS
    <3>2. 0 # 1
      OBVIOUS
    <3> HIDE DEF V, S
    <3> QED BY <2>1, <3>1, <3>2, Zenon
  <2>2. CASE Len(cmd) = 1
    <3>1. V[Len(V)] \in S
      <4>1. Len(V) \in 1..Len(V)
        <5> HIDE DEF V, S, s
        <5> QED BY <1>2, <1>4, <2>2
      <4> QED BY <1>2, <4>1, ElementOfSeq
    <3> DEFINE x == V[Len(V)]
    <3>2. x \in S
      BY <3>1
    <3> HIDE DEF x, S
    <3>3. <<x>> \in Seq(S) /\ Len(<<x>>) = 1 /\ <<x>>[1] = x
      BY <3>2
    <3> QED BY <2>2, <3>2, <3>3 DEF x
  <2> QED BY <1>5, <2>1, <2>2
<1> HIDE DEF H, V, S, s
<1>8. H \o V = Waiting \o a
  <2>1. Waiting \in Seq(S) /\ V \in Seq(S) /\ H \in Seq(S) /\ a \in Seq(S)
    BY <1>1, <1>2, <1>6, <1>7
  <2>2. /\ Len(H) = s /\ Len(Waiting) = Len(rw_queue) /\ Len(a) = Len(cmd)
        /\ Len(V) = Len(rw_queue')
    BY <1>1, <1>2, <1>6, <1>7
  <2>3. /\ s \in 0..1 /\ Len(cmd) \in 0..1 /\ s <= Len(rw_queue)
        /\ Len(rw_queue') = Len(rw_queue) - s + Len(cmd)
    BY <1>4, <1>5
  <2>4. /\ Len(H) \in 0..1 /\ Len(a) \in 0..1 /\ Len(H) <= Len(Waiting)
        /\ Len(V) = Len(Waiting) - Len(H) + Len(a)
    BY <2>2, <2>3, Zenon
  <2>5. Len(H) = 1 => H[1] = Waiting[1]
    BY <1>6
  <2>6. \A i \in 1..(Len(Waiting) - Len(H)) : V[i] = Waiting[i + Len(H)]
    BY <1>4, <2>2, Zenon
  <2>7. Len(a) = 1 => a[1] = V[Len(V)]
    BY <1>7
  <2>8. MovesUp(S, Waiting, V, H, a)
    BY <2>1, <2>4, <2>5, <2>6, <2>7, Zenon DEF MovesUp
  <2> QED BY <2>8, MovedUp
<1> QED BY <1>8 DEF H, V, S

\* A result write leaves what is queued, and what is in the head register.
LEMMA BypassStep ==
  ASSUME Inv, NEW t \in Tag, NEW reply \in BOOLEAN, ResultWrite(t, reply)
  PROVE  /\ Presented(<<>>)' = Presented(<<>>) /\ Waiting' = Waiting
         /\ req_r' = <<[rd |-> FALSE, tag |-> t, data |-> NoData]>>
<1> DEFINE w == [rd |-> FALSE, tag |-> t, data |-> NoData]
<1>1. Inputs(<<>>, <<w>>, <<>>) /\ Clock(<<>>, <<w>>, <<>>, reply)
  BY ResultIsClock
<1>2. req_r' = <<w>>
  <2> HIDE DEF w
  <2>1. <<w>> # <<>>
    OBVIOUS
  <2> QED BY <1>1, <2>1 DEF Clock, Presented
<1>3. (<<w>> # <<>>) = TRUE /\ Dequeued(TRUE) = 0 /\ ~CAS_read_data_QUEUE_rd_en(TRUE)
  BY DEF Dequeued, CAS_rw_queue_rd_en, CAS_read_data_QUEUE_rd_en
<1>4. CAS_queue_head_r' = CAS_queue_head_r /\ DRAM_data' = DRAM_data
  <2> HIDE DEF w
  <2> QED BY <1>1, <1>3 DEF Clock
<1>5. Presented(<<>>)' = Presented(<<>>)
  BY <1>4 DEF Presented, Seen
<1>6. Waiting' = Waiting
  <2>1. Inv'
    BY <1>1, StepType, StepAges, StepInStep, StepBacklog, StepOccupancy DEF Inv
  <2>2. Waiting \in Seq(Service!Request) /\ Len(Waiting) = Len(rw_queue)
    BY WaitingType
  <2>3. Waiting' \in Seq(Service!Request) /\ Len(Waiting') = Len(rw_queue')
    BY <2>1, NextWaitingType
  <2>4. /\ Len(rw_queue') = Len(rw_queue) - 0 + Len(<<>>)
        /\ \A i \in 1..(Len(rw_queue) - 0) : Waiting'[i] = Waiting[i + 0]
    <3> DEFINE b == <<w>>
    <3>1. Inputs(<<>>, b, <<>>) /\ Clock(<<>>, b, <<>>, reply) /\ Dequeued(b # <<>>) = 0
      BY <1>1, <1>3
    <3> HIDE DEF b
    <3>2. /\ Len(rw_queue') = Len(rw_queue) - Dequeued(b # <<>>) + Len(<<>>)
          /\ \A i \in 1..(Len(rw_queue) - Dequeued(b # <<>>)) :
               Waiting'[i] = Waiting[i + Dequeued(b # <<>>)]
      BY <3>1, WaitingStep
    <3> QED BY <3>1, <3>2
  <2>5. Len(rw_queue) \in Nat
    BY DEF Inv, TypeOK
  <2>6. Len(Waiting') = Len(Waiting) /\ \A i \in 1..Len(Waiting') : Waiting'[i] = Waiting[i]
    BY <2>2, <2>3, <2>4, <2>5
  <2> QED BY <2>2, <2>3, <2>6, SeqEqual
<1> QED BY <1>2, <1>5, <1>6

\* The request path implements the in-order service: whatever mix of reads,
\* writes, result writes and memory delays it meets, each command is handed over
\* once, in bus order, and a read with its own data.
THEOREM PathImplementsService == Spec => ImplementsService
<1>1. Init => Service!Init
  BY DEF Init, Service!Init, Presented, Waiting
<1>2. Inv /\ [Next]_vars => [Service!Next]_(Service!vars)
  <2> SUFFICES ASSUME Inv, [Next]_vars
               PROVE  [Service!Next]_(Service!vars)
    OBVIOUS
  <2>0. TypeOK
    BY DEF Inv
  <2>1. ASSUME NEW cmd, NEW issued, NEW reply \in BOOLEAN,
               Inputs(cmd, <<>>, issued), Clock(cmd, <<>>, issued, reply)
        PROVE  Service!Next
    <3>1. PICK a \in {<<>>} \cup {<<q>> : q \in Service!Request} :
            Presented(<<>>)' \o Waiting' = Waiting \o a
      BY <2>1, PendingStep
    <3>2. req_r' = Presented(<<>>)
      BY <2>1 DEF Clock
    <3>3. Waiting \in Seq(Service!Request)
      BY WaitingType
    <3>4. Service!Cycle(a)
      <4>1. CASE CAS_queue_head_r = <<>>
        <5>1. Presented(<<>>) = <<>>
          BY <4>1 DEF Presented
        <5>2. <<>> \o Waiting = Waiting
          BY <3>3, ConcatEmptySeq
        <5> QED BY <3>1, <3>2, <5>1, <5>2 DEF Service!Cycle
      <4>2. CASE CAS_queue_head_r # <<>>
        <5>1. PICK x : Presented(<<>>) = <<x>>
          BY <4>2 DEF Presented
        <5>2. <<x>> \o Waiting # <<>> /\ Head(<<x>> \o Waiting) = x
              /\ Tail(<<x>> \o Waiting) = Waiting
          BY <3>3
        <5> QED BY <3>1, <3>2, <5>1, <5>2 DEF Service!Cycle
      <4> QED BY <4>1, <4>2
    <3> QED BY <3>1, <3>4 DEF Service!Next
  <2>2. ASSUME NEW reply \in BOOLEAN, NEW t \in Tag, ResultWrite(t, reply)
        PROVE  Service!Next
    BY <2>2, BypassStep DEF Service!Next, Service!Bypass
  <2>3. CASE FreeCycle
    BY <2>1, <2>3, FreeIsClock
  <2>4. CASE ResultCycle
    BY <2>2, <2>4 DEF ResultCycle
  <2>5. CASE Reset
    <3>1. Presented(<<>>)' = <<>> /\ Waiting' = <<>> /\ req_r' = <<>>
      BY <2>5 DEF Reset, Presented, Waiting
    <3> QED BY <3>1 DEF Service!Next, Service!Reset
  <2>6. CASE UNCHANGED vars
    BY <2>6 DEF vars, Service!vars, Presented, Seen, Waiting, Replies, ReadsUpTo
  <2> QED BY <2>3, <2>4, <2>5, <2>6 DEF Next
<1> QED BY <1>1, <1>2, Invariance, PTL DEF Spec, ImplementsService, Service!Spec

=============================================================================
