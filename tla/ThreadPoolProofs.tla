-------------------------- MODULE ThreadPoolProofs --------------------------
(***************************************************************************)
(* The safety of the thread pool for every number of workers, clients and  *)
(* tasks and every queue capacity: blocked_ counts exactly the workers     *)
(* that are blocked or gone, a worker that is blocking holds its mutex, no *)
(* wake-up is lost, and a pool that is destroyed has run every task.       *)
(***************************************************************************)
EXTENDS ThreadPool, FiniteSetTheorems, SequenceTheorems, TLAPS

-----------------------------------------------------------------------------
(***************************************************************************)
(* The inductive invariant.                                                *)
(***************************************************************************)

\* What the place where a worker is says about its other variables.
WorkerInv(w) ==
  /\ Locked(w) <=> status[w] = "Blocking"
  /\ status[w] = "Blocked" => pc[w] = "sleep"
  /\ pc[w] = "sleep" => status[w] \in {"Blocked", "Waking"}
  /\ pc[w] = "rescan" => done_
  /\ should_exit[w] => done_ /\ pc[w] \in {"unblock", "loop", "exit"}
  /\ pc[w] = "exit" => should_exit[w] \/ cancelled_
  /\ task[w] # NoTask => pc[w] \in {"active", "run", "unblock"} /\ ~should_exit[w]
  /\ pc[w] \in {"active", "run"} => task[w] # NoTask
  /\ kids[w] # {} => pc[w] = "run"
  /\ kids[w] \subseteq Children
  /\ pc[w] # "exit" => wake[w] = <<>>

\* What the owner is doing says whether the pool is done or cancelled.
PhaseInv ==
  /\ done_ <=> phase \notin {"open", "cancel"}
  /\ phase = "open" => ~cancelled_
  /\ phase \in {"cancel", "cancelled", "flush"} => cancelled_
  /\ phase = "join" /\ ~cancelled_ => todo = {}
  /\ \A t \in Thread : seen_blocked[t] => wake[t] # <<>>

\* The workers that blocked_ counts.
Counted == {w \in Worker : pc[w] \in {"check", "rescan", "uncount", "sleep"} \/ should_exit[w]}

\* Worker u will look at queue v before it sleeps or exits.
Alert(u, v) ==
  \/ pc[u] \in {"pop", "spin", "try", "steal", "block", "scan_pop", "active", "run"}
  \/ pc[u] \in {"loop", "uncount", "unblock"} /\ ~should_exit[u]
  \/ pc[u] = "scan" /\ v \in scan[u]
  \/ pc[u] = "sleep" /\ status[u] = "Waking"

\* A queue with tasks in it has a worker that will look at it.
Attended(v) == queue[v] # <<>> => \E u \in Worker : Alert(u, v)

\* All queues are attended when no client has anybody to wake, and when a
\* worker has decided to exit; the queues that it has found empty once more,
\* while it is still deciding.
AttendedInv ==
  ~cancelled_ =>
    /\ (\A c \in Client : wake[c] = <<>>) => \A v \in Worker : Attended(v)
    /\ \A w \in Worker : should_exit[w] => \A v \in Worker : Attended(v)
    /\ \A w \in Worker : pc[w] = "rescan" =>
         \A v \in Worker \ scan[w] : Attended(v)

\* Task t has not started; it has; or the task that schedules it has not, or
\* is about to schedule it.
Queued(t) == \E w \in Worker : \E i \in 1..Len(queue[w]) : queue[w][i] = t
Waiting(t) ==
  \/ t \in todo \/ Queued(t)
  \/ \E w \in Worker : task[w] = t /\ pc[w] # "run"
Started(t) == t \in ran \/ \E w \in Worker : task[w] = t /\ pc[w] = "run"
Accounted(t) ==
  \/ Waiting(t) \/ Started(t)
  \/ \E w \in Worker : t \in kids[w]
  \/ \E p \in Task : t \in Spawns[p] /\ Waiting(p)

\* No task gets lost, unless the pool is cancelled.
TaskInv == ~cancelled_ => \A t \in Task : Accounted(t)

\* The types of everything but blocked_, whose bound follows from what it counts.
QueueOK ==
  queue \in [Worker -> Seq(Task)] /\ \A w \in Worker : Len(queue[w]) <= kSize
Types ==
  /\ QueueOK
  /\ status \in [Worker -> {"Spinning", "Active", "Blocking", "Blocked", "Waking"}]
  /\ done_ \in BOOLEAN /\ cancelled_ \in BOOLEAN
  /\ pc \in [Worker -> {"loop", "pop", "spin", "try", "steal", "block", "scan",
                        "scan_pop", "count", "check", "rescan", "uncount", "unblock",
                        "sleep", "active", "run", "exit"}]
  /\ task \in [Worker -> Task \cup {NoTask}] /\ kids \in [Worker -> SUBSET Task]
  /\ scan \in [Worker -> SUBSET Worker] /\ should_exit \in [Worker -> BOOLEAN]
  /\ wake \in [Thread -> Seq(Worker)] /\ seen_blocked \in [Thread -> BOOLEAN]
  /\ todo \subseteq Task /\ ran \subseteq Task
  /\ phase \in {"open", "cancel", "cancelled", "flush", "join"}
  /\ flushed \in 0..num_threads_

LocalInv == Types /\ PhaseInv /\ \A w \in Worker : WorkerInv(w)

IInv ==
  /\ LocalInv
  /\ blocked_ = Cardinality(Counted)
  /\ AttendedInv /\ TaskInv

-----------------------------------------------------------------------------
(***************************************************************************)
(* Sequences, as the model uses them.                                      *)
(***************************************************************************)

\* Taking the first element away.
LEMMA TailFacts ==
  ASSUME NEW S, NEW s \in Seq(S), s # <<>>
  PROVE  /\ Head(s) \in S /\ Head(s) = s[1] /\ Len(s) \in Nat \ {0}
         /\ Tail(s) \in Seq(S) /\ Len(Tail(s)) = Len(s) - 1
         /\ \A i \in 1..(Len(s) - 1) : Tail(s)[i] = s[i + 1]
  BY HeadTailProperties, EmptySeq

\* Taking the last element away.
LEMMA FrontFacts ==
  ASSUME NEW S, NEW s \in Seq(S), s # <<>>
  PROVE  /\ s[Len(s)] \in S /\ Len(s) \in Nat \ {0}
         /\ SubSeq(s, 1, Len(s) - 1) \in Seq(S)
         /\ Len(SubSeq(s, 1, Len(s) - 1)) = Len(s) - 1
         /\ \A i \in 1..(Len(s) - 1) : SubSeq(s, 1, Len(s) - 1)[i] = s[i]
<1>1. Len(s) \in Nat \ {0} /\ \A i \in 1..Len(s) : s[i] \in S
  BY EmptySeq, ElementOfSeq
<1>2. \A i \in 1..(Len(s) - 1) : s[i] \in S
  BY <1>1
<1>3. SubSeq(s, 1, Len(s) - 1) \in Seq(S)
  OBVIOUS
<1>4. Len(SubSeq(s, 1, Len(s) - 1)) = Len(s) - 1
  <2> DEFINE m == 1
             k == Len(s) - 1
  <2>1. m = 1 /\ m \in Int /\ k \in Nat /\ \A i \in m..k : s[i] \in S
    BY <1>1
  <2> HIDE DEF m, k
  <2>2. Len(SubSeq(s, m, k)) = IF m <= k THEN k - m + 1 ELSE 0
    BY <2>1, SubSeqProperties
  <2>3. Len(SubSeq(s, m, k)) = k
    BY <2>1, <2>2
  <2> QED BY <2>3 DEF m, k
<1>5. \A i \in 1..(Len(s) - 1) : SubSeq(s, 1, Len(s) - 1)[i] = s[i]
  OBVIOUS
<1> QED BY <1>1, <1>3, <1>4, <1>5

\* Adding an element in front.
LEMMA ConsFacts ==
  ASSUME NEW S, NEW s \in Seq(S), NEW e \in S
  PROVE  /\ <<e>> \o s \in Seq(S) /\ Len(<<e>> \o s) = Len(s) + 1
         /\ <<e>> \o s # <<>> /\ (<<e>> \o s)[1] = e
         /\ \A i \in 1..Len(s) : (<<e>> \o s)[i + 1] = s[i]
<1>1. <<e>> \in Seq(S) /\ Len(<<e>>) = 1 /\ <<e>>[1] = e
  OBVIOUS
<1>2. Len(s) \in Nat
  BY LenProperties
<1> QED BY <1>1, <1>2, ConcatProperties

\* The whole pool is a list of workers, and not empty.
LEMMA EveryoneFacts == Everyone \in Seq(Worker) /\ Everyone # <<>>
<1>1. num_threads_ \in Nat \ {0}
  BY PoolAssumption
<1>2. \A i \in 1..num_threads_ : Everyone[i] \in Worker
  BY <1>1 DEF Everyone, Worker
<1>3. Everyone \in [1..num_threads_ -> Worker]
  BY <1>2 DEF Everyone
<1>4. Everyone \in Seq(Worker)
  BY <1>1, <1>3, SeqDef
<1>5. Everyone[1] = 0 /\ 1 \in DOMAIN Everyone
  BY <1>1 DEF Everyone
<1>6. DOMAIN <<>> = {}
  OBVIOUS
<1> QED BY <1>4, <1>5, <1>6

\* No client is a worker.
LEMMA ThreadFacts ==
  /\ Worker \cap Client = {} /\ Worker \subseteq Thread /\ Client \subseteq Thread
  /\ Main \in Client /\ Main \notin Worker /\ Main \in Thread
  BY MainAssumption, PoolAssumption DEF Thread, Worker

-----------------------------------------------------------------------------
(***************************************************************************)
(* The variables of one thread, and the phase.                             *)
(***************************************************************************)

\* One queue is replaced by a list that fits.
LEMMA QueueSet ==
  ASSUME QueueOK, NEW q \in Worker, NEW s \in Seq(Task), Len(s) <= kSize,
         queue' = [queue EXCEPT ![q] = s]
  PROVE  QueueOK'
  BY DEF QueueOK

\* EnsureAwake reads a status: nobody else is concerned.
LEMMA ReadStatusLocal ==
  ASSUME LocalInv, NEW t \in Thread, ReadStatus(t)
  PROVE  LocalInv'
<1>1. Tail(wake[t]) \in Seq(Worker)
  BY TailFacts DEF ReadStatus, LocalInv, Types
<1>2. Types'
  BY <1>1 DEF ReadStatus, LocalInv, Types, QueueOK, worker_vars, main_vars
<1>3. PhaseInv'
  BY DEF ReadStatus, LocalInv, Types, PhaseInv, worker_vars, main_vars
<1>4. \A w \in Worker : WorkerInv(w)'
  BY ThreadFacts DEF ReadStatus, LocalInv, Types, WorkerInv, Locked, worker_vars, main_vars
<1> QED BY <1>2, <1>3, <1>4 DEF LocalInv

\* EnsureAwake wakes a worker that sleeps, under its mutex.
LEMMA NotifyLocal ==
  ASSUME LocalInv, NEW t \in Thread, Notify(t)
  PROVE  LocalInv'
<1>1. wake[t] \in Seq(Worker) /\ wake[t] # <<>>
  BY DEF Notify, LocalInv, Types, PhaseInv
<1>2. Tail(wake[t]) \in Seq(Worker) /\ Head(wake[t]) \in Worker
  BY <1>1, TailFacts
<1>3. Types'
  BY <1>2 DEF Notify, LocalInv, Types, QueueOK, worker_vars, main_vars
<1>4. PhaseInv'
  BY <1>2 DEF Notify, LocalInv, Types, PhaseInv, worker_vars, main_vars
<1>5. \A w \in Worker : WorkerInv(w)'
  BY <1>1, <1>2, ThreadFacts DEF Notify, LocalInv, Types, WorkerInv, Locked, worker_vars, main_vars
<1> QED BY <1>3, <1>4, <1>5 DEF LocalInv

\* Schedule puts a task into a queue that has room, or runs it itself.
LEMMA ScheduleLocal ==
  ASSUME LocalInv, NEW c \in Client, NEW t \in todo, NEW q \in Worker,
         Schedule(c, t, q)
  PROVE  LocalInv'
<1>1. c \in Thread /\ t \in Task /\ queue[q] \in Seq(Task)
  BY ThreadFacts DEF LocalInv, Types, QueueOK
<1>2. <<t>> \o queue[q] \in Seq(Task) /\ Len(<<t>> \o queue[q]) = Len(queue[q]) + 1
  BY <1>1, ConsFacts
<1>3. <<q>> \in Seq(Worker) /\ <<q>> # <<>> /\ Spawns[t] \subseteq Task
  BY <1>1, SpawnAssumption
<1>4. Len(queue[q]) \in Nat /\ kSize \in Nat
  BY <1>1, LenProperties, PoolAssumption
<1>8. QueueOK'
  <2>1. CASE Len(queue[q]) < kSize
    <3>1. queue' = [queue EXCEPT ![q] = <<t>> \o queue[q]]
      BY <2>1 DEF Schedule
    <3>2. Len(<<t>> \o queue[q]) <= kSize
      BY <1>2, <1>4, <2>1
    <3> QED BY <1>2, <3>1, <3>2, QueueSet DEF LocalInv, Types
  <2>2. CASE ~(Len(queue[q]) < kSize)
    BY <2>2 DEF Schedule, LocalInv, Types, QueueOK
  <2> QED BY <2>1, <2>2
<1>5. Types'
  BY <1>1, <1>3, <1>8 DEF Schedule, LocalInv, Types, worker_vars, main_vars
<1>6. PhaseInv'
  BY <1>1, <1>3 DEF Schedule, LocalInv, Types, PhaseInv, worker_vars, main_vars
<1>7. \A w \in Worker : WorkerInv(w)'
  BY <1>1, ThreadFacts DEF Schedule, LocalInv, Types, WorkerInv, Locked, worker_vars, main_vars
<1> QED BY <1>5, <1>6, <1>7 DEF LocalInv

\* Popping at either end gives the worker a task.
LEMMA PopFacts ==
  ASSUME QueueOK, task \in [Worker -> Task \cup {NoTask}],
         NEW w \in Worker, NEW v \in Worker, PopFront(w, v) \/ PopBack(w, v)
  PROVE  /\ QueueOK'
         /\ task'[w] \in Task
         /\ task' = [task EXCEPT ![w] = task'[w]]
         /\ \A u \in Worker : queue'[u] # <<>> => queue[u] # <<>>
<1>1. queue[v] \in Seq(Task) /\ queue[v] # <<>> /\ Len(queue[v]) <= kSize
  BY DEF PopFront, PopBack, QueueOK
<1>2. kSize \in Nat
  BY PoolAssumption
<1>3. CASE PopFront(w, v)
  <2>1. /\ queue[v][Len(queue[v])] \in Task
        /\ SubSeq(queue[v], 1, Len(queue[v]) - 1) \in Seq(Task)
        /\ Len(SubSeq(queue[v], 1, Len(queue[v]) - 1)) <= kSize
    BY <1>1, <1>2, FrontFacts
  <2>2. queue' = [queue EXCEPT ![v] = SubSeq(queue[v], 1, Len(queue[v]) - 1)]
    BY <1>3 DEF PopFront
  <2>3. QueueOK'
    BY <2>1, <2>2, QueueSet
  <2>4. task'[w] \in Task /\ task' = [task EXCEPT ![w] = task'[w]]
    BY <1>3, <2>1 DEF PopFront
  <2>5. \A u \in Worker : queue'[u] # <<>> => queue[u] # <<>>
    BY <1>1, <2>2 DEF QueueOK
  <2> QED BY <2>3, <2>4, <2>5
<1>4. CASE PopBack(w, v)
  <2>1. /\ Head(queue[v]) \in Task
        /\ Tail(queue[v]) \in Seq(Task) /\ Len(Tail(queue[v])) <= kSize
    BY <1>1, <1>2, TailFacts
  <2>2. queue' = [queue EXCEPT ![v] = Tail(queue[v])]
    BY <1>4 DEF PopBack
  <2>3. QueueOK'
    BY <2>1, <2>2, QueueSet
  <2>4. task'[w] \in Task /\ task' = [task EXCEPT ![w] = task'[w]]
    BY <1>4, <2>1 DEF PopBack
  <2>5. \A u \in Worker : queue'[u] # <<>> => queue[u] # <<>>
    BY <1>1, <2>2 DEF QueueOK
  <2> QED BY <2>3, <2>4, <2>5
<1> QED BY <1>3, <1>4

\* What a worker's steps leave alone: the variables of the other workers.
LEMMA OthersKeep ==
  ASSUME NEW w \in Worker, NEW u \in Worker \ {w}, WorkerInv(u),
         Types, wake' \in [Thread -> Seq(Worker)],
         \E l : pc' = [pc EXCEPT ![w] = l],
         \E s : status' = [status EXCEPT ![w] = s],
         \E t : task' = [task EXCEPT ![w] = t],
         \E k : kids' = [kids EXCEPT ![w] = k],
         \E e : should_exit' = [should_exit EXCEPT ![w] = e],
         \E q : wake' = [wake EXCEPT ![w] = q],
         done_' = done_, cancelled_' = cancelled_
  PROVE  WorkerInv(u)'
<1>1. /\ pc'[u] = pc[u] /\ status'[u] = status[u] /\ task'[u] = task[u]
      /\ kids'[u] = kids[u] /\ should_exit'[u] = should_exit[u]
      /\ wake'[u] = wake[u]
  BY ThreadFacts DEF Types
<1> QED BY <1>1, Zenon DEF WorkerInv, Locked

\* Writing one element of a function with what it holds changes nothing.
LEMMA SameExcept ==
  ASSUME NEW S, NEW T, NEW f \in [S -> T], NEW w
  PROVE  f = [f EXCEPT ![w] = f[w]]
  OBVIOUS

\* A step of a worker in its loop.
LEMMA WorkerLocal ==
  ASSUME LocalInv, NEW w \in Worker, WorkerStep(w)
  PROVE  LocalInv'
<1> USE DEF At, Goto, SetStatus, worker_vars, wake_vars, main_vars
<1>a. Types /\ QueueOK /\ PhaseInv /\ w \in Thread
  BY ThreadFacts DEF LocalInv, Types
<1>b. \A u \in Worker : WorkerInv(u)
  BY DEF LocalInv
<1>c. /\ pc = [pc EXCEPT ![w] = pc[w]]
      /\ status = [status EXCEPT ![w] = status[w]]
      /\ task = [task EXCEPT ![w] = task[w]]
      /\ kids = [kids EXCEPT ![w] = kids[w]]
      /\ should_exit = [should_exit EXCEPT ![w] = should_exit[w]]
      /\ wake = [wake EXCEPT ![w] = wake[w]]
  BY <1>a DEF Types
<1>1. CASE Loop(w)
  <2>0. wake[w] = <<>> /\ seen_blocked[w] = FALSE /\ <<>> \in Seq(Worker)
    BY <1>a, <1>b, <1>1, EmptySeq DEF Loop, WorkerInv, PhaseInv, Types
  <2>1. Types'
    <3>1. wake' \in [Thread -> Seq(Worker)]
      <4>1. PICK x \in Seq(Worker) : wake' = [wake EXCEPT ![w] = x]
        BY <1>c, <1>1, <2>0, EveryoneFacts DEF Loop
      <4> QED BY <1>a, <4>1 DEF Types
    <3>2. \E l \in {"exit", "pop"} : pc' = [pc EXCEPT ![w] = l]
      BY <1>1 DEF Loop
    <3> QED BY <1>a, <1>1, <3>1, <3>2 DEF Loop, Types, QueueOK
  <2>2. PhaseInv'
    BY <1>a, <1>1, <2>0 DEF Loop, Types, PhaseInv
  <2>3. WorkerInv(w)'
    <3>1. /\ pc[w] = "loop" /\ status'[w] = status[w] /\ done_' = done_
          /\ should_exit'[w] = should_exit[w] /\ cancelled_' = cancelled_
          /\ task'[w] = task[w] /\ kids'[w] = kids[w]
      BY <1>1 DEF Loop
    <3>2. \/ pc'[w] = "exit" /\ (should_exit[w] \/ cancelled_)
          \/ pc'[w] = "pop" /\ ~should_exit[w] /\ wake'[w] = wake[w]
      BY <1>a, <1>1 DEF Loop, Types
    <3> QED BY <1>b, <2>0, <3>1, <3>2, Zenon DEF WorkerInv, Locked
  <2>4. \A u \in Worker \ {w} : WorkerInv(u)'
    BY <1>a, <1>b, <1>c, <1>1, <2>1, OthersKeep, <2>0 DEF Loop, Types
  <2> QED BY <2>1, <2>2, <2>3, <2>4 DEF LocalInv
<1>2. CASE Spin(w)
  <2>0. \E l \in {"try", "steal"} : pc' = [pc EXCEPT ![w] = l]
    BY <1>2 DEF Spin
  <2>1. Types'
    BY <1>a, <1>2, <2>0 DEF Spin, Types, QueueOK
  <2>2. PhaseInv'
    BY <1>a, <1>2 DEF Spin, Types, PhaseInv
  <2>3. WorkerInv(w)'
    BY <1>a, <1>b, <1>2, <2>0 DEF Spin, Types, PhaseInv, WorkerInv, Locked
  <2>4. \A u \in Worker \ {w} : WorkerInv(u)'
    BY <1>a, <1>b, <1>c, <1>2, <2>1, OthersKeep, <2>0 DEF Spin, Types
  <2> QED BY <2>1, <2>2, <2>3, <2>4 DEF LocalInv
<1>3. CASE SetBlocking(w)
  <2>1. Types'
    BY <1>a, <1>3 DEF SetBlocking, Types, QueueOK
  <2>2. PhaseInv'
    BY <1>a, <1>3 DEF SetBlocking, Types, PhaseInv
  <2>3. WorkerInv(w)'
    BY <1>a, <1>b, <1>3 DEF SetBlocking, Types, PhaseInv, WorkerInv, Locked
  <2>4. \A u \in Worker \ {w} : WorkerInv(u)'
    BY <1>a, <1>b, <1>c, <1>3, <2>1, OthersKeep DEF SetBlocking, Types
  <2> QED BY <2>1, <2>2, <2>3, <2>4 DEF LocalInv
<1>4. CASE Scan(w)
  <2>0. /\ \E l \in {"count", "scan", "scan_pop", "unblock"} : pc' = [pc EXCEPT ![w] = l]
        /\ scan' \in [Worker -> SUBSET Worker]
    <3>1. PICK v \in scan[w] :
            \/ /\ scan' = [scan EXCEPT ![w] = @ \ {v}]
               /\ pc' = [pc EXCEPT ![w] = IF scan[w] = {v} THEN "count" ELSE "scan"]
            \/ /\ scan' = [scan EXCEPT ![w] = IF cancelled_ THEN {} ELSE {v}]
               /\ pc' = [pc EXCEPT ![w] = IF cancelled_ THEN "unblock" ELSE "scan_pop"]
      BY <1>4 DEF Scan
    <3>2. scan[w] \subseteq Worker /\ v \in Worker
      BY <1>a DEF Types
    <3>3. \E l \in {"count", "scan", "scan_pop", "unblock"} : pc' = [pc EXCEPT ![w] = l]
      BY <3>1
    <3>4. \E S \in SUBSET Worker : scan' = [scan EXCEPT ![w] = S]
      BY <3>1, <3>2
    <3>7. scan \in [Worker -> SUBSET Worker]
      BY <1>a DEF Types
    <3>8. scan' \in [Worker -> SUBSET Worker]
      BY <3>4, <3>7
    <3> QED BY <3>3, <3>8
  <2>1. Types'
    BY <1>a, <1>4, <2>0 DEF Scan, Types, QueueOK
  <2>2. PhaseInv'
    BY <1>a, <1>4 DEF Scan, Types, PhaseInv
  <2>3. WorkerInv(w)'
    <3>1. /\ pc[w] = "scan" /\ status'[w] = status[w] /\ done_' = done_
          /\ should_exit'[w] = should_exit[w] /\ cancelled_' = cancelled_
          /\ task'[w] = task[w] /\ kids'[w] = kids[w] /\ wake'[w] = wake[w]
      BY <1>4 DEF Scan
    <3>2. pc'[w] \in {"count", "scan", "scan_pop", "unblock"}
      BY <1>a, <2>0 DEF Types
    <3> QED BY <1>b, <3>1, <3>2, Zenon DEF WorkerInv, Locked
  <2>4. \A u \in Worker \ {w} : WorkerInv(u)'
    BY <1>a, <1>b, <1>c, <1>4, <2>1, OthersKeep, <2>0 DEF Scan, Types
  <2> QED BY <2>1, <2>2, <2>3, <2>4 DEF LocalInv
<1>5. CASE CountBlocked(w)
  <2>1. Types'
    BY <1>a, <1>5 DEF CountBlocked, Types, QueueOK
  <2>2. PhaseInv'
    BY <1>a, <1>5 DEF CountBlocked, Types, PhaseInv
  <2>3. WorkerInv(w)'
    BY <1>a, <1>b, <1>5 DEF CountBlocked, Types, PhaseInv, WorkerInv, Locked
  <2>4. \A u \in Worker \ {w} : WorkerInv(u)'
    BY <1>a, <1>b, <1>c, <1>5, <2>1, OthersKeep DEF CountBlocked, Types
  <2> QED BY <2>1, <2>2, <2>3, <2>4 DEF LocalInv
<1>6. CASE CheckDone(w)
  <2>0. /\ \E l \in {"rescan", "sleep"} : pc' = [pc EXCEPT ![w] = l]
        /\ \E s \in {"Blocked", status[w]} : status' = [status EXCEPT ![w] = s]
        /\ scan' \in [Worker -> SUBSET Worker]
    <3>1. scan \in [Worker -> SUBSET Worker]
      BY <1>a DEF Types
    <3>2. CASE AllBlocked
      BY <1>c, <1>6, <3>1, <3>2 DEF CheckDone
    <3>3. CASE ~AllBlocked
      BY <1>c, <1>6, <3>1, <3>3 DEF CheckDone
    <3> QED BY <3>2, <3>3
  <2>1. Types'
    <3>1. pc' \in [Worker -> {"loop", "pop", "spin", "try", "steal", "block", "scan",
                              "scan_pop", "count", "check", "rescan", "uncount", "unblock",
                              "sleep", "active", "run", "exit"}]
      BY <1>a, <2>0 DEF Types
    <3>2. status' \in [Worker -> {"Spinning", "Active", "Blocking", "Blocked", "Waking"}]
      BY <1>a, <2>0 DEF Types
    <3> QED BY <1>a, <1>6, <2>0, <3>1, <3>2 DEF CheckDone, Types, QueueOK
  <2>2. PhaseInv'
    BY <1>a, <1>6 DEF CheckDone, Types, PhaseInv
  <2>3. WorkerInv(w)'
    <3>1. /\ pc[w] = "check" /\ done_' = done_ /\ wake'[w] = wake[w]
          /\ should_exit'[w] = should_exit[w] /\ cancelled_' = cancelled_
          /\ task'[w] = task[w] /\ kids'[w] = kids[w]
      BY <1>6 DEF CheckDone
    <3>2. \/ pc'[w] = "rescan" /\ done_ /\ status'[w] = status[w]
          \/ pc'[w] = "sleep" /\ status'[w] = "Blocked"
      BY <1>a, <1>6 DEF CheckDone, Types, AllBlocked
    <3> QED BY <1>b, <3>1, <3>2, Zenon DEF WorkerInv, Locked
  <2>4. \A u \in Worker \ {w} : WorkerInv(u)'
    BY <1>a, <1>b, <1>c, <1>6, <2>1, OthersKeep, <2>0 DEF CheckDone, Types
  <2> QED BY <2>1, <2>2, <2>3, <2>4 DEF LocalInv
<1>7. CASE Rescan(w)
  <2>0. /\ \E l \in {"rescan", "uncount", "unblock"} : pc' = [pc EXCEPT ![w] = l]
        /\ \E e \in {TRUE, should_exit[w]} : should_exit' = [should_exit EXCEPT ![w] = e]
        /\ scan' \in [Worker -> SUBSET Worker]
        /\ should_exit'[w] => pc'[w] = "unblock" \/ should_exit[w]
    <3>1. PICK v \in scan[w] :
            \/ /\ scan' = [scan EXCEPT ![w] = {}]
               /\ pc' = [pc EXCEPT ![w] = "uncount"]
               /\ should_exit' = should_exit
            \/ /\ scan' = [scan EXCEPT ![w] = @ \ {v}]
               /\ pc' = pc /\ should_exit' = should_exit
            \/ /\ scan' = [scan EXCEPT ![w] = {}]
               /\ pc' = [pc EXCEPT ![w] = "unblock"]
               /\ should_exit' = [should_exit EXCEPT ![w] = TRUE]
      BY <1>7 DEF Rescan
    <3>2. scan[w] \subseteq Worker /\ v \in Worker /\ pc[w] = "rescan"
      BY <1>a, <1>7 DEF Types, Rescan
    <3>3. \E l \in {"rescan", "uncount", "unblock"} : pc' = [pc EXCEPT ![w] = l]
      BY <1>c, <3>1, <3>2
    <3>4. \E S \in SUBSET Worker : scan' = [scan EXCEPT ![w] = S]
      BY <3>1, <3>2
    <3>5. \E e \in {TRUE, should_exit[w]} : should_exit' = [should_exit EXCEPT ![w] = e]
      BY <1>c, <3>1
    <3>6. should_exit'[w] => pc'[w] = "unblock" \/ should_exit[w]
      BY <1>a, <3>1 DEF Types
    <3>7. scan \in [Worker -> SUBSET Worker]
      BY <1>a DEF Types
    <3>8. scan' \in [Worker -> SUBSET Worker]
      BY <3>4, <3>7
    <3> QED BY <3>3, <3>5, <3>6, <3>8
  <2>1. Types'
    <3>1. pc' \in [Worker -> {"loop", "pop", "spin", "try", "steal", "block", "scan",
                              "scan_pop", "count", "check", "rescan", "uncount", "unblock",
                              "sleep", "active", "run", "exit"}]
      BY <1>a, <2>0 DEF Types
    <3>2. should_exit' \in [Worker -> BOOLEAN]
      BY <1>a, <2>0 DEF Types
    <3> QED BY <1>a, <1>7, <2>0, <3>1, <3>2 DEF Rescan, Types, QueueOK
  <2>2. PhaseInv'
    BY <1>a, <1>7 DEF Rescan, Types, PhaseInv
  <2>3. WorkerInv(w)'
    <3>1. /\ pc[w] = "rescan" /\ done_' = done_ /\ wake'[w] = wake[w]
          /\ status'[w] = status[w] /\ cancelled_' = cancelled_
          /\ task'[w] = task[w] /\ kids'[w] = kids[w]
      BY <1>7 DEF Rescan
    <3>2. /\ pc'[w] \in {"rescan", "uncount", "unblock"}
          /\ should_exit'[w] => pc'[w] = "unblock" \/ should_exit[w]
      BY <1>a, <2>0 DEF Types
    <3> QED BY <1>b, <3>1, <3>2, Zenon DEF WorkerInv, Locked
  <2>4. \A u \in Worker \ {w} : WorkerInv(u)'
    BY <1>a, <1>b, <1>c, <1>7, <2>1, OthersKeep, <2>0 DEF Rescan, Types
  <2> QED BY <2>1, <2>2, <2>3, <2>4 DEF LocalInv
<1>8. CASE Unblock(w)
  <2>1. Types'
    BY <1>a, <1>8 DEF Unblock, Types, QueueOK
  <2>2. PhaseInv'
    BY <1>a, <1>8 DEF Unblock, Types, PhaseInv
  <2>3. WorkerInv(w)'
    BY <1>a, <1>b, <1>8 DEF Unblock, Types, PhaseInv, WorkerInv, Locked
  <2>4. \A u \in Worker \ {w} : WorkerInv(u)'
    BY <1>a, <1>b, <1>c, <1>8, <2>1, OthersKeep DEF Unblock, Types
  <2> QED BY <2>1, <2>2, <2>3, <2>4 DEF LocalInv
<1>9. CASE WakeUp(w)
  <2>1. Types'
    BY <1>a, <1>9 DEF WakeUp, Types, QueueOK
  <2>2. PhaseInv'
    BY <1>a, <1>9 DEF WakeUp, Types, PhaseInv
  <2>3. WorkerInv(w)'
    BY <1>a, <1>b, <1>9 DEF WakeUp, Types, PhaseInv, WorkerInv, Locked
  <2>4. \A u \in Worker \ {w} : WorkerInv(u)'
    BY <1>a, <1>b, <1>c, <1>9, <2>1, OthersKeep DEF WakeUp, Types
  <2> QED BY <2>1, <2>2, <2>3, <2>4 DEF LocalInv
<1>10. CASE SetSpinning(w)
  <2>0. task[w] \in Task
    BY <1>a, <1>b, <1>10 DEF SetSpinning, Types, WorkerInv
  <2>1. Types'
    BY <1>a, <1>10, <2>0 DEF SetSpinning, Types, QueueOK
  <2>2. PhaseInv'
    BY <1>a, <1>10 DEF SetSpinning, Types, PhaseInv
  <2>3. WorkerInv(w)'
    BY <1>a, <1>b, <1>10 DEF SetSpinning, Types, PhaseInv, WorkerInv, Locked
  <2>4. \A u \in Worker \ {w} : WorkerInv(u)'
    BY <1>a, <1>b, <1>c, <1>10, <2>1, OthersKeep DEF SetSpinning, Types
  <2> QED BY <2>1, <2>2, <2>3, <2>4 DEF LocalInv
<1>11. CASE SetActive(w)
  <2>0. task[w] \in Task /\ Spawns[task[w]] \subseteq Task \cap Children
    BY <1>a, <1>b, <1>11, SpawnAssumption DEF SetActive, Types, WorkerInv, Children
  <2>1. Types'
    BY <1>a, <1>11, <2>0 DEF SetActive, Types, QueueOK
  <2>2. PhaseInv'
    BY <1>a, <1>11 DEF SetActive, Types, PhaseInv
  <2>3. WorkerInv(w)'
    BY <1>a, <1>b, <1>11, <2>0 DEF SetActive, Types, PhaseInv, WorkerInv, Locked
  <2>4. \A u \in Worker \ {w} : WorkerInv(u)'
    BY <1>a, <1>b, <1>c, <1>11, <2>1, OthersKeep, <2>0 DEF SetActive, Types
  <2> QED BY <2>1, <2>2, <2>3, <2>4 DEF LocalInv
<1>12. CASE Pop(w)
  <2>0. /\ QueueOK' /\ task' \in [Worker -> Task \cup {NoTask}]
        /\ \E x : task' = [task EXCEPT ![w] = x]
        /\ \E l \in {"active", "spin"} : pc' = [pc EXCEPT ![w] = l]
        /\ task'[w] = task[w] \/ (pc'[w] \in {"active", "unblock"} /\ task'[w] \in Task)
        /\ pc'[w] = "active" => task'[w] \in Task
    <3>1. CASE queue' = queue /\ task' = task /\ pc'[w] # "active"
      BY <1>a, <1>c, <1>12, <3>1 DEF Pop, Types, QueueOK
    <3>2. CASE (PopFront(w, w)) /\ pc'[w] \in {"active", "unblock"}
      BY <1>a, <1>12, <3>2, PopFacts DEF Pop, Types
    <3> QED BY <1>a, <1>12, <3>1, <3>2 DEF Pop, Types
  <2>1. Types'
    BY <1>a, <1>12, <2>0 DEF Pop, Types
  <2>2. PhaseInv'
    BY <1>a, <1>12 DEF Pop, Types, PhaseInv
  <2>3. WorkerInv(w)'
    <3>1. /\ pc[w] = "pop" /\ status'[w] = status[w] /\ done_' = done_
          /\ should_exit'[w] = should_exit[w] /\ cancelled_' = cancelled_
          /\ kids'[w] = kids[w] /\ wake'[w] = wake[w]
      BY <1>12 DEF Pop
    <3>2. /\ pc'[w] \in {"active", "spin"}
          /\ pc'[w] = "active" => task'[w] \in Task
          /\ task'[w] = task[w] \/ pc'[w] = "active"
      BY <1>a, <2>0 DEF Types
    <3>3. \A x \in Task : x # NoTask
      BY NoTaskAssumption
    <3>4. task[w] = NoTask /\ ~Locked(w) /\ kids[w] = {} /\ ~should_exit[w]
      BY <1>b, <3>1 DEF WorkerInv, Locked
    <3> QED BY <1>b, <3>1, <3>2, <3>3, <3>4 DEF WorkerInv, Locked
  <2>4. \A u \in Worker \ {w} : WorkerInv(u)'
    BY <1>a, <1>b, <1>c, <1>12, <2>1, OthersKeep, <2>0, NoTaskAssumption DEF Pop, Types
  <2> QED BY <2>1, <2>2, <2>3, <2>4 DEF LocalInv
<1>13. CASE SpinTry(w)
  <2>0. /\ QueueOK' /\ task' \in [Worker -> Task \cup {NoTask}]
        /\ \E x : task' = [task EXCEPT ![w] = x]
        /\ \E l \in {"active", "spin"} : pc' = [pc EXCEPT ![w] = l]
        /\ task'[w] = task[w] \/ (pc'[w] \in {"active", "unblock"} /\ task'[w] \in Task)
        /\ pc'[w] = "active" => task'[w] \in Task
    <3>1. CASE queue' = queue /\ task' = task /\ pc'[w] # "active"
      BY <1>a, <1>c, <1>13, <3>1 DEF SpinTry, Types, QueueOK
    <3>2. CASE (PopFront(w, w) \/ \E v \in Worker : PopBack(w, v)) /\ pc'[w] \in {"active", "unblock"}
      BY <1>a, <1>13, <3>2, PopFacts DEF SpinTry, Types
    <3> QED BY <1>a, <1>13, <3>1, <3>2 DEF SpinTry, Types
  <2>1. Types'
    BY <1>a, <1>13, <2>0 DEF SpinTry, Types, QueueOK
  <2>2. PhaseInv'
    BY <1>a, <1>13 DEF SpinTry, Types, PhaseInv
  <2>3. WorkerInv(w)'
    <3>1. /\ pc[w] = "try" /\ status'[w] = status[w] /\ done_' = done_
          /\ should_exit'[w] = should_exit[w] /\ cancelled_' = cancelled_
          /\ kids'[w] = kids[w] /\ wake'[w] = wake[w]
      BY <1>13 DEF SpinTry
    <3>2. /\ pc'[w] \in {"active", "spin"}
          /\ pc'[w] = "active" => task'[w] \in Task
          /\ task'[w] = task[w] \/ pc'[w] = "active"
      BY <1>a, <2>0 DEF Types
    <3>3. \A x \in Task : x # NoTask
      BY NoTaskAssumption
    <3>4. task[w] = NoTask /\ ~Locked(w) /\ kids[w] = {} /\ ~should_exit[w]
      BY <1>b, <3>1 DEF WorkerInv, Locked
    <3> QED BY <1>b, <3>1, <3>2, <3>3, <3>4 DEF WorkerInv, Locked
  <2>4. \A u \in Worker \ {w} : WorkerInv(u)'
    BY <1>a, <1>b, <1>c, <1>13, <2>1, OthersKeep, <2>0, NoTaskAssumption DEF SpinTry, Types
  <2> QED BY <2>1, <2>2, <2>3, <2>4 DEF LocalInv
<1>14. CASE Steal(w)
  <2>0. /\ QueueOK' /\ task' \in [Worker -> Task \cup {NoTask}]
        /\ \E x : task' = [task EXCEPT ![w] = x]
        /\ \E l \in {"active", "block"} : pc' = [pc EXCEPT ![w] = l]
        /\ task'[w] = task[w] \/ (pc'[w] \in {"active", "unblock"} /\ task'[w] \in Task)
        /\ pc'[w] = "active" => task'[w] \in Task
    <3>1. CASE queue' = queue /\ task' = task /\ pc'[w] # "active"
      BY <1>a, <1>c, <1>14, <3>1 DEF Steal, Types, QueueOK
    <3>2. CASE (\E v \in Worker : PopBack(w, v)) /\ pc'[w] \in {"active", "unblock"}
      BY <1>a, <1>14, <3>2, PopFacts DEF Steal, Types
    <3> QED BY <1>a, <1>14, <3>1, <3>2 DEF Steal, Types
  <2>1. Types'
    BY <1>a, <1>14, <2>0 DEF Steal, Types, QueueOK
  <2>2. PhaseInv'
    BY <1>a, <1>14 DEF Steal, Types, PhaseInv
  <2>3. WorkerInv(w)'
    <3>1. /\ pc[w] = "steal" /\ status'[w] = status[w] /\ done_' = done_
          /\ should_exit'[w] = should_exit[w] /\ cancelled_' = cancelled_
          /\ kids'[w] = kids[w] /\ wake'[w] = wake[w]
      BY <1>14 DEF Steal
    <3>2. /\ pc'[w] \in {"active", "block"}
          /\ pc'[w] = "active" => task'[w] \in Task
          /\ task'[w] = task[w] \/ pc'[w] = "active"
      BY <1>a, <2>0 DEF Types
    <3>3. \A x \in Task : x # NoTask
      BY NoTaskAssumption
    <3>4. task[w] = NoTask /\ ~Locked(w) /\ kids[w] = {} /\ ~should_exit[w]
      BY <1>b, <3>1 DEF WorkerInv, Locked
    <3> QED BY <1>b, <3>1, <3>2, <3>3, <3>4 DEF WorkerInv, Locked
  <2>4. \A u \in Worker \ {w} : WorkerInv(u)'
    BY <1>a, <1>b, <1>c, <1>14, <2>1, OthersKeep, <2>0, NoTaskAssumption DEF Steal, Types
  <2> QED BY <2>1, <2>2, <2>3, <2>4 DEF LocalInv
<1>15. CASE ScanPop(w)
  <2>0. /\ QueueOK' /\ task' \in [Worker -> Task \cup {NoTask}]
        /\ \E x : task' = [task EXCEPT ![w] = x]
        /\ \E l \in {"unblock"} : pc' = [pc EXCEPT ![w] = l]
        /\ task'[w] = task[w] \/ (pc'[w] \in {"active", "unblock"} /\ task'[w] \in Task)
        /\ pc'[w] = "active" => task'[w] \in Task
    <3>1. CASE queue' = queue /\ task' = task /\ pc'[w] # "active"
      BY <1>a, <1>c, <1>15, <3>1 DEF ScanPop, Types, QueueOK
    <3>2. CASE (\E v \in Worker : PopBack(w, v)) /\ pc'[w] \in {"active", "unblock"}
      BY <1>a, <1>15, <3>2, PopFacts DEF ScanPop, Types
    <3> QED BY <1>a, <1>15, <3>1, <3>2 DEF ScanPop, Types
  <2>1. Types'
    BY <1>a, <1>15, <2>0 DEF ScanPop, Types, QueueOK
  <2>2. PhaseInv'
    BY <1>a, <1>15 DEF ScanPop, Types, PhaseInv
  <2>3. WorkerInv(w)'
    <3>1. /\ pc[w] = "scan_pop" /\ done_' = done_ /\ wake'[w] = wake[w]
          /\ status'[w] = status[w] /\ cancelled_' = cancelled_
          /\ should_exit'[w] = should_exit[w] /\ kids'[w] = kids[w]
      BY <1>15 DEF ScanPop
    <3>2. pc'[w] = "unblock" /\ task'[w] \in Task \cup {NoTask}
      BY <1>a, <2>0 DEF Types
    <3> QED BY <1>b, <3>1, <3>2, Zenon DEF WorkerInv, Locked
  <2>4. \A u \in Worker \ {w} : WorkerInv(u)'
    BY <1>a, <1>b, <1>c, <1>15, <2>1, OthersKeep, <2>0, NoTaskAssumption DEF ScanPop, Types
  <2> QED BY <2>1, <2>2, <2>3, <2>4 DEF LocalInv
<1>16. ASSUME NEW t \in Task, ScheduleChild(w, t)
      PROVE  LocalInv'
  <2>1. QueueOK'
    <3>1. CASE Len(queue[w]) < kSize
      <4>1. queue[w] \in Seq(Task) /\ Len(queue[w]) \in Nat /\ kSize \in Nat
        BY <1>a, LenProperties, PoolAssumption DEF QueueOK
      <4>2. Append(queue[w], t) \in Seq(Task) /\ Len(Append(queue[w], t)) <= kSize
        BY <3>1, <4>1, AppendProperties
      <4>3. queue' = [queue EXCEPT ![w] = Append(queue[w], t)]
        BY <1>16, <3>1 DEF ScheduleChild
      <4> QED BY <1>a, <4>2, <4>3, QueueSet
    <3>2. CASE ~(Len(queue[w]) < kSize)
      BY <1>a, <1>16, <3>2 DEF ScheduleChild, QueueOK
    <3> QED BY <3>1, <3>2
  <2>2. Types'
    BY <1>a, <1>16, <2>1 DEF ScheduleChild, Types
  <2>3. PhaseInv'
    BY <1>a, <1>16 DEF ScheduleChild, Types, PhaseInv
  <2>4. \A u \in Worker : WorkerInv(u)'
    BY <1>a, <1>b, <1>16 DEF ScheduleChild, Types, WorkerInv, Locked
  <2> QED BY <2>2, <2>3, <2>4 DEF LocalInv
<1>17. CASE UncountBlocked(w)
  <2>1. Types'
    BY <1>a, <1>17 DEF UncountBlocked, Types, QueueOK
  <2>2. PhaseInv'
    BY <1>a, <1>17 DEF UncountBlocked, Types, PhaseInv
  <2>3. WorkerInv(w)'
    BY <1>a, <1>b, <1>17 DEF UncountBlocked, Types, PhaseInv, WorkerInv, Locked
  <2>4. \A u \in Worker \ {w} : WorkerInv(u)'
    BY <1>a, <1>b, <1>c, <1>17, <2>1, OthersKeep DEF UncountBlocked, Types
  <2> QED BY <2>1, <2>2, <2>3, <2>4 DEF LocalInv
<1> QED
  BY <1>a, <1>1, <1>2, <1>3, <1>4, <1>5, <1>6, <1>7, <1>8, <1>9,
     <1>10, <1>11, <1>12, <1>13, <1>14, <1>15, <1>16, <1>17,
     ReadStatusLocal, NotifyLocal DEF WorkerStep

\* A step of the owner of the pool.
LEMMA MainLocal ==
  ASSUME LocalInv, MainStep \/ Cancel
  PROVE  LocalInv'
<1> USE DEF worker_vars, wake_vars, main_vars
<1>a. Types /\ QueueOK /\ PhaseInv /\ Main \in Thread /\ Main \notin Worker
  BY ThreadFacts DEF LocalInv, Types
<1>b. \A u \in Worker : WorkerInv(u)
  BY DEF LocalInv
<1>c. Worker \subseteq Thread /\ <<>> \in Seq(Worker) /\ Everyone \in Seq(Worker)
  BY ThreadFacts, EmptySeq, EveryoneFacts
<1>1. CASE Destroy
  <2>0. wake' \in [Thread -> Seq(Worker)] /\ \A u \in Worker : wake'[u] = wake[u]
    BY <1>a, <1>c, <1>1 DEF Destroy, Types
  <2>1. Types'
    BY <1>a, <1>1, <2>0 DEF Destroy, Types, QueueOK
  <2>2. seen_blocked[Main] = FALSE
    BY <1>a, <1>1, MainAssumption DEF Destroy, Types, PhaseInv
  <2>3. PhaseInv'
    BY <1>a, <1>1, <2>2 DEF Destroy, Types, PhaseInv
  <2>4. \A u \in Worker : WorkerInv(u)'
    BY <1>b, <1>1, <2>0, Zenon DEF Destroy, WorkerInv, Locked
  <2> QED BY <2>1, <2>3, <2>4 DEF LocalInv
<1>2. CASE Flush
  <2>1. QueueOK' /\ flushed' \in 0..num_threads_
    <3>1. num_threads_ \in Nat /\ flushed \in 0..num_threads_
      BY <1>a, PoolAssumption DEF Types
    <3>2. CASE flushed < num_threads_ /\ queue[flushed] # <<>> /\
               queue' = [queue EXCEPT ![flushed] = SubSeq(@, 1, Len(@) - 1)] /\
               flushed' = flushed
      <4>1. flushed \in Worker
        BY <3>1, <3>2 DEF Worker
      <4>2. queue[flushed] \in Seq(Task) /\ Len(queue[flushed]) <= kSize /\ kSize \in Nat
        BY <1>a, <4>1, PoolAssumption DEF QueueOK
      <4>3. /\ SubSeq(queue[flushed], 1, Len(queue[flushed]) - 1) \in Seq(Task)
            /\ Len(SubSeq(queue[flushed], 1, Len(queue[flushed]) - 1)) <= kSize
        BY <3>2, <4>2, FrontFacts
      <4> QED BY <1>a, <3>1, <3>2, <4>1, <4>3, QueueSet
    <3>3. CASE queue' = queue /\ (flushed' = flushed
                                  \/ (flushed < num_threads_ /\ flushed' = flushed + 1))
      BY <1>a, <3>1, <3>3 DEF QueueOK
    <3>4. \/ flushed < num_threads_ /\ queue[flushed] # <<>> /\
             queue' = [queue EXCEPT ![flushed] = SubSeq(@, 1, Len(@) - 1)] /\
             flushed' = flushed
          \/ queue' = queue /\ flushed < num_threads_ /\ flushed' = flushed + 1
          \/ queue' = queue /\ flushed' = flushed
      BY <1>2 DEF Flush
    <3> QED BY <3>2, <3>3, <3>4
  <2>2. Types'
    BY <1>a, <1>2, <2>1 DEF Flush, Types
  <2>3. PhaseInv'
    BY <1>a, <1>2 DEF Flush, Types, PhaseInv
  <2>4. \A u \in Worker : WorkerInv(u)'
    BY <1>b, <1>2, Zenon DEF Flush, WorkerInv, Locked
  <2> QED BY <2>2, <2>3, <2>4 DEF LocalInv
<1>3. CASE CancelDone
  <2>0. wake' \in [Thread -> Seq(Worker)] /\ \A u \in Worker : wake'[u] = wake[u]
    BY <1>a, <1>c, <1>3 DEF CancelDone, Types
  <2>1. Types'
    BY <1>a, <1>3, <2>0 DEF CancelDone, Types, QueueOK
  <2>2. PhaseInv'
    BY <1>a, <1>3, EveryoneFacts DEF CancelDone, Types, PhaseInv
  <2>3. \A u \in Worker : WorkerInv(u)'
    BY <1>b, <1>3, <2>0, Zenon DEF CancelDone, WorkerInv, Locked
  <2> QED BY <2>1, <2>2, <2>3 DEF LocalInv
<1>4. CASE Cancel
  <2>1. Types'
    BY <1>a, <1>4 DEF Cancel, Types, QueueOK
  <2>2. PhaseInv'
    BY <1>a, <1>4 DEF Cancel, Types, PhaseInv
  <2>3. \A u \in Worker : WorkerInv(u)'
    BY <1>b, <1>4, Zenon DEF Cancel, WorkerInv, Locked
  <2> QED BY <2>1, <2>2, <2>3 DEF LocalInv
<1>5. CASE Construct
  <2>0. num_threads_ \in Nat /\ kSize \in Nat /\ Roots \subseteq Task
    BY PoolAssumption DEF Roots
  <2>1. QueueOK'
    BY <1>5, <2>0 DEF Construct, QueueOK
  <2>2. Types'
    <3>1. /\ wake' = wake /\ seen_blocked' = seen_blocked /\ task' = task
          /\ kids' = kids /\ scan' = scan /\ todo' = Roots /\ ran' = {}
          /\ phase' = "open" /\ flushed' = 0 /\ done_' = FALSE /\ cancelled_' = FALSE
          /\ should_exit' \in [Worker -> BOOLEAN]
      BY <1>5 DEF Construct
    <3>2. /\ pc' \in [Worker -> {"loop"}]
          /\ status' \in [Worker -> {"Spinning"}]
      BY <1>5 DEF Construct
    <3>3. 0 \in 0..num_threads_
      BY <2>0
    <3> QED BY <1>a, <2>0, <2>1, <3>1, <3>2, <3>3 DEF Types
  <2>3. PhaseInv'
    BY <1>a, <1>5 DEF Construct, Types, PhaseInv
  <2>4. \A u \in Worker : WorkerInv(u)'
    <3> SUFFICES ASSUME NEW u \in Worker PROVE WorkerInv(u)'
      OBVIOUS
    <3>1. /\ pc[u] = "exit" /\ wake'[u] = <<>> /\ pc'[u] = "loop"
          /\ status'[u] = "Spinning" /\ should_exit'[u] = FALSE
          /\ task'[u] = task[u] /\ kids'[u] = kids[u]
      BY <1>5 DEF Construct, Joined
    <3> QED BY <1>b, <3>1 DEF WorkerInv, Locked
  <2> QED BY <2>2, <2>3, <2>4 DEF LocalInv
<1> QED BY <1>1, <1>2, <1>3, <1>4, <1>5 DEF MainStep

\* A new pool satisfies them.
LEMMA InitLocal == Init => LocalInv
<1> SUFFICES ASSUME Init PROVE LocalInv
  OBVIOUS
<1>0. num_threads_ \in Nat /\ kSize \in Nat /\ Roots \subseteq Task
  BY PoolAssumption DEF Roots
<1>1. QueueOK
  BY <1>0 DEF Init, QueueOK
<1>2. Types
  <2>1. wake \in [Thread -> Seq(Worker)] /\ seen_blocked \in [Thread -> BOOLEAN]
    BY EmptySeq DEF Init
  <2>2. /\ task \in [Worker -> Task \cup {NoTask}] /\ kids \in [Worker -> SUBSET Task]
        /\ scan \in [Worker -> SUBSET Worker] /\ should_exit \in [Worker -> BOOLEAN]
    BY DEF Init
  <2>3. pc \in [Worker -> {"loop"}] /\ status \in [Worker -> {"Spinning"}]
    BY DEF Init
  <2>4. /\ todo = Roots /\ ran = {} /\ phase = "open" /\ done_ = FALSE
        /\ cancelled_ = FALSE /\ flushed \in 0..num_threads_
    BY <1>0 DEF Init
  <2> QED BY <1>0, <1>1, <2>1, <2>2, <2>3, <2>4 DEF Types
<1>3. PhaseInv
  BY DEF Init, PhaseInv
<1>4. \A w \in Worker : WorkerInv(w)
  BY ThreadFacts DEF Init, WorkerInv, Locked
<1> QED BY <1>2, <1>3, <1>4 DEF LocalInv

\* Any step.
LEMMA NextLocal == LocalInv /\ [Next]_vars => LocalInv'
<1> SUFFICES ASSUME LocalInv, [Next]_vars PROVE LocalInv'
  OBVIOUS
<1>1. CASE \E w \in Worker : WorkerStep(w)
  BY <1>1, WorkerLocal
<1>2. CASE \E c \in Client : ClientStep(c)
  BY <1>2, ThreadFacts, ScheduleLocal, ReadStatusLocal, NotifyLocal DEF ClientStep
<1>3. CASE MainStep \/ Cancel
  BY <1>3, MainLocal
<1>4. CASE UNCHANGED vars
  <2> USE <1>4 DEF vars, worker_vars, wake_vars, main_vars
  <2>1. Types'
    BY DEF LocalInv, Types, QueueOK
  <2>2. PhaseInv'
    BY DEF LocalInv, PhaseInv
  <2>3. \A w \in Worker : WorkerInv(w)'
    BY Zenon DEF LocalInv, WorkerInv, Locked
  <2> QED BY <2>1, <2>2, <2>3 DEF LocalInv
<1> QED BY <1>1, <1>2, <1>3, <1>4 DEF Next

-----------------------------------------------------------------------------
(***************************************************************************)
(* blocked_.                                                               *)
(***************************************************************************)
LEMMA CountedFinite ==
  /\ IsFiniteSet(Counted) /\ Cardinality(Counted) \in 0..num_threads_
<1>1. num_threads_ \in Nat \ {0}
  BY PoolAssumption
<1>2. IsFiniteSet(Worker) /\ Cardinality(Worker) = num_threads_
  BY <1>1, FS_Interval DEF Worker
<1>3. Counted \in SUBSET Worker
  BY DEF Counted
<1> QED BY <1>1, <1>2, <1>3, FS_Subset, FS_CardinalityType

\* One worker's place changes, and blocked_ with it.
LEMMA CountOne ==
  ASSUME LocalInv, blocked_ = Cardinality(Counted), NEW w \in Worker,
         \A u \in Worker \ {w} : pc'[u] = pc[u] /\ should_exit'[u] = should_exit[u],
         \/ w \in Counted /\ w \in Counted' /\ blocked_' = blocked_
         \/ w \notin Counted /\ w \notin Counted' /\ blocked_' = blocked_
         \/ w \notin Counted /\ w \in Counted' /\ blocked_' = blocked_ + 1
         \/ w \in Counted /\ w \notin Counted' /\ blocked_' = blocked_ - 1
  PROVE  blocked_' = Cardinality(Counted')
<1>1. \A u \in Worker \ {w} : u \in Counted' <=> u \in Counted
  BY DEF Counted
<1>2. Counted \subseteq Worker /\ Counted' \subseteq Worker
  BY DEF Counted
<1>3. CASE Counted' = Counted /\ blocked_' = blocked_
  BY <1>3
<1>4. CASE w \notin Counted /\ Counted' = Counted \cup {w} /\ blocked_' = blocked_ + 1
  BY <1>4, CountedFinite, FS_AddElement
<1>5. CASE w \in Counted /\ Counted' = Counted \ {w} /\ blocked_' = blocked_ - 1
  BY <1>5, CountedFinite, FS_RemoveElement
<1> QED BY <1>1, <1>2, <1>3, <1>4, <1>5

\* A worker's steps keep blocked_ exact.
LEMMA WorkerCount ==
  ASSUME LocalInv, blocked_ = Cardinality(Counted), NEW w \in Worker, WorkerStep(w)
  PROVE  blocked_' = Cardinality(Counted')
<1> USE DEF At, Goto, SetStatus, worker_vars, wake_vars, main_vars
<1>a. /\ pc \in [Worker -> {"loop", "pop", "spin", "try", "steal", "block", "scan",
                            "scan_pop", "count", "check", "rescan", "uncount", "unblock",
                            "sleep", "active", "run", "exit"}]
      /\ should_exit \in [Worker -> BOOLEAN]
      /\ should_exit[w] => pc[w] \in {"unblock", "loop", "exit"}
      /\ task[w] # NoTask => ~should_exit[w]
  BY DEF LocalInv, Types, WorkerInv
<1>1. CASE Loop(w)
  <2>1. \A u \in Worker \ {w} : pc'[u] = pc[u] /\ should_exit'[u] = should_exit[u]
    BY <1>a, <1>1 DEF Loop
  <2>2. \/ w \in Counted /\ w \in Counted' /\ blocked_' = blocked_
        \/ w \notin Counted /\ w \notin Counted' /\ blocked_' = blocked_
        \/ w \notin Counted /\ w \in Counted' /\ blocked_' = blocked_ + 1
        \/ w \in Counted /\ w \notin Counted' /\ blocked_' = blocked_ - 1
    BY <1>a, <1>1 DEF Loop, Counted
  <2> QED BY <2>1, <2>2, CountOne
<1>2. CASE Pop(w)
  <2>1. \A u \in Worker \ {w} : pc'[u] = pc[u] /\ should_exit'[u] = should_exit[u]
    BY <1>a, <1>2 DEF Pop
  <2>2. \/ w \in Counted /\ w \in Counted' /\ blocked_' = blocked_
        \/ w \notin Counted /\ w \notin Counted' /\ blocked_' = blocked_
        \/ w \notin Counted /\ w \in Counted' /\ blocked_' = blocked_ + 1
        \/ w \in Counted /\ w \notin Counted' /\ blocked_' = blocked_ - 1
    BY <1>a, <1>2 DEF Pop, Counted
  <2> QED BY <2>1, <2>2, CountOne
<1>3. CASE Spin(w)
  <2>1. \A u \in Worker \ {w} : pc'[u] = pc[u] /\ should_exit'[u] = should_exit[u]
    BY <1>a, <1>3 DEF Spin
  <2>2. \/ w \in Counted /\ w \in Counted' /\ blocked_' = blocked_
        \/ w \notin Counted /\ w \notin Counted' /\ blocked_' = blocked_
        \/ w \notin Counted /\ w \in Counted' /\ blocked_' = blocked_ + 1
        \/ w \in Counted /\ w \notin Counted' /\ blocked_' = blocked_ - 1
    BY <1>a, <1>3 DEF Spin, Counted
  <2> QED BY <2>1, <2>2, CountOne
<1>4. CASE SpinTry(w)
  <2>1. \A u \in Worker \ {w} : pc'[u] = pc[u] /\ should_exit'[u] = should_exit[u]
    BY <1>a, <1>4 DEF SpinTry
  <2>2. \/ w \in Counted /\ w \in Counted' /\ blocked_' = blocked_
        \/ w \notin Counted /\ w \notin Counted' /\ blocked_' = blocked_
        \/ w \notin Counted /\ w \in Counted' /\ blocked_' = blocked_ + 1
        \/ w \in Counted /\ w \notin Counted' /\ blocked_' = blocked_ - 1
    BY <1>a, <1>4 DEF SpinTry, Counted
  <2> QED BY <2>1, <2>2, CountOne
<1>5. CASE Steal(w)
  <2>1. \A u \in Worker \ {w} : pc'[u] = pc[u] /\ should_exit'[u] = should_exit[u]
    BY <1>a, <1>5 DEF Steal
  <2>2. \/ w \in Counted /\ w \in Counted' /\ blocked_' = blocked_
        \/ w \notin Counted /\ w \notin Counted' /\ blocked_' = blocked_
        \/ w \notin Counted /\ w \in Counted' /\ blocked_' = blocked_ + 1
        \/ w \in Counted /\ w \notin Counted' /\ blocked_' = blocked_ - 1
    BY <1>a, <1>5 DEF Steal, Counted
  <2> QED BY <2>1, <2>2, CountOne
<1>6. CASE SetBlocking(w)
  <2>1. \A u \in Worker \ {w} : pc'[u] = pc[u] /\ should_exit'[u] = should_exit[u]
    BY <1>a, <1>6 DEF SetBlocking
  <2>2. \/ w \in Counted /\ w \in Counted' /\ blocked_' = blocked_
        \/ w \notin Counted /\ w \notin Counted' /\ blocked_' = blocked_
        \/ w \notin Counted /\ w \in Counted' /\ blocked_' = blocked_ + 1
        \/ w \in Counted /\ w \notin Counted' /\ blocked_' = blocked_ - 1
    BY <1>a, <1>6 DEF SetBlocking, Counted
  <2> QED BY <2>1, <2>2, CountOne
<1>7. CASE Scan(w)
  <2>1. \A u \in Worker \ {w} : pc'[u] = pc[u] /\ should_exit'[u] = should_exit[u]
    BY <1>a, <1>7 DEF Scan
  <2>2. \/ w \in Counted /\ w \in Counted' /\ blocked_' = blocked_
        \/ w \notin Counted /\ w \notin Counted' /\ blocked_' = blocked_
        \/ w \notin Counted /\ w \in Counted' /\ blocked_' = blocked_ + 1
        \/ w \in Counted /\ w \notin Counted' /\ blocked_' = blocked_ - 1
    BY <1>a, <1>7 DEF Scan, Counted
  <2> QED BY <2>1, <2>2, CountOne
<1>8. CASE ScanPop(w)
  <2>1. \A u \in Worker \ {w} : pc'[u] = pc[u] /\ should_exit'[u] = should_exit[u]
    BY <1>a, <1>8 DEF ScanPop
  <2>2. \/ w \in Counted /\ w \in Counted' /\ blocked_' = blocked_
        \/ w \notin Counted /\ w \notin Counted' /\ blocked_' = blocked_
        \/ w \notin Counted /\ w \in Counted' /\ blocked_' = blocked_ + 1
        \/ w \in Counted /\ w \notin Counted' /\ blocked_' = blocked_ - 1
    BY <1>a, <1>8 DEF ScanPop, Counted
  <2> QED BY <2>1, <2>2, CountOne
<1>9. CASE CountBlocked(w)
  <2>1. \A u \in Worker \ {w} : pc'[u] = pc[u] /\ should_exit'[u] = should_exit[u]
    BY <1>a, <1>9 DEF CountBlocked
  <2>2. \/ w \in Counted /\ w \in Counted' /\ blocked_' = blocked_
        \/ w \notin Counted /\ w \notin Counted' /\ blocked_' = blocked_
        \/ w \notin Counted /\ w \in Counted' /\ blocked_' = blocked_ + 1
        \/ w \in Counted /\ w \notin Counted' /\ blocked_' = blocked_ - 1
    BY <1>a, <1>9 DEF CountBlocked, Counted
  <2> QED BY <2>1, <2>2, CountOne
<1>10. CASE CheckDone(w)
  <2>1. \A u \in Worker \ {w} : pc'[u] = pc[u] /\ should_exit'[u] = should_exit[u]
    BY <1>a, <1>10 DEF CheckDone
  <2>2. \/ w \in Counted /\ w \in Counted' /\ blocked_' = blocked_
        \/ w \notin Counted /\ w \notin Counted' /\ blocked_' = blocked_
        \/ w \notin Counted /\ w \in Counted' /\ blocked_' = blocked_ + 1
        \/ w \in Counted /\ w \notin Counted' /\ blocked_' = blocked_ - 1
    BY <1>a, <1>10 DEF CheckDone, Counted
  <2> QED BY <2>1, <2>2, CountOne
<1>11. CASE Rescan(w)
  <2>1. \A u \in Worker \ {w} : pc'[u] = pc[u] /\ should_exit'[u] = should_exit[u]
    BY <1>a, <1>11 DEF Rescan
  <2>2. \/ w \in Counted /\ w \in Counted' /\ blocked_' = blocked_
        \/ w \notin Counted /\ w \notin Counted' /\ blocked_' = blocked_
        \/ w \notin Counted /\ w \in Counted' /\ blocked_' = blocked_ + 1
        \/ w \in Counted /\ w \notin Counted' /\ blocked_' = blocked_ - 1
    BY <1>a, <1>11 DEF Rescan, Counted
  <2> QED BY <2>1, <2>2, CountOne
<1>12. CASE Unblock(w)
  <2>1. \A u \in Worker \ {w} : pc'[u] = pc[u] /\ should_exit'[u] = should_exit[u]
    BY <1>a, <1>12 DEF Unblock
  <2>2. \/ w \in Counted /\ w \in Counted' /\ blocked_' = blocked_
        \/ w \notin Counted /\ w \notin Counted' /\ blocked_' = blocked_
        \/ w \notin Counted /\ w \in Counted' /\ blocked_' = blocked_ + 1
        \/ w \in Counted /\ w \notin Counted' /\ blocked_' = blocked_ - 1
    BY <1>a, <1>12 DEF Unblock, Counted
  <2> QED BY <2>1, <2>2, CountOne
<1>13. CASE WakeUp(w)
  <2>1. \A u \in Worker \ {w} : pc'[u] = pc[u] /\ should_exit'[u] = should_exit[u]
    BY <1>a, <1>13 DEF WakeUp
  <2>2. \/ w \in Counted /\ w \in Counted' /\ blocked_' = blocked_
        \/ w \notin Counted /\ w \notin Counted' /\ blocked_' = blocked_
        \/ w \notin Counted /\ w \in Counted' /\ blocked_' = blocked_ + 1
        \/ w \in Counted /\ w \notin Counted' /\ blocked_' = blocked_ - 1
    BY <1>a, <1>13 DEF WakeUp, Counted
  <2> QED BY <2>1, <2>2, CountOne
<1>14. CASE SetActive(w)
  <2>1. \A u \in Worker \ {w} : pc'[u] = pc[u] /\ should_exit'[u] = should_exit[u]
    BY <1>a, <1>14 DEF SetActive
  <2>2. \/ w \in Counted /\ w \in Counted' /\ blocked_' = blocked_
        \/ w \notin Counted /\ w \notin Counted' /\ blocked_' = blocked_
        \/ w \notin Counted /\ w \in Counted' /\ blocked_' = blocked_ + 1
        \/ w \in Counted /\ w \notin Counted' /\ blocked_' = blocked_ - 1
    BY <1>a, <1>14 DEF SetActive, Counted
  <2> QED BY <2>1, <2>2, CountOne
<1>15. CASE SetSpinning(w)
  <2>1. \A u \in Worker \ {w} : pc'[u] = pc[u] /\ should_exit'[u] = should_exit[u]
    BY <1>a, <1>15 DEF SetSpinning
  <2>2. \/ w \in Counted /\ w \in Counted' /\ blocked_' = blocked_
        \/ w \notin Counted /\ w \notin Counted' /\ blocked_' = blocked_
        \/ w \notin Counted /\ w \in Counted' /\ blocked_' = blocked_ + 1
        \/ w \in Counted /\ w \notin Counted' /\ blocked_' = blocked_ - 1
    BY <1>a, <1>15 DEF SetSpinning, Counted
  <2> QED BY <2>1, <2>2, CountOne
<1>16. CASE (\E t \in Task : ScheduleChild(w, t)) \/ ReadStatus(w) \/ Notify(w)
  <2>1. pc' = pc /\ should_exit' = should_exit /\ blocked_' = blocked_
    BY <1>16 DEF ScheduleChild, ReadStatus, Notify
  <2> QED BY <2>1 DEF Counted
<1>17. CASE UncountBlocked(w)
  <2>1. \A u \in Worker \ {w} : pc'[u] = pc[u] /\ should_exit'[u] = should_exit[u]
    BY <1>a, <1>17 DEF UncountBlocked
  <2>2. \/ w \in Counted /\ w \in Counted' /\ blocked_' = blocked_
        \/ w \notin Counted /\ w \notin Counted' /\ blocked_' = blocked_
        \/ w \notin Counted /\ w \in Counted' /\ blocked_' = blocked_ + 1
        \/ w \in Counted /\ w \notin Counted' /\ blocked_' = blocked_ - 1
    BY <1>a, <1>17 DEF UncountBlocked, Counted
  <2> QED BY <2>1, <2>2, CountOne
<1> QED
  BY <1>1, <1>2, <1>3, <1>4, <1>5, <1>6, <1>7, <1>8, <1>9,
     <1>10, <1>11, <1>12, <1>13, <1>14, <1>15, <1>16, <1>17
  DEF WorkerStep

\* So does every step.
LEMMA NextCount ==
  ASSUME LocalInv, blocked_ = Cardinality(Counted), [Next]_vars
  PROVE  blocked_' = Cardinality(Counted')
<1> USE DEF worker_vars, wake_vars, main_vars
<1>1. CASE \E w \in Worker : WorkerStep(w)
  BY <1>1, WorkerCount
<1>2. CASE Construct
  <2>1. Counted' = {} /\ blocked_' = 0
    BY <1>2 DEF Construct, Counted
  <2> QED BY <2>1, FS_EmptySet
<1>3. CASE \/ \E c \in Client : ClientStep(c)
           \/ Destroy \/ Flush \/ CancelDone \/ Cancel \/ UNCHANGED vars
  <2>1. pc' = pc /\ should_exit' = should_exit /\ blocked_' = blocked_
    BY <1>3 DEF ClientStep, Schedule, ReadStatus, Notify, Destroy, Flush, CancelDone,
                Cancel, vars
  <2> QED BY <2>1 DEF Counted
<1> QED BY <1>1, <1>2, <1>3 DEF Next, MainStep

-----------------------------------------------------------------------------
(***************************************************************************)
(* Queues with tasks in them are attended.                                 *)
(***************************************************************************)

\* Waking somebody takes no attention away from a queue.
LEMMA WakingKeeps ==
  ASSUME LocalInv, NEW t \in Thread, ReadStatus(t) \/ Notify(t), NEW v \in Worker,
         Attended(v)
  PROVE  Attended(v)'
<1>1. /\ queue' = queue /\ pc' = pc /\ should_exit' = should_exit /\ scan' = scan
      /\ \A u \in Worker : status[u] = "Waking" => status'[u] = "Waking"
  BY DEF ReadStatus, Notify, LocalInv, Types, worker_vars
<1> QED BY <1>1 DEF Attended, Alert

\* A worker that pops or steals, or finds nothing, goes on looking until it
\* has scanned all queues, and what it scanned was empty then.
LEMMA WorkerKeeps ==
  ASSUME LocalInv, ~cancelled_, NEW w \in Worker, WorkerStep(w), NEW v \in Worker,
         Attended(v)
  PROVE  Attended(v)'
<1> USE DEF At, Goto, SetStatus, worker_vars, wake_vars, main_vars
<1>a. /\ Types /\ QueueOK /\ w \in Thread
      /\ should_exit[w] => pc[w] \in {"unblock", "loop", "exit"}
      /\ task[w] # NoTask => ~should_exit[w]
  BY ThreadFacts DEF LocalInv, Types, WorkerInv
<1>b. ASSUME queue'[v] # <<>> => queue[v] # <<>> \/ Alert(w, v)',
             queue[v] # <<>> /\ Alert(w, v) => Alert(w, v)',
             \A u \in Worker \ {w} :
               /\ pc'[u] = pc[u] /\ should_exit'[u] = should_exit[u]
               /\ scan'[u] = scan[u] /\ status'[u] = status[u]
      PROVE  Attended(v)'
  <2>1. \A u \in Worker \ {w} : Alert(u, v) => Alert(u, v)'
    BY <1>b DEF Alert
  <2> QED BY <1>b, <2>1 DEF Attended
<1>1. CASE Loop(w)
  <2>1. queue'[v] # <<>> => queue[v] # <<>>
    BY <1>1 DEF Loop
  <2>2. queue[v] # <<>> /\ Alert(w, v) => Alert(w, v)'
    BY <1>a, <1>1 DEF Loop, Alert, Types
  <2>3. \A u \in Worker \ {w} :
          /\ pc'[u] = pc[u] /\ should_exit'[u] = should_exit[u]
          /\ scan'[u] = scan[u] /\ status'[u] = status[u]
    BY <1>a, <1>1 DEF Loop, Types
  <2> QED BY <1>b, <2>1, <2>2, <2>3
<1>2. CASE Pop(w)
  <2>0. UNCHANGED queue \/ PopFront(w, w)
    BY <1>a, <1>2 DEF Pop, Types
  <2>1. queue'[v] # <<>> => queue[v] # <<>>
    BY <1>a, <2>0, PopFacts DEF Types
  <2>2. queue[v] # <<>> /\ Alert(w, v) => Alert(w, v)'
    BY <1>a, <1>2 DEF Pop, Alert, Types
  <2>3. \A u \in Worker \ {w} :
          /\ pc'[u] = pc[u] /\ should_exit'[u] = should_exit[u]
          /\ scan'[u] = scan[u] /\ status'[u] = status[u]
    BY <1>a, <1>2 DEF Pop, Types
  <2> QED BY <1>b, <2>1, <2>2, <2>3
<1>3. CASE Spin(w)
  <2>1. queue'[v] # <<>> => queue[v] # <<>>
    BY <1>3 DEF Spin
  <2>2. queue[v] # <<>> /\ Alert(w, v) => Alert(w, v)'
    BY <1>a, <1>3 DEF Spin, Alert, Types
  <2>3. \A u \in Worker \ {w} :
          /\ pc'[u] = pc[u] /\ should_exit'[u] = should_exit[u]
          /\ scan'[u] = scan[u] /\ status'[u] = status[u]
    BY <1>a, <1>3 DEF Spin, Types
  <2> QED BY <1>b, <2>1, <2>2, <2>3
<1>4. CASE SpinTry(w)
  <2>0. UNCHANGED queue \/ PopFront(w, w) \/ (\E x \in Worker : PopBack(w, x))
    BY <1>a, <1>4 DEF SpinTry, Types
  <2>1. queue'[v] # <<>> => queue[v] # <<>>
    BY <1>a, <2>0, PopFacts DEF Types
  <2>2. queue[v] # <<>> /\ Alert(w, v) => Alert(w, v)'
    BY <1>a, <1>4 DEF SpinTry, Alert, Types
  <2>3. \A u \in Worker \ {w} :
          /\ pc'[u] = pc[u] /\ should_exit'[u] = should_exit[u]
          /\ scan'[u] = scan[u] /\ status'[u] = status[u]
    BY <1>a, <1>4 DEF SpinTry, Types
  <2> QED BY <1>b, <2>1, <2>2, <2>3
<1>5. CASE Steal(w)
  <2>0. UNCHANGED queue \/ \E x \in Worker : PopBack(w, x)
    BY <1>a, <1>5 DEF Steal, Types
  <2>1. queue'[v] # <<>> => queue[v] # <<>>
    BY <1>a, <2>0, PopFacts DEF Types
  <2>2. queue[v] # <<>> /\ Alert(w, v) => Alert(w, v)'
    BY <1>a, <1>5 DEF Steal, Alert, Types
  <2>3. \A u \in Worker \ {w} :
          /\ pc'[u] = pc[u] /\ should_exit'[u] = should_exit[u]
          /\ scan'[u] = scan[u] /\ status'[u] = status[u]
    BY <1>a, <1>5 DEF Steal, Types
  <2> QED BY <1>b, <2>1, <2>2, <2>3
<1>6. CASE SetBlocking(w)
  <2>1. queue'[v] # <<>> => queue[v] # <<>>
    BY <1>6 DEF SetBlocking
  <2>2. queue[v] # <<>> /\ Alert(w, v) => Alert(w, v)'
    BY <1>a, <1>6 DEF SetBlocking, Alert, Types
  <2>3. \A u \in Worker \ {w} :
          /\ pc'[u] = pc[u] /\ should_exit'[u] = should_exit[u]
          /\ scan'[u] = scan[u] /\ status'[u] = status[u]
    BY <1>a, <1>6 DEF SetBlocking, Types
  <2> QED BY <1>b, <2>1, <2>2, <2>3
<1>7. CASE Scan(w)
  <2>1. queue'[v] # <<>> => queue[v] # <<>>
    BY <1>7 DEF Scan
  <2>2. queue[v] # <<>> /\ Alert(w, v) => Alert(w, v)'
    BY <1>a, <1>7 DEF Scan, Alert, Types
  <2>3. \A u \in Worker \ {w} :
          /\ pc'[u] = pc[u] /\ should_exit'[u] = should_exit[u]
          /\ scan'[u] = scan[u] /\ status'[u] = status[u]
    BY <1>a, <1>7 DEF Scan, Types
  <2> QED BY <1>b, <2>1, <2>2, <2>3
<1>8. CASE ScanPop(w)
  <2>0. UNCHANGED queue \/ \E x \in Worker : PopBack(w, x)
    BY <1>a, <1>8 DEF ScanPop, Types
  <2>1. queue'[v] # <<>> => queue[v] # <<>>
    BY <1>a, <2>0, PopFacts DEF Types
  <2>2. queue[v] # <<>> /\ Alert(w, v) => Alert(w, v)'
    BY <1>a, <1>8 DEF ScanPop, Alert, Types
  <2>3. \A u \in Worker \ {w} :
          /\ pc'[u] = pc[u] /\ should_exit'[u] = should_exit[u]
          /\ scan'[u] = scan[u] /\ status'[u] = status[u]
    BY <1>a, <1>8 DEF ScanPop, Types
  <2> QED BY <1>b, <2>1, <2>2, <2>3
<1>9. CASE CountBlocked(w)
  <2>1. queue'[v] # <<>> => queue[v] # <<>>
    BY <1>9 DEF CountBlocked
  <2>2. queue[v] # <<>> /\ Alert(w, v) => Alert(w, v)'
    BY <1>a, <1>9 DEF CountBlocked, Alert, Types
  <2>3. \A u \in Worker \ {w} :
          /\ pc'[u] = pc[u] /\ should_exit'[u] = should_exit[u]
          /\ scan'[u] = scan[u] /\ status'[u] = status[u]
    BY <1>a, <1>9 DEF CountBlocked, Types
  <2> QED BY <1>b, <2>1, <2>2, <2>3
<1>10. CASE CheckDone(w)
  <2>1. queue'[v] # <<>> => queue[v] # <<>>
    BY <1>10 DEF CheckDone
  <2>2. queue[v] # <<>> /\ Alert(w, v) => Alert(w, v)'
    BY <1>a, <1>10 DEF CheckDone, Alert, Types
  <2>3. \A u \in Worker \ {w} :
          /\ pc'[u] = pc[u] /\ should_exit'[u] = should_exit[u]
          /\ scan'[u] = scan[u] /\ status'[u] = status[u]
    BY <1>a, <1>10 DEF CheckDone, Types
  <2> QED BY <1>b, <2>1, <2>2, <2>3
<1>11. CASE Rescan(w)
  <2>1. queue'[v] # <<>> => queue[v] # <<>>
    BY <1>11 DEF Rescan
  <2>2. queue[v] # <<>> /\ Alert(w, v) => Alert(w, v)'
    BY <1>a, <1>11 DEF Rescan, Alert, Types
  <2>3. \A u \in Worker \ {w} :
          /\ pc'[u] = pc[u] /\ should_exit'[u] = should_exit[u]
          /\ scan'[u] = scan[u] /\ status'[u] = status[u]
    BY <1>a, <1>11 DEF Rescan, Types
  <2> QED BY <1>b, <2>1, <2>2, <2>3
<1>12. CASE Unblock(w)
  <2>1. queue'[v] # <<>> => queue[v] # <<>>
    BY <1>12 DEF Unblock
  <2>2. queue[v] # <<>> /\ Alert(w, v) => Alert(w, v)'
    BY <1>a, <1>12 DEF Unblock, Alert, Types
  <2>3. \A u \in Worker \ {w} :
          /\ pc'[u] = pc[u] /\ should_exit'[u] = should_exit[u]
          /\ scan'[u] = scan[u] /\ status'[u] = status[u]
    BY <1>a, <1>12 DEF Unblock, Types
  <2> QED BY <1>b, <2>1, <2>2, <2>3
<1>13. CASE WakeUp(w)
  <2>1. queue'[v] # <<>> => queue[v] # <<>>
    BY <1>13 DEF WakeUp
  <2>2. queue[v] # <<>> /\ Alert(w, v) => Alert(w, v)'
    BY <1>a, <1>13 DEF WakeUp, Alert, Types
  <2>3. \A u \in Worker \ {w} :
          /\ pc'[u] = pc[u] /\ should_exit'[u] = should_exit[u]
          /\ scan'[u] = scan[u] /\ status'[u] = status[u]
    BY <1>a, <1>13 DEF WakeUp, Types
  <2> QED BY <1>b, <2>1, <2>2, <2>3
<1>14. CASE SetActive(w)
  <2>1. queue'[v] # <<>> => queue[v] # <<>>
    BY <1>14 DEF SetActive
  <2>2. queue[v] # <<>> /\ Alert(w, v) => Alert(w, v)'
    BY <1>a, <1>14 DEF SetActive, Alert, Types
  <2>3. \A u \in Worker \ {w} :
          /\ pc'[u] = pc[u] /\ should_exit'[u] = should_exit[u]
          /\ scan'[u] = scan[u] /\ status'[u] = status[u]
    BY <1>a, <1>14 DEF SetActive, Types
  <2> QED BY <1>b, <2>1, <2>2, <2>3
<1>15. CASE SetSpinning(w)
  <2>1. queue'[v] # <<>> => queue[v] # <<>>
    BY <1>15 DEF SetSpinning
  <2>2. queue[v] # <<>> /\ Alert(w, v) => Alert(w, v)'
    BY <1>a, <1>15 DEF SetSpinning, Alert, Types
  <2>3. \A u \in Worker \ {w} :
          /\ pc'[u] = pc[u] /\ should_exit'[u] = should_exit[u]
          /\ scan'[u] = scan[u] /\ status'[u] = status[u]
    BY <1>a, <1>15 DEF SetSpinning, Types
  <2> QED BY <1>b, <2>1, <2>2, <2>3
<1>16. CASE \E t \in Task : ScheduleChild(w, t)
  <2>1. Alert(w, v)' /\ Alert(w, v)
    BY <1>16 DEF ScheduleChild, Alert
  <2> QED BY <2>1 DEF Attended
<1>17. CASE ReadStatus(w) \/ Notify(w)
  BY <1>a, <1>17, WakingKeeps
<1>18. CASE UncountBlocked(w)
  <2>1. queue'[v] # <<>> => queue[v] # <<>>
    BY <1>18 DEF UncountBlocked
  <2>2. queue[v] # <<>> /\ Alert(w, v) => Alert(w, v)'
    BY <1>a, <1>18 DEF UncountBlocked, Alert, Types
  <2>3. \A u \in Worker \ {w} :
          /\ pc'[u] = pc[u] /\ should_exit'[u] = should_exit[u]
          /\ scan'[u] = scan[u] /\ status'[u] = status[u]
    BY <1>a, <1>18 DEF UncountBlocked, Types
  <2> QED BY <1>b, <2>1, <2>2, <2>3
<1> QED
  BY <1>1, <1>2, <1>3, <1>4, <1>5, <1>6, <1>7, <1>8, <1>9,
     <1>10, <1>11, <1>12, <1>13, <1>14, <1>15, <1>16, <1>17, <1>18
  DEF WorkerStep

\* The worker's own steps: those of Rescan extend what is known to be attended.
LEMMA WorkerAttended ==
  ASSUME LocalInv, AttendedInv, NEW w \in Worker, WorkerStep(w)
  PROVE  AttendedInv'
<1> USE DEF At, Goto, SetStatus, worker_vars, wake_vars, main_vars
<1>a. Types /\ Worker \cap Client = {} /\ Client \subseteq Thread
  BY ThreadFacts DEF LocalInv
<1>b. cancelled_' = cancelled_ /\ \A c \in Client : wake'[c] = wake[c]
  BY <1>a DEF WorkerStep, Loop, Pop, Spin, SpinTry, Steal, SetBlocking, Scan, ScanPop,
              CountBlocked, CheckDone, Rescan, UncountBlocked, Unblock, WakeUp, SetActive, SetSpinning,
              ScheduleChild, ReadStatus, Notify, Types
<1> SUFFICES ASSUME ~cancelled_
             PROVE  /\ (\A c \in Client : wake'[c] = <<>>) => \A v \in Worker : Attended(v)'
                    /\ \A x \in Worker : should_exit'[x] => \A v \in Worker : Attended(v)'
                    /\ \A x \in Worker : pc'[x] = "rescan" =>
                         \A v \in Worker \ scan'[x] : Attended(v)'
  BY <1>b DEF AttendedInv
<1>c. \A v \in Worker : Attended(v) => Attended(v)'
  BY WorkerKeeps
<1>1. (\A c \in Client : wake'[c] = <<>>) => \A v \in Worker : Attended(v)'
  BY <1>b, <1>c DEF AttendedInv
<1>2. CASE Rescan(w)
  <2>1. queue' = queue /\ pc[w] = "rescan"
    BY <1>2 DEF Rescan
  <2>2. PICK v \in scan[w] :
          \/ /\ queue[v] # <<>>
             /\ pc' = [pc EXCEPT ![w] = "uncount"] /\ should_exit' = should_exit
             /\ scan' = [scan EXCEPT ![w] = {}]
          \/ /\ queue[v] = <<>> /\ pc' = pc /\ should_exit' = should_exit
             /\ scan' = [scan EXCEPT ![w] = @ \ {v}]
          \/ /\ queue[v] = <<>> /\ scan[w] = {v}
             /\ scan' = [scan EXCEPT ![w] = {}]
             /\ pc' = [pc EXCEPT ![w] = "unblock"]
             /\ should_exit' = [should_exit EXCEPT ![w] = TRUE]
    BY <1>2 DEF Rescan
  <2>3. queue[v] = <<>> => Attended(v)'
    BY <2>1 DEF Attended
  <2>4. \A x \in Worker \ {w} :
          pc'[x] = pc[x] /\ scan'[x] = scan[x] /\ should_exit'[x] = should_exit[x]
    BY <1>a, <2>2 DEF Types
  <2>5. \A y \in Worker \ scan[w] : Attended(y)'
    BY <1>c, <2>1 DEF AttendedInv
  <2>6. should_exit'[w] => should_exit[w] \/ (queue[v] = <<>> /\ scan[w] = {v})
    BY <1>a, <2>2 DEF Types
  <2>7. \A x \in Worker : should_exit'[x] => \A y \in Worker : Attended(y)'
    BY <1>c, <2>3, <2>4, <2>5, <2>6 DEF AttendedInv
  <2>8. pc'[w] = "rescan" => queue[v] = <<>> /\ scan'[w] = scan[w] \ {v}
    BY <1>a, <2>1, <2>2 DEF Types
  <2>9. \A x \in Worker : pc'[x] = "rescan" => \A y \in Worker \ scan'[x] : Attended(y)'
    BY <1>c, <2>3, <2>4, <2>5, <2>8 DEF AttendedInv
  <2> QED BY <1>1, <2>7, <2>9
<1>3. CASE CheckDone(w)
  <2>1. /\ should_exit' = should_exit
        /\ \A x \in Worker \ {w} : pc'[x] = pc[x] /\ scan'[x] = scan[x]
        /\ pc'[w] = "rescan" => scan'[w] = Worker
    BY <1>a, <1>3 DEF CheckDone, Types
  <2> QED BY <1>1, <1>c, <2>1 DEF AttendedInv
<1>4. CASE ~Rescan(w) /\ ~CheckDone(w)
  <2>1. /\ should_exit' = should_exit
        /\ \A x \in Worker \ {w} : pc'[x] = pc[x] /\ scan'[x] = scan[x]
    BY <1>4, <1>a DEF WorkerStep, Loop, Pop, Spin, SpinTry, Steal, SetBlocking, Scan, ScanPop,
              CountBlocked, UncountBlocked, Unblock, WakeUp, SetActive, SetSpinning,
              ScheduleChild, ReadStatus, Notify, Types
  <2>2. pc'[w] = "rescan" => pc[w] = "rescan" /\ scan'[w] = scan[w]
    BY <1>4, <1>a DEF WorkerStep, Loop, Pop, Spin, SpinTry, Steal, SetBlocking, Scan, ScanPop,
              CountBlocked, UncountBlocked, Unblock, WakeUp, SetActive, SetSpinning,
              ScheduleChild, ReadStatus, Notify, Types
  <2> QED BY <1>1, <1>c, <2>1, <2>2 DEF AttendedInv
<1> QED BY <1>2, <1>3, <1>4

\* A client that has pushed a task wakes a worker; if it finds the worker up,
\* the worker attends to all queues, or has decided to exit.
LEMMA ClientAttended ==
  ASSUME LocalInv, AttendedInv, NEW c \in Client, ClientStep(c)
  PROVE  AttendedInv'
<1> USE DEF worker_vars, wake_vars, main_vars
<1>a. /\ Types /\ PhaseInv /\ c \in Thread /\ Client \subseteq Thread
      /\ \A w \in Worker : WorkerInv(w)
  BY ThreadFacts DEF LocalInv
<1>1. ASSUME NEW t \in todo, NEW q \in Worker, Schedule(c, t, q)
      PROVE  AttendedInv'
  <2>1. ~done_ /\ \A w \in Worker : ~should_exit[w] /\ pc[w] # "rescan"
    BY <1>a, <1>1 DEF Schedule, PhaseInv, WorkerInv
  <2>2. UNCHANGED <<status, worker_vars, cancelled_>>
    BY <1>1 DEF Schedule
  <2>3. CASE wake' = [wake EXCEPT ![c] = <<q>>]
    <3>1. wake'[c] # <<>>
      BY <1>a, <2>3 DEF Types
    <3> QED BY <2>1, <2>2, <3>1 DEF AttendedInv
  <2>4. CASE queue' = queue /\ wake' = wake
    BY <2>2, <2>4 DEF AttendedInv, Attended, Alert
  <2> QED BY <1>1, <2>3, <2>4 DEF Schedule
<1>2. CASE ReadStatus(c) \/ Notify(c)
  <2>1. /\ UNCHANGED <<queue, pc, should_exit, scan, cancelled_>>
    BY <1>2 DEF ReadStatus, Notify
  <2>2. \A v \in Worker : Attended(v) => Attended(v)'
    BY <1>2, <1>a, WakingKeeps
  <2> SUFFICES ASSUME ~cancelled_, \A b \in Client : wake'[b] = <<>>
               PROVE  \A v \in Worker : Attended(v)'
    BY <2>1, <2>2 DEF AttendedInv
  <2>3. CASE \A b \in Client : wake[b] = <<>>
    BY <2>2, <2>3 DEF AttendedInv
  <2>4. CASE wake[c] # <<>>
    <3>1. PICK q \in Worker : q = Head(wake[c])
      BY <1>a, <2>4, TailFacts DEF Types
    <3>2. ~Locked(q) /\ status'[q] # "Blocked"
      <4>1. CASE ReadStatus(c)
        <5>1. status[q] \notin {"Blocking", "Blocked"} /\ status' = status
          BY <2>4, <3>1, <4>1, <1>a DEF ReadStatus, Types
        <5> QED BY <3>1, <5>1, <1>a DEF WorkerInv
      <4>2. CASE Notify(c)
        BY <4>2, <3>1, <1>a DEF Notify, Types
      <4> QED BY <1>2, <4>1, <4>2
    <3>3. CASE should_exit[q]
      BY <2>2, <3>1, <3>3 DEF AttendedInv
    <3>4. CASE ~should_exit[q]
      <4>1. pc[q] # "exit"
        BY <1>a, <3>1, <3>4 DEF WorkerInv
      <4>2. pc[q] = "sleep" => status'[q] = "Waking"
        <5>1. pc[q] = "sleep" => status[q] \in {"Blocked", "Waking"}
          BY <1>a, <3>1 DEF WorkerInv
        <5>2. status'[q] \in {status[q], "Waking"}
          BY <1>2, <1>a, <3>1 DEF ReadStatus, Notify, Types
        <5> QED BY <3>2, <5>1, <5>2
      <4>3. pc[q] \in {"loop", "pop", "spin", "try", "steal", "block", "scan",
                       "scan_pop", "count", "check", "rescan", "uncount", "unblock",
                       "sleep", "active", "run", "exit"}
        BY <1>a, <3>1 DEF Types
      <4>4. \A v \in Worker : Alert(q, v)'
        BY <2>1, <3>2, <3>4, <4>1, <4>2, <4>3 DEF Alert, Locked
      <4> QED BY <3>1, <4>4 DEF Attended
    <3> QED BY <3>3, <3>4
  <2>5. \A b \in Client \ {c} : wake'[b] = wake[b]
    BY <1>2, <1>a DEF ReadStatus, Notify, Types
  <2> QED BY <2>3, <2>4, <2>5
<1> QED BY <1>1, <1>2 DEF ClientStep

\* Any step.
LEMMA NextAttended ==
  ASSUME LocalInv, AttendedInv, [Next]_vars
  PROVE  AttendedInv'
<1> USE DEF worker_vars, wake_vars, main_vars
<1>a. Types /\ PhaseInv /\ Main \in Client /\ Main \in Thread
  BY ThreadFacts DEF LocalInv
<1>1. CASE \E w \in Worker : WorkerStep(w)
  BY <1>1, WorkerAttended
<1>2. CASE \E c \in Client : ClientStep(c)
  BY <1>2, ClientAttended
<1>3. CASE Destroy
  <2>1. ~cancelled_ => wake'[Main] # <<>>
    BY <1>a, <1>3, EveryoneFacts DEF Destroy, Types
  <2>2. UNCHANGED <<queue, status, worker_vars, cancelled_>>
    BY <1>3 DEF Destroy
  <2>3. \A v \in Worker : Attended(v) => Attended(v)'
    BY <2>2 DEF Attended, Alert
  <2> QED BY <1>a, <2>1, <2>2, <2>3 DEF AttendedInv
<1>4. CASE Flush \/ CancelDone \/ Cancel
  <2>1. cancelled_'
    BY <1>a, <1>4 DEF Flush, CancelDone, Cancel, PhaseInv
  <2> QED BY <2>1 DEF AttendedInv
<1>5. CASE Construct
  <2>1. \A v \in Worker : queue'[v] = <<>>
    BY <1>5 DEF Construct
  <2> QED BY <2>1 DEF AttendedInv, Attended
<1>6. CASE UNCHANGED vars
  BY <1>6 DEF vars, AttendedInv, Attended, Alert
<1> QED BY <1>1, <1>2, <1>3, <1>4, <1>5, <1>6 DEF Next, MainStep

-----------------------------------------------------------------------------
(***************************************************************************)
(* No task is lost.                                                        *)
(***************************************************************************)

\* What waits in the queues still does, or the worker that popped it has it.
LEMMA PopKeeps ==
  ASSUME QueueOK, task \in [Worker -> Task \cup {NoTask}],
         NEW w \in Worker, NEW v \in Worker, PopFront(w, v) \/ PopBack(w, v),
         NEW t, Queued(t)
  PROVE  Queued(t)' \/ task'[w] = t
<1>1. PICK x \in Worker : \E i \in 1..Len(queue[x]) : queue[x][i] = t
  BY DEF Queued
<1>2. PICK i \in 1..Len(queue[x]) : queue[x][i] = t
  BY <1>1
<1>3. CASE x # v
  <2>1. queue'[x] = queue[x]
    BY <1>3 DEF PopFront, PopBack, QueueOK
  <2> QED BY <1>2, <2>1 DEF Queued
<1>4. CASE x = v
  <2>1. queue[v] \in Seq(Task) /\ queue[v] # <<>> /\ Len(queue[v]) \in Nat
    BY LenProperties DEF QueueOK, PopFront, PopBack
  <2>2. CASE PopFront(w, v)
    <3>1. queue'[v] = SubSeq(queue[v], 1, Len(queue[v]) - 1)
          /\ task'[w] = queue[v][Len(queue[v])]
      BY <2>2 DEF PopFront, QueueOK
    <3>2. /\ Len(queue'[v]) = Len(queue[v]) - 1
          /\ \A j \in 1..(Len(queue[v]) - 1) : queue'[v][j] = queue[v][j]
      BY <2>1, <3>1, FrontFacts
    <3>3. CASE i = Len(queue[v])
      BY <1>2, <1>4, <3>1, <3>3
    <3>4. CASE i # Len(queue[v])
      <4>1. i \in 1..Len(queue'[v]) /\ queue'[v][i] = t
        BY <1>2, <1>4, <2>1, <3>2, <3>4
      <4> QED BY <4>1 DEF Queued
    <3> QED BY <3>3, <3>4
  <2>3. CASE PopBack(w, v)
    <3>1. queue'[v] = Tail(queue[v]) /\ task'[w] = Head(queue[v])
      BY <2>3 DEF PopBack, QueueOK
    <3>2. /\ Len(queue'[v]) = Len(queue[v]) - 1 /\ task'[w] = queue[v][1]
          /\ \A j \in 1..(Len(queue[v]) - 1) : queue'[v][j] = queue[v][j + 1]
      BY <2>1, <3>1, TailFacts
    <3>3. CASE i = 1
      BY <1>2, <1>4, <3>2, <3>3
    <3>4. CASE i # 1
      <4>1. i - 1 \in 1..Len(queue'[v]) /\ queue'[v][i - 1] = t
        BY <1>2, <1>4, <2>1, <3>2, <3>4
      <4> QED BY <4>1 DEF Queued
    <3> QED BY <3>3, <3>4
  <2> QED BY <2>2, <2>3
<1> QED BY <1>3, <1>4

\* A task added to a queue, at either end, waits there with all the others.
LEMMA PushKeeps ==
  ASSUME QueueOK, NEW q \in Worker, NEW t \in Task,
         \/ queue' = [queue EXCEPT ![q] = <<t>> \o queue[q]]
         \/ queue' = [queue EXCEPT ![q] = Append(queue[q], t)]
  PROVE  Queued(t)' /\ \A x : Queued(x) => Queued(x)'
<1>1. queue[q] \in Seq(Task) /\ Len(queue[q]) \in Nat
  BY LenProperties DEF QueueOK
<1>2. \A u \in Worker \ {q} : queue'[u] = queue[u]
  BY DEF QueueOK
<1>3. /\ \E i \in 1..Len(queue'[q]) : queue'[q][i] = t
      /\ \A i \in 1..Len(queue[q]) : \E j \in 1..Len(queue'[q]) : queue'[q][j] = queue[q][i]
  <2>1. CASE queue' = [queue EXCEPT ![q] = <<t>> \o queue[q]]
    <3>1. queue'[q] = <<t>> \o queue[q]
      BY <2>1 DEF QueueOK
    <3>2. /\ Len(queue'[q]) = Len(queue[q]) + 1 /\ queue'[q][1] = t
          /\ \A i \in 1..Len(queue[q]) : queue'[q][i + 1] = queue[q][i]
      BY <1>1, <3>1, ConsFacts
    <3>3. 1 \in 1..Len(queue'[q]) /\ \A i \in 1..Len(queue[q]) : i + 1 \in 1..Len(queue'[q])
      BY <1>1, <3>2
    <3> QED BY <3>2, <3>3
  <2>2. CASE queue' = [queue EXCEPT ![q] = Append(queue[q], t)]
    <3>1. queue'[q] = Append(queue[q], t)
      BY <2>2 DEF QueueOK
    <3>2. /\ Len(queue'[q]) = Len(queue[q]) + 1 /\ queue'[q][Len(queue[q]) + 1] = t
          /\ \A i \in 1..Len(queue[q]) : queue'[q][i] = queue[q][i]
      BY <1>1, <3>1, AppendProperties
    <3>3. /\ Len(queue[q]) + 1 \in 1..Len(queue'[q])
          /\ \A i \in 1..Len(queue[q]) : i \in 1..Len(queue'[q])
      BY <1>1, <3>2
    <3> QED BY <3>2, <3>3
  <2> QED BY <2>1, <2>2
<1>4. Queued(t)'
  BY <1>3 DEF Queued
<1>5. ASSUME NEW x, Queued(x) PROVE Queued(x)'
  <2>1. PICK u \in Worker : \E i \in 1..Len(queue[u]) : queue[u][i] = x
    BY <1>5 DEF Queued
  <2>2. \E i \in 1..Len(queue'[u]) : queue'[u][i] = x
    BY <1>2, <1>3, <2>1
  <2> QED BY <2>2 DEF Queued
<1> QED BY <1>4, <1>5

\* How a step keeps a task accounted for: a task that waits goes on waiting or
\* starts, and when it starts its children are accounted for.
LEMMA KeepsAccount ==
  ASSUME NEW t \in Task, Accounted(t),
         \A x \in Task : Waiting(x) =>
           Waiting(x)' \/ (Started(x)' /\ \A y \in Spawns[x] : Accounted(y)'),
         \A x \in Task : Started(x) => Started(x)',
         \A w \in Worker : \A x \in kids[w] : Accounted(x)'
  PROVE  Accounted(t)'
<1>1. CASE Waiting(t) \/ Started(t)
  BY <1>1 DEF Accounted
<1>2. CASE \E w \in Worker : t \in kids[w]
  BY <1>2
<1>3. CASE \E p \in Task : t \in Spawns[p] /\ Waiting(p)
  BY <1>3 DEF Accounted
<1> QED BY <1>1, <1>2, <1>3 DEF Accounted

\* Steps that move no task and start none.
LEMMA IdleTasks ==
  ASSUME UNCHANGED <<queue, task, kids, todo, ran>>,
         \A u \in Worker : pc'[u] = "run" <=> pc[u] = "run",
         NEW t \in Task, Accounted(t)
  PROVE  Accounted(t)'
<1>1. \A x \in Task : (Waiting(x) => Waiting(x)') /\ (Started(x) => Started(x)')
  BY DEF Waiting, Started, Queued
<1>2. \A w \in Worker : \A x \in kids[w] : Accounted(x)'
  BY DEF Accounted
<1> QED BY <1>1, <1>2, KeepsAccount

\* Steps that pop a task.
LEMMA PopTasks ==
  ASSUME LocalInv, NEW w \in Worker, pc[w] \notin {"run", "active", "unblock"},
         NEW l, l # "run", pc' = [pc EXCEPT ![w] = l],
         \E v \in Worker : PopFront(w, v) \/ PopBack(w, v),
         UNCHANGED <<kids, todo, ran>>,
         NEW t \in Task, Accounted(t)
  PROVE  Accounted(t)'
<1>1. PICK v \in Worker : PopFront(w, v) \/ PopBack(w, v)
  OBVIOUS
<1>2. /\ task[w] = NoTask /\ QueueOK
      /\ task \in [Worker -> Task \cup {NoTask}]
      /\ pc \in [Worker -> {"loop", "pop", "spin", "try", "steal", "block", "scan",
                            "scan_pop", "count", "check", "rescan", "uncount", "unblock",
                            "sleep", "active", "run", "exit"}]
  BY DEF LocalInv, Types, WorkerInv
<1>3. task' = [task EXCEPT ![w] = task'[w]]
  BY <1>1, <1>2, PopFacts
<1>4. /\ pc'[w] # "run"
      /\ \A u \in Worker \ {w} : task'[u] = task[u] /\ pc'[u] = pc[u]
  BY <1>2, <1>3
<1>5. \A x \in Task : Started(x) => Started(x)'
  BY <1>2, <1>4, NoTaskAssumption DEF Started
<1>6. \A x \in Task : Waiting(x) => Waiting(x)'
  <2> SUFFICES ASSUME NEW x \in Task, Waiting(x) PROVE Waiting(x)'
    OBVIOUS
  <2>1. CASE Queued(x)
    BY <1>1, <1>2, <1>4, <2>1, PopKeeps DEF Waiting
  <2>2. CASE x \in todo \/ \E u \in Worker : task[u] = x /\ pc[u] # "run"
    BY <1>2, <1>4, <2>2, NoTaskAssumption DEF Waiting
  <2> QED BY <2>1, <2>2 DEF Waiting
<1>7. \A u \in Worker : \A x \in kids[u] : Accounted(x)'
  BY DEF Accounted
<1> QED BY <1>5, <1>6, <1>7, KeepsAccount

\* A step of a worker in its loop.
LEMMA WorkerTasks ==
  ASSUME LocalInv, NEW w \in Worker, WorkerStep(w), NEW t \in Task, Accounted(t)
  PROVE  Accounted(t)'
<1> USE DEF At, Goto, SetStatus, worker_vars, wake_vars, main_vars
<1>a. /\ pc \in [Worker -> {"loop", "pop", "spin", "try", "steal", "block", "scan",
                            "scan_pop", "count", "check", "rescan", "uncount", "unblock",
                            "sleep", "active", "run", "exit"}]
      /\ task \in [Worker -> Task \cup {NoTask}] /\ kids \in [Worker -> SUBSET Task]
      /\ QueueOK /\ WorkerInv(w) /\ \A u \in Worker : kids[u] \subseteq Children
  BY DEF LocalInv, Types, WorkerInv
<1>1. CASE Loop(w)
  <2>1. UNCHANGED <<queue, task, kids, todo, ran>>
    BY <1>1 DEF Loop
  <2>2. \A u \in Worker : pc'[u] = "run" <=> pc[u] = "run"
    BY <1>a, <1>1 DEF Loop
  <2> QED BY <2>1, <2>2, IdleTasks
<1>2. CASE Spin(w)
  <2>1. UNCHANGED <<queue, task, kids, todo, ran>>
    BY <1>2 DEF Spin
  <2>2. \A u \in Worker : pc'[u] = "run" <=> pc[u] = "run"
    BY <1>a, <1>2 DEF Spin
  <2> QED BY <2>1, <2>2, IdleTasks
<1>3. CASE SetBlocking(w)
  <2>1. UNCHANGED <<queue, task, kids, todo, ran>>
    BY <1>3 DEF SetBlocking
  <2>2. \A u \in Worker : pc'[u] = "run" <=> pc[u] = "run"
    BY <1>a, <1>3 DEF SetBlocking
  <2> QED BY <2>1, <2>2, IdleTasks
<1>4. CASE Scan(w)
  <2>1. UNCHANGED <<queue, task, kids, todo, ran>>
    BY <1>4 DEF Scan
  <2>2. \A u \in Worker : pc'[u] = "run" <=> pc[u] = "run"
    BY <1>a, <1>4 DEF Scan
  <2> QED BY <2>1, <2>2, IdleTasks
<1>5. CASE CountBlocked(w)
  <2>1. UNCHANGED <<queue, task, kids, todo, ran>>
    BY <1>5 DEF CountBlocked
  <2>2. \A u \in Worker : pc'[u] = "run" <=> pc[u] = "run"
    BY <1>a, <1>5 DEF CountBlocked
  <2> QED BY <2>1, <2>2, IdleTasks
<1>6. CASE CheckDone(w)
  <2>1. UNCHANGED <<queue, task, kids, todo, ran>>
    BY <1>6 DEF CheckDone
  <2>2. \A u \in Worker : pc'[u] = "run" <=> pc[u] = "run"
    BY <1>a, <1>6 DEF CheckDone
  <2> QED BY <2>1, <2>2, IdleTasks
<1>7. CASE Rescan(w)
  <2>1. UNCHANGED <<queue, task, kids, todo, ran>>
    BY <1>7 DEF Rescan
  <2>2. \A u \in Worker : pc'[u] = "run" <=> pc[u] = "run"
    BY <1>a, <1>7 DEF Rescan
  <2> QED BY <2>1, <2>2, IdleTasks
<1>8. CASE Unblock(w)
  <2>1. UNCHANGED <<queue, task, kids, todo, ran>>
    BY <1>8 DEF Unblock
  <2>2. \A u \in Worker : pc'[u] = "run" <=> pc[u] = "run"
    BY <1>a, <1>8 DEF Unblock
  <2> QED BY <2>1, <2>2, IdleTasks
<1>9. CASE WakeUp(w)
  <2>1. UNCHANGED <<queue, task, kids, todo, ran>>
    BY <1>9 DEF WakeUp
  <2>2. \A u \in Worker : pc'[u] = "run" <=> pc[u] = "run"
    BY <1>a, <1>9 DEF WakeUp
  <2> QED BY <2>1, <2>2, IdleTasks
<1>10. CASE Pop(w)
  <2>1. \E l \in {"active", "spin"} : pc' = [pc EXCEPT ![w] = l]
    BY <1>10 DEF Pop
  <2>2. UNCHANGED <<kids, todo, ran>> /\ pc[w] \notin {"run", "active", "unblock"}
    BY <1>10 DEF Pop
  <2>3. CASE \E v \in Worker : PopFront(w, v) \/ PopBack(w, v)
    BY <2>1, <2>2, <2>3, PopTasks
  <2>4. CASE UNCHANGED <<queue, task>>
    <3>1. \A u \in Worker : pc'[u] = "run" <=> pc[u] = "run"
      BY <1>a, <2>1, <2>2
    <3> QED BY <2>2, <2>4, <3>1, IdleTasks
  <2>5. scan[w] \subseteq Worker
    BY DEF LocalInv, Types
  <2> QED BY <1>10, <2>3, <2>4, <2>5 DEF Pop
<1>11. CASE SpinTry(w)
  <2>1. \E l \in {"active", "spin"} : pc' = [pc EXCEPT ![w] = l]
    BY <1>11 DEF SpinTry
  <2>2. UNCHANGED <<kids, todo, ran>> /\ pc[w] \notin {"run", "active", "unblock"}
    BY <1>11 DEF SpinTry
  <2>3. CASE \E v \in Worker : PopFront(w, v) \/ PopBack(w, v)
    BY <2>1, <2>2, <2>3, PopTasks
  <2>4. CASE UNCHANGED <<queue, task>>
    <3>1. \A u \in Worker : pc'[u] = "run" <=> pc[u] = "run"
      BY <1>a, <2>1, <2>2
    <3> QED BY <2>2, <2>4, <3>1, IdleTasks
  <2>5. scan[w] \subseteq Worker
    BY DEF LocalInv, Types
  <2> QED BY <1>11, <2>3, <2>4, <2>5 DEF SpinTry
<1>12. CASE Steal(w)
  <2>1. \E l \in {"active", "block"} : pc' = [pc EXCEPT ![w] = l]
    BY <1>12 DEF Steal
  <2>2. UNCHANGED <<kids, todo, ran>> /\ pc[w] \notin {"run", "active", "unblock"}
    BY <1>12 DEF Steal
  <2>3. CASE \E v \in Worker : PopFront(w, v) \/ PopBack(w, v)
    BY <2>1, <2>2, <2>3, PopTasks
  <2>4. CASE UNCHANGED <<queue, task>>
    <3>1. \A u \in Worker : pc'[u] = "run" <=> pc[u] = "run"
      BY <1>a, <2>1, <2>2
    <3> QED BY <2>2, <2>4, <3>1, IdleTasks
  <2>5. scan[w] \subseteq Worker
    BY DEF LocalInv, Types
  <2> QED BY <1>12, <2>3, <2>4, <2>5 DEF Steal
<1>13. CASE ScanPop(w)
  <2>1. \E l \in {"active", "unblock"} : pc' = [pc EXCEPT ![w] = l]
    BY <1>13 DEF ScanPop
  <2>2. UNCHANGED <<kids, todo, ran>> /\ pc[w] \notin {"run", "active", "unblock"}
    BY <1>13 DEF ScanPop
  <2>3. CASE \E v \in Worker : PopFront(w, v) \/ PopBack(w, v)
    BY <2>1, <2>2, <2>3, PopTasks
  <2>4. CASE UNCHANGED <<queue, task>>
    <3>1. \A u \in Worker : pc'[u] = "run" <=> pc[u] = "run"
      BY <1>a, <2>1, <2>2
    <3> QED BY <2>2, <2>4, <3>1, IdleTasks
  <2>5. scan[w] \subseteq Worker
    BY DEF LocalInv, Types
  <2> QED BY <1>13, <2>3, <2>4, <2>5 DEF ScanPop
<1>14. CASE SetActive(w)
  <2>1. /\ pc[w] = "active" /\ pc'[w] = "run" /\ task' = task /\ kids[w] = {}
        /\ kids'[w] = Spawns[task[w]] /\ UNCHANGED <<queue, todo, ran>>
        /\ \A u \in Worker \ {w} : pc'[u] = pc[u] /\ kids'[u] = kids[u]
    BY <1>a, <1>14 DEF SetActive, WorkerInv
  <2>2. \A x \in Task : Started(x) => Started(x)'
    BY <2>1 DEF Started
  <2>0. PICK a : a = task[w]
    OBVIOUS
  <2>3. \A x \in Task : Waiting(x) => Waiting(x)' \/ x = a
    BY <2>0, <2>1 DEF Waiting, Queued
  <2>4. Started(a)' /\ \A y \in Spawns[a] : Accounted(y)'
    BY <2>0, <2>1 DEF Started, Accounted
  <2>5. \A u \in Worker : \A x \in kids[u] : Accounted(x)'
    BY <2>1 DEF Accounted
  <2>6. \A x \in Task : Waiting(x) =>
          Waiting(x)' \/ (Started(x)' /\ \A y \in Spawns[x] : Accounted(y)')
    BY <2>3, <2>4
  <2> QED BY <2>2, <2>5, <2>6, KeepsAccount
<1>15. CASE SetSpinning(w)
  <2>1. /\ pc[w] = "run" /\ pc'[w] = "loop" /\ task'[w] = NoTask
        /\ ran' = ran \cup {task[w]} /\ UNCHANGED <<queue, todo, kids>>
        /\ \A u \in Worker \ {w} : pc'[u] = pc[u] /\ task'[u] = task[u]
    BY <1>a, <1>15 DEF SetSpinning
  <2>2. \A x \in Task : Started(x) => Started(x)'
    BY <2>1 DEF Started
  <2>3. \A x \in Task : Waiting(x) => Waiting(x)'
    BY <2>1 DEF Waiting, Queued
  <2>4. \A u \in Worker : \A x \in kids[u] : Accounted(x)'
    BY <2>1 DEF Accounted
  <2> QED BY <2>2, <2>3, <2>4, KeepsAccount
<1>16. ASSUME NEW c \in Task, ScheduleChild(w, c)
      PROVE  Accounted(t)'
  <2>1. /\ UNCHANGED <<pc, task, todo>> /\ kids'[w] = kids[w] \ {c}
        /\ \A u \in Worker \ {w} : kids'[u] = kids[u]
    BY <1>a, <1>16 DEF ScheduleChild
  <2>2. \/ queue' = [queue EXCEPT ![w] = Append(queue[w], c)] /\ ran' = ran
        \/ queue' = queue /\ ran' = ran \cup {c}
    BY <1>16 DEF ScheduleChild
  <2>3. \A x : Queued(x) => Queued(x)'
    BY <1>a, <2>2, PushKeeps DEF Queued
  <2>4. \A x \in Task : (Waiting(x) => Waiting(x)') /\ (Started(x) => Started(x)')
    BY <2>1, <2>2, <2>3 DEF Waiting, Started
  <2>5. Accounted(c)'
    <3>1. CASE queue' = [queue EXCEPT ![w] = Append(queue[w], c)]
      BY <1>a, <3>1, PushKeeps DEF Accounted, Waiting
    <3>2. CASE ran' = ran \cup {c}
      BY <3>2 DEF Accounted, Started
    <3> QED BY <2>2, <3>1, <3>2
  <2>6. \A u \in Worker : \A x \in kids[u] : Accounted(x)'
    <3> SUFFICES ASSUME NEW u \in Worker, NEW x \in kids[u], x # c PROVE Accounted(x)'
      BY <2>5
    <3>1. x \in kids'[u]
      BY <2>1
    <3> QED BY <3>1 DEF Accounted
  <2> QED BY <2>4, <2>6, KeepsAccount
<1>17. CASE ReadStatus(w) \/ Notify(w)
  <2>1. UNCHANGED <<queue, task, kids, todo, ran, pc>>
    BY <1>17 DEF ReadStatus, Notify
  <2> QED BY <2>1, IdleTasks
<1>18. CASE UncountBlocked(w)
  <2>1. UNCHANGED <<queue, task, kids, todo, ran>>
    BY <1>18 DEF UncountBlocked
  <2>2. \A u \in Worker : pc'[u] = "run" <=> pc[u] = "run"
    BY <1>a, <1>18 DEF UncountBlocked
  <2> QED BY <2>1, <2>2, IdleTasks
<1> QED
  BY <1>1, <1>2, <1>3, <1>4, <1>5, <1>6, <1>7, <1>8, <1>9,
     <1>10, <1>11, <1>12, <1>13, <1>14, <1>15, <1>16, <1>17, <1>18
  DEF WorkerStep

\* A task is a root or has a parent that is one.
LEMMA RootsCover ==
  ASSUME NEW x \in Task, x \notin Roots
  PROVE  \E p \in Roots : x \in Spawns[p]
<1>1. PICK p \in Task : x \in Spawns[p]
  BY DEF Roots, Children
<1>2. p \notin Children
  BY <1>1, SpawnAssumption
<1> QED BY <1>1, <1>2 DEF Roots

\* Any step.
LEMMA NextTasks ==
  ASSUME LocalInv, TaskInv, [Next]_vars
  PROVE  TaskInv'
<1> USE DEF worker_vars, wake_vars, main_vars
<1>a. Types /\ PhaseInv /\ QueueOK
  BY DEF LocalInv, Types
<1>1. ASSUME NEW w \in Worker, WorkerStep(w) PROVE TaskInv'
  <2>1. cancelled_' = cancelled_
    BY <1>1 DEF WorkerStep, Loop, Pop, Spin, SpinTry, Steal, SetBlocking, Scan, ScanPop,
              CountBlocked, CheckDone, Rescan, UncountBlocked, Unblock, WakeUp, SetActive, SetSpinning,
              ScheduleChild, ReadStatus, Notify
  <2> QED BY <1>1, <2>1, WorkerTasks DEF TaskInv
<1>2. ASSUME NEW c \in Client, NEW t \in todo, NEW q \in Worker, Schedule(c, t, q),
             NEW x \in Task, Accounted(x)
      PROVE  Accounted(x)'
  <2>0. t \in Task /\ UNCHANGED <<pc, task, kids>>
    BY <1>a, <1>2 DEF Types, Schedule
  <2>1. CASE queue' = [queue EXCEPT ![q] = <<t>> \o queue[q]] /\ todo' = todo \ {t} /\ ran' = ran
    <3>1. Queued(t)' /\ \A y : Queued(y) => Queued(y)'
      BY <1>a, <2>0, <2>1, PushKeeps
    <3>2. \A y \in Task : (Waiting(y) => Waiting(y)') /\ (Started(y) => Started(y)')
      BY <2>0, <2>1, <3>1 DEF Waiting, Started
    <3>3. \A w \in Worker : \A y \in kids[w] : Accounted(y)'
      BY <2>0 DEF Accounted
    <3> QED BY <1>2, <3>2, <3>3, KeepsAccount
  <2>2. CASE queue' = queue /\ ran' = ran \cup {t} /\ todo' = (todo \ {t}) \cup Spawns[t]
    <3>1. \A y \in Task : Started(y) => Started(y)'
      BY <2>0, <2>2 DEF Started
    <3>2. \A y \in Task : Waiting(y) => Waiting(y)' \/ y = t
      BY <2>0, <2>2 DEF Waiting, Queued
    <3>3. Started(t)' /\ \A y \in Spawns[t] : Accounted(y)'
      BY <2>0, <2>2 DEF Started, Accounted, Waiting
    <3>4. \A w \in Worker : \A y \in kids[w] : Accounted(y)'
      BY <2>0 DEF Accounted
    <3>5. \A y \in Task : Waiting(y) =>
            Waiting(y)' \/ (Started(y)' /\ \A z \in Spawns[y] : Accounted(z)')
      BY <3>2, <3>3
    <3> QED BY <1>2, <3>1, <3>4, <3>5, KeepsAccount
  <2> QED BY <1>2, <2>1, <2>2 DEF Schedule
<1>3. CASE \E c \in Client : ClientStep(c)
  <2>1. PICK c \in Client : ClientStep(c)
    BY <1>3
  <2>2. CASE \E t \in todo, q \in Worker : Schedule(c, t, q)
    <3>1. cancelled_' = cancelled_
      BY <2>2 DEF Schedule
    <3> QED BY <1>2, <2>2, <3>1 DEF TaskInv
  <2>3. CASE ReadStatus(c) \/ Notify(c)
    <3>1. UNCHANGED <<queue, task, kids, todo, ran, pc, cancelled_>>
      BY <2>3 DEF ReadStatus, Notify
    <3> QED BY <3>1, IdleTasks DEF TaskInv
  <2> QED BY <2>1, <2>2, <2>3 DEF ClientStep
<1>4. CASE Destroy \/ UNCHANGED vars
  <2>1. UNCHANGED <<queue, task, kids, todo, ran, pc, cancelled_>>
    BY <1>4 DEF Destroy, vars
  <2> QED BY <2>1, IdleTasks DEF TaskInv
<1>5. CASE Flush \/ CancelDone \/ Cancel
  <2>1. cancelled_'
    BY <1>a, <1>5 DEF Flush, CancelDone, Cancel, PhaseInv
  <2> QED BY <2>1 DEF TaskInv
<1>6. CASE Construct
  <2>1. todo' = Roots
    BY <1>6 DEF Construct
  <2>2. \A x \in Task : Accounted(x)'
    BY <2>1, RootsCover DEF Accounted, Waiting, Roots
  <2> QED BY <2>2 DEF TaskInv
<1> QED BY <1>1, <1>3, <1>4, <1>5, <1>6 DEF Next, MainStep

-----------------------------------------------------------------------------
(***************************************************************************)
(* The theorems.                                                           *)
(***************************************************************************)

\* In the initial state, nothing is blocked and the roots wait to be scheduled.
LEMMA InitInv == Init => IInv
<1> SUFFICES ASSUME Init PROVE IInv
  OBVIOUS
<1>1. LocalInv
  BY InitLocal
<1>2. Counted = {} /\ blocked_ = 0
  BY DEF Init, Counted
<1>3. blocked_ = Cardinality(Counted)
  BY <1>2, FS_EmptySet
<1>4. AttendedInv
  BY DEF Init, AttendedInv, Attended
<1>5. \A x \in Task : Accounted(x)
  BY RootsCover DEF Init, Accounted, Waiting, Roots
<1> QED BY <1>1, <1>3, <1>4, <1>5 DEF IInv, TaskInv

\* IInv is an invariant of the pool.
THEOREM Inductive == Spec => []IInv
<1>1. IInv /\ [Next]_vars => IInv'
  BY NextLocal, NextCount, NextAttended, NextTasks DEF IInv
<1> QED BY <1>1, InitInv, PTL DEF Spec

\* blocked_, which the termination test of CheckDone compares with the number
\* of threads, is exact, for every number of workers.
THEOREM BlockedCorrect == Spec => []BlockedExact
<1>1. IInv => BlockedExact
  BY CountedFinite DEF IInv, LocalInv, Types, QueueOK, TypeOK, BlockedExact, Counted
<1> QED BY <1>1, Inductive, PTL

\* EnsureAwake's assertion holds: with the mutex of a worker's data nobody
\* finds the worker in the middle of blocking.
THEOREM MutexCorrect == Spec => []BlockingHoldsMutex
<1>1. IInv => BlockingHoldsMutex
  BY DEF IInv, LocalInv, WorkerInv, BlockingHoldsMutex
<1> QED BY <1>1, Inductive, PTL

\* No wake-up is lost, however many threads schedule, steal and go to sleep at
\* the same time.
THEOREM NoLostWakeUp == Spec => []NoTaskStranded
<1>1. ASSUME IInv PROVE NoTaskStranded
  <2> SUFFICES ASSUME NEW v \in Worker, queue[v] # <<>>, ~cancelled_,
                      \A c \in Client : wake[c] = <<>>
               PROVE  \E w \in Worker : ~Asleep(w) /\ pc[w] # "exit"
    BY DEF NoTaskStranded
  <2>1. PICK u \in Worker : Alert(u, v)
    BY <1>1 DEF IInv, AttendedInv, Attended
  <2>2. ~Asleep(u) /\ pc[u] # "exit"
    BY <2>1 DEF Alert, Asleep, At
  <2> QED BY <2>2
<1> QED BY <1>1, Inductive, PTL

\* A pool that is destroyed without being cancelled has run every task that was
\* scheduled, and every task that those scheduled.
THEOREM NothingLost == Spec => []NothingLeftBehind
<1>1. ASSUME IInv PROVE NothingLeftBehind
  <2> SUFFICES ASSUME phase = "join", Joined, ~cancelled_ PROVE ran = Task
    BY DEF NothingLeftBehind
  <2>1. Types /\ todo = {} /\ \A w \in Worker : WorkerInv(w) /\ pc[w] = "exit"
    BY <1>1 DEF IInv, LocalInv, PhaseInv, Joined
  <2>2. \A w \in Worker : should_exit[w] /\ task[w] = NoTask /\ kids[w] = {}
    BY <2>1 DEF WorkerInv
  <2>3. 0 \in Worker
    BY PoolAssumption DEF Worker
  <2>4. \A v \in Worker : queue[v] = <<>>
    <3>1. \A v \in Worker : Attended(v)
      BY <1>1, <2>2, <2>3 DEF IInv, AttendedInv
    <3>2. \A u, v \in Worker : ~Alert(u, v)
      BY <2>1 DEF Alert
    <3> QED BY <3>1, <3>2 DEF Attended
  <2>5. \A x \in Task : ~Waiting(x)
    BY <2>1, <2>2, <2>4, NoTaskAssumption DEF Waiting, Queued
  <2>6. \A x \in Task : Accounted(x)
    BY <1>1 DEF IInv, TaskInv
  <2>7. \A x \in Task : x \in ran
    BY <2>1, <2>2, <2>5, <2>6, NoTaskAssumption DEF Accounted, Started
  <2> QED BY <2>1, <2>7 DEF Types
<1> QED BY <1>1, Inductive, PTL
=============================================================================
