----------------------------- MODULE ThreadPool -----------------------------
(***************************************************************************)
(* The workers of the thread pool (EigenNonBlockingThreadPool.h, class     *)
(* ThreadPoolTempl): how a worker looks for tasks, goes to sleep and is    *)
(* woken, and how the pool is destroyed or cancelled.                      *)
(*                                                                         *)
(* The run queues are deques of atomic operations, which RunQueue          *)
(* implements.  Atomics are sequentially consistent.  A worker holds the   *)
(* mutex of its own WorkerData for several steps only in SetBlocked;       *)
(* everybody else's critical sections are single steps.  How long a worker *)
(* spins, and which queue it tries first, are left open.                   *)
(***************************************************************************)
EXTENDS Integers, Sequences, FiniteSets

CONSTANTS
  num_threads_,
  Client,     \* free-standing threads that call Schedule
  Main,       \* the one of them that owns the pool
  Task,
  Spawns,     \* the tasks that a task schedules when it runs
  NoTask,
  kSize       \* capacity of a run queue

Worker == 0..(num_threads_ - 1)
Thread == Worker \cup Client
Children == UNION {Spawns[t] : t \in Task}
Roots == Task \ Children

ASSUME PoolAssumption == num_threads_ \in Nat \ {0} /\ kSize \in Nat \ {0}
ASSUME MainAssumption == Main \in Client /\ Client \cap Nat = {}
\* Every child has one parent and no children.
ASSUME SpawnAssumption ==
  /\ Spawns \in [Task -> SUBSET Task]
  /\ \A t \in Children : Spawns[t] = {}
  /\ \A t, u \in Task : t # u => Spawns[t] \cap Spawns[u] = {}
ASSUME NoTaskAssumption == NoTask \notin Task

VARIABLES
  queue,        \* run queues, back first
  status,       \* WorkerData::status
  blocked_, done_, cancelled_,
  pc,           \* where a worker is in its loop
  task,         \* the task it has found
  kids,         \* what the task it runs has yet to schedule
  scan,         \* the queues that NonEmptyQueueIndex has yet to look at
  should_exit,
  wake,         \* the workers a thread has yet to EnsureAwake, in order
  seen_blocked, \* EnsureAwake has seen one blocking and waits for its mutex
  todo,         \* root tasks not yet scheduled
  ran,          \* tasks that have run
  phase,        \* what Main does
  flushed       \* the queues that ~ThreadPoolTempl has flushed

worker_vars == <<pc, task, kids, scan, should_exit>>
wake_vars == <<wake, seen_blocked>>
main_vars == <<done_, cancelled_, phase, flushed>>
vars == <<queue, status, blocked_, worker_vars, wake_vars, todo, ran, main_vars>>

Everyone == [i \in 1..num_threads_ |-> i - 1]

Init ==
  /\ queue = [w \in Worker |-> <<>>]
  /\ status = [w \in Worker |-> "Spinning"]
  /\ blocked_ = 0 /\ done_ = FALSE /\ cancelled_ = FALSE
  /\ pc = [w \in Worker |-> "loop"]
  /\ task = [w \in Worker |-> NoTask]
  /\ kids = [w \in Worker |-> {}]
  /\ scan = [w \in Worker |-> {}]
  /\ should_exit = [w \in Worker |-> FALSE]
  /\ wake = [t \in Thread |-> <<>>]
  /\ seen_blocked = [t \in Thread |-> FALSE]
  /\ todo = Roots /\ ran = {} /\ phase = "open" /\ flushed = 0

-----------------------------------------------------------------------------
(***************************************************************************)
(* Pieces.                                                                 *)
(***************************************************************************)
At(w, l) == pc[w] = l
Goto(w, l) == pc' = [pc EXCEPT ![w] = l]
SetStatus(w, s) == status' = [status EXCEPT ![w] = s]

\* The steps of SetBlocked during which the worker holds its mutex.
Locked(w) == pc[w] \in {"scan", "scan_pop", "count", "check", "rescan",
                       "uncount", "unblock"}

PopFront(w, v) ==
  /\ queue[v] # <<>>
  /\ task' = [task EXCEPT ![w] = queue[v][Len(queue[v])]]
  /\ queue' = [queue EXCEPT ![v] = SubSeq(@, 1, Len(@) - 1)]

PopBack(w, v) ==
  /\ queue[v] # <<>>
  /\ task' = [task EXCEPT ![w] = Head(queue[v])]
  /\ queue' = [queue EXCEPT ![v] = Tail(@)]

-----------------------------------------------------------------------------
(***************************************************************************)
(* EnsureAwake, by whichever thread has workers to wake.                   *)
(***************************************************************************)

\* The status is read without the mutex.
ReadStatus(t) ==
  /\ wake[t] # <<>> /\ ~seen_blocked[t]
  /\ IF status[Head(wake[t])] \in {"Blocking", "Blocked"}
     THEN seen_blocked' = [seen_blocked EXCEPT ![t] = TRUE] /\ UNCHANGED wake
     ELSE wake' = [wake EXCEPT ![t] = Tail(@)] /\ UNCHANGED seen_blocked
  /\ UNCHANGED <<queue, status, blocked_, worker_vars, todo, ran, main_vars>>

\* A defective variant: the second look at the status is for the wrong value.
Notify_BlockingOnly(t) ==
  LET w == Head(wake[t])
  IN
  /\ seen_blocked[t] /\ ~Locked(w)
  /\ status' = IF status[w] = "Blocking" THEN [status EXCEPT ![w] = "Waking"]
               ELSE status
  /\ wake' = [wake EXCEPT ![t] = Tail(@)]
  /\ seen_blocked' = [seen_blocked EXCEPT ![t] = FALSE]
  /\ UNCHANGED <<queue, blocked_, worker_vars, todo, ran, main_vars>>

\* And again with it.
Notify(t) ==
  LET w == Head(wake[t])
  IN
  /\ seen_blocked[t] /\ ~Locked(w)
  /\ status' = IF status[w] = "Blocked" THEN [status EXCEPT ![w] = "Waking"]
               ELSE status
  /\ wake' = [wake EXCEPT ![t] = Tail(@)]
  /\ seen_blocked' = [seen_blocked EXCEPT ![t] = FALSE]
  /\ UNCHANGED <<queue, blocked_, worker_vars, todo, ran, main_vars>>

-----------------------------------------------------------------------------
(***************************************************************************)
(* Schedule by a free-standing thread, on a random queue; a full queue     *)
(* makes it run the task itself (its children are then scheduled by the    *)
(* same rule, as further roots).                                           *)
(***************************************************************************)
\* A defective variant: the worker whose queue it is is not woken.
Schedule_WakesNobody(c, t, q) ==
  /\ wake[c] = <<>> /\ phase = "open"
  /\ IF Len(queue[q]) < kSize
     THEN /\ queue' = [queue EXCEPT ![q] = <<t>> \o @]
          /\ todo' = todo \ {t}
          /\ UNCHANGED ran
     ELSE /\ ran' = ran \cup {t}
          /\ todo' = (todo \ {t}) \cup Spawns[t]
          /\ UNCHANGED queue
  /\ UNCHANGED <<status, blocked_, worker_vars, wake_vars, main_vars>>

Schedule(c, t, q) ==
  /\ wake[c] = <<>> /\ phase = "open"
  /\ IF Len(queue[q]) < kSize
     THEN /\ queue' = [queue EXCEPT ![q] = <<t>> \o @]
          /\ wake' = [wake EXCEPT ![c] = <<q>>]
          /\ todo' = todo \ {t}
          /\ UNCHANGED ran
     ELSE /\ ran' = ran \cup {t}
          /\ todo' = (todo \ {t}) \cup Spawns[t]
          /\ UNCHANGED <<queue, wake>>
  /\ UNCHANGED <<status, blocked_, worker_vars, seen_blocked, main_vars>>

-----------------------------------------------------------------------------
(***************************************************************************)
(* WorkerLoop.                                                             *)
(***************************************************************************)
\* A defective variant: the worker that exits does not wake the others.
Loop_WakesNobody(w) ==
  /\ At(w, "loop")
  /\ Goto(w, IF cancelled_ \/ should_exit[w] THEN "exit" ELSE "pop")
  /\ UNCHANGED <<queue, status, blocked_, task, kids, scan, should_exit,
                 wake_vars, todo, ran, main_vars>>

Loop(w) ==
  /\ At(w, "loop")
  /\ IF cancelled_ \/ should_exit[w]
     THEN /\ Goto(w, "exit")
          /\ wake' = [wake EXCEPT ![w] = IF should_exit[w] THEN Everyone ELSE <<>>]
     ELSE Goto(w, "pop") /\ UNCHANGED wake
  /\ UNCHANGED <<queue, status, blocked_, task, kids, scan, should_exit,
                 seen_blocked, todo, ran, main_vars>>

Pop(w) ==
  /\ At(w, "pop")
  /\ \/ PopFront(w, w) /\ Goto(w, "active")
     \/ queue[w] = <<>> /\ Goto(w, "spin") /\ UNCHANGED <<queue, task>>
  /\ UNCHANGED <<status, blocked_, kids, scan, should_exit, wake_vars, todo,
                 ran, main_vars>>

\* The spin loop: each iteration pops from the worker's own queue, or calls
\* TrySteal, which looks at one queue and only if its worker is busy.
Spin(w) ==
  /\ At(w, "spin")
  /\ \/ ~cancelled_ /\ ~done_ /\ Goto(w, "try")
     \/ Goto(w, "steal")
  /\ UNCHANGED <<queue, status, blocked_, task, kids, scan, should_exit,
                 wake_vars, todo, ran, main_vars>>

SpinTry(w) ==
  /\ At(w, "try")
  /\ \/ /\ \/ PopFront(w, w)
           \/ \E v \in Worker : status[v] = "Active" /\ PopBack(w, v)
        /\ Goto(w, "active")
     \/ Goto(w, "spin") /\ UNCHANGED <<queue, task>>
  /\ UNCHANGED <<status, blocked_, kids, scan, should_exit, wake_vars, todo,
                 ran, main_vars>>

\* Steal visits the queues one after the other and may miss a task that
\* arrives behind it, so it may fail at any time.
Steal(w) ==
  /\ At(w, "steal")
  /\ \/ /\ num_threads_ # 1
        /\ \E v \in Worker : PopBack(w, v)
        /\ Goto(w, "active")
     \/ Goto(w, "block") /\ UNCHANGED <<queue, task>>
  /\ UNCHANGED <<status, blocked_, kids, scan, should_exit, wake_vars, todo,
                 ran, main_vars>>

\* A defective variant: no full check before blocking.
SetBlocking_NoScan(w) ==
  /\ At(w, "block")
  /\ SetStatus(w, "Blocking")
  /\ Goto(w, "count")
  /\ UNCHANGED <<queue, blocked_, task, kids, scan, should_exit, wake_vars,
                 todo, ran, main_vars>>

\* SetBlocked takes the mutex and starts on the pre-block test.
SetBlocking(w) ==
  /\ At(w, "block")
  /\ SetStatus(w, "Blocking")
  /\ scan' = [scan EXCEPT ![w] = Worker]
  /\ Goto(w, "scan")
  /\ UNCHANGED <<queue, blocked_, task, kids, should_exit, wake_vars, todo,
                 ran, main_vars>>

\* NonEmptyQueueIndex, one queue at a time.
Scan(w) ==
  /\ At(w, "scan")
  /\ \E v \in scan[w] :
       \/ /\ queue[v] = <<>>
          /\ scan' = [scan EXCEPT ![w] = @ \ {v}]
          /\ Goto(w, IF scan[w] = {v} THEN "count" ELSE "scan")
       \/ /\ queue[v] # <<>>
          /\ scan' = [scan EXCEPT ![w] = IF cancelled_ THEN {} ELSE {v}]
          /\ Goto(w, IF cancelled_ THEN "unblock" ELSE "scan_pop")
  /\ UNCHANGED <<queue, status, blocked_, task, kids, should_exit, wake_vars,
                 todo, ran, main_vars>>

\* The queue that was not empty may be by now.
ScanPop(w) ==
  /\ At(w, "scan_pop")
  /\ \E v \in scan[w] :
       \/ PopBack(w, v)
       \/ queue[v] = <<>> /\ UNCHANGED <<queue, task>>
  /\ scan' = [scan EXCEPT ![w] = {}]
  /\ Goto(w, "unblock")
  /\ UNCHANGED <<status, blocked_, kids, should_exit, wake_vars, todo, ran,
                 main_vars>>

CountBlocked(w) ==
  /\ At(w, "count")
  /\ blocked_' = blocked_ + 1
  /\ Goto(w, "check")
  /\ UNCHANGED <<queue, status, task, kids, scan, should_exit, wake_vars, todo,
                 ran, main_vars>>

AllBlocked == done_ /\ blocked_ = num_threads_

\* A defective variant: the worker sleeps under its status Blocking.
CheckDone_StatusKept(w) ==
  /\ At(w, "check")
  /\ \/ /\ AllBlocked
        /\ scan' = [scan EXCEPT ![w] = Worker]
        /\ Goto(w, "rescan")
     \/ /\ ~AllBlocked
        /\ Goto(w, "sleep")
        /\ UNCHANGED scan
  /\ UNCHANGED <<queue, status, blocked_, task, kids, should_exit, wake_vars,
                 todo, ran, main_vars>>

\* The termination test.  A worker that does not pass it goes to sleep.
CheckDone(w) ==
  /\ At(w, "check")
  /\ \/ /\ AllBlocked
        /\ scan' = [scan EXCEPT ![w] = Worker]
        /\ Goto(w, "rescan")
        /\ UNCHANGED status
     \/ /\ ~AllBlocked
        /\ SetStatus(w, "Blocked")
        /\ Goto(w, "sleep")
        /\ UNCHANGED scan
  /\ UNCHANGED <<queue, blocked_, task, kids, should_exit, wake_vars, todo,
                 ran, main_vars>>

\* A defective variant: a worker that found work still counts as blocked.
Rescan_StillCounted(w) ==
  /\ At(w, "rescan")
  /\ \E v \in scan[w] :
       \/ /\ queue[v] # <<>>
          /\ scan' = [scan EXCEPT ![w] = {}]
          /\ Goto(w, "unblock")
          /\ UNCHANGED should_exit
       \/ /\ queue[v] = <<>> /\ scan[w] # {v}
          /\ scan' = [scan EXCEPT ![w] = @ \ {v}]
          /\ UNCHANGED <<should_exit, pc>>
       \/ /\ queue[v] = <<>> /\ scan[w] = {v}
          /\ scan' = [scan EXCEPT ![w] = {}]
          /\ should_exit' = [should_exit EXCEPT ![w] = TRUE]
          /\ Goto(w, "unblock")
  /\ UNCHANGED <<queue, status, blocked_, task, kids, wake_vars, todo, ran,
                 main_vars>>

\* The queues are checked once more before the worker exits.
Rescan(w) ==
  /\ At(w, "rescan")
  /\ \E v \in scan[w] :
       \/ /\ queue[v] # <<>>
          /\ scan' = [scan EXCEPT ![w] = {}]
          /\ Goto(w, "uncount")
          /\ UNCHANGED should_exit
       \/ /\ queue[v] = <<>> /\ scan[w] # {v}
          /\ scan' = [scan EXCEPT ![w] = @ \ {v}]
          /\ UNCHANGED <<should_exit, pc>>
       \/ /\ queue[v] = <<>> /\ scan[w] = {v}
          /\ scan' = [scan EXCEPT ![w] = {}]
          /\ should_exit' = [should_exit EXCEPT ![w] = TRUE]
          /\ Goto(w, "unblock")
  /\ UNCHANGED <<queue, status, blocked_, task, kids, wake_vars, todo, ran,
                 main_vars>>

\* The worker that found a task there is not blocked after all.
UncountBlocked(w) ==
  /\ At(w, "uncount")
  /\ blocked_' = blocked_ - 1
  /\ Goto(w, "unblock")
  /\ UNCHANGED <<queue, status, task, kids, scan, should_exit, wake_vars, todo,
                 ran, main_vars>>

\* SetBlocked returns without having slept.
Unblock(w) ==
  /\ At(w, "unblock")
  /\ SetStatus(w, "Spinning")
  /\ Goto(w, IF task[w] # NoTask THEN "active" ELSE "loop")
  /\ UNCHANGED <<queue, blocked_, task, kids, scan, should_exit, wake_vars,
                 todo, ran, main_vars>>

\* It was notified.
WakeUp(w) ==
  /\ At(w, "sleep") /\ status[w] # "Blocked"
  /\ blocked_' = blocked_ - 1
  /\ SetStatus(w, "Spinning")
  /\ Goto(w, "loop")
  /\ UNCHANGED <<queue, task, kids, scan, should_exit, wake_vars, todo, ran,
                 main_vars>>

SetActive(w) ==
  /\ At(w, "active")
  /\ SetStatus(w, "Active")
  /\ kids' = [kids EXCEPT ![w] = Spawns[task[w]]]
  /\ Goto(w, "run")
  /\ UNCHANGED <<queue, blocked_, task, scan, should_exit, wake_vars, todo,
                 ran, main_vars>>

\* The task calls Schedule: onto the worker's own queue, and nobody is woken.
ScheduleChild(w, t) ==
  /\ At(w, "run") /\ t \in kids[w]
  /\ kids' = [kids EXCEPT ![w] = @ \ {t}]
  /\ IF Len(queue[w]) < kSize
     THEN queue' = [queue EXCEPT ![w] = Append(@, t)] /\ UNCHANGED ran
     ELSE ran' = ran \cup {t} /\ UNCHANGED queue
  /\ UNCHANGED <<status, blocked_, pc, task, scan, should_exit, wake_vars,
                 todo, main_vars>>

SetSpinning(w) ==
  /\ At(w, "run") /\ kids[w] = {}
  /\ SetStatus(w, "Spinning")
  /\ ran' = ran \cup {task[w]}
  /\ task' = [task EXCEPT ![w] = NoTask]
  /\ Goto(w, "loop")
  /\ UNCHANGED <<queue, blocked_, kids, scan, should_exit, wake_vars, todo,
                 main_vars>>

WorkerStep(w) ==
  \/ Loop(w) \/ Pop(w) \/ Spin(w) \/ SpinTry(w) \/ Steal(w)
  \/ SetBlocking(w) \/ Scan(w) \/ ScanPop(w) \/ CountBlocked(w)
  \/ CheckDone(w) \/ Rescan(w) \/ UncountBlocked(w) \/ Unblock(w) \/ WakeUp(w)
  \/ SetActive(w) \/ SetSpinning(w)
  \/ \E t \in Task : ScheduleChild(w, t)
  \/ ReadStatus(w) \/ Notify(w)

Joined == \A w \in Worker : pc[w] = "exit" /\ wake[w] = <<>>

-----------------------------------------------------------------------------
(***************************************************************************)
(* The owner of the pool.                                                  *)
(***************************************************************************)

\* A defective variant: the queues are flushed in any case.
Destroy_AlwaysFlushes ==
  /\ \A c \in Client : wake[c] = <<>>
  /\ \/ phase = "open" /\ todo = {}
     \/ phase = "cancelled"
  /\ done_' = TRUE
  /\ phase' = "flush"
  /\ wake' = [wake EXCEPT ![Main] = IF cancelled_ THEN <<>> ELSE Everyone]
  /\ UNCHANGED <<queue, status, blocked_, worker_vars, seen_blocked, todo, ran,
                 cancelled_, flushed>>

\* ~ThreadPoolTempl, when nobody schedules any more.  The queues of a
\* cancelled pool are flushed, those of any other are left to the workers.
Destroy ==
  /\ \A c \in Client : wake[c] = <<>>
  /\ \/ phase = "open" /\ todo = {}
     \/ phase = "cancelled"
  /\ done_' = TRUE
  /\ phase' = IF cancelled_ THEN "flush" ELSE "join"
  /\ wake' = [wake EXCEPT ![Main] = IF cancelled_ THEN <<>> ELSE Everyone]
  /\ UNCHANGED <<queue, status, blocked_, worker_vars, seen_blocked, todo, ran,
                 cancelled_, flushed>>

Flush ==
  /\ phase = "flush"
  /\ \/ /\ flushed < num_threads_ /\ queue[flushed] # <<>>
        /\ queue' = [queue EXCEPT ![flushed] = SubSeq(@, 1, Len(@) - 1)]
        /\ UNCHANGED <<flushed, phase>>
     \/ /\ flushed < num_threads_ /\ queue[flushed] = <<>>
        /\ flushed' = flushed + 1
        /\ UNCHANGED <<queue, phase>>
     \/ /\ flushed = num_threads_
        /\ phase' = "join"
        /\ UNCHANGED <<queue, flushed>>
  /\ UNCHANGED <<status, blocked_, worker_vars, wake_vars, todo, ran, done_,
                 cancelled_>>

\* Cancel, at any time before that.
Cancel ==
  /\ phase = "open" /\ \A c \in Client : wake[c] = <<>>
  /\ cancelled_' = TRUE /\ phase' = "cancel"
  /\ UNCHANGED <<queue, status, blocked_, worker_vars, wake_vars, todo, ran,
                 done_, flushed>>

CancelDone ==
  /\ phase = "cancel"
  /\ done_' = TRUE /\ phase' = "cancelled"
  /\ wake' = [wake EXCEPT ![Main] = Everyone]
  /\ UNCHANGED <<queue, status, blocked_, worker_vars, seen_blocked, todo, ran,
                 cancelled_, flushed>>

\* The threads are joined and the pool is gone; another one is constructed.
Construct ==
  /\ phase = "join" /\ wake[Main] = <<>> /\ Joined
  /\ queue' = [w \in Worker |-> <<>>]
  /\ status' = [w \in Worker |-> "Spinning"]
  /\ blocked_' = 0 /\ done_' = FALSE /\ cancelled_' = FALSE
  /\ pc' = [w \in Worker |-> "loop"]
  /\ should_exit' = [w \in Worker |-> FALSE]
  /\ todo' = Roots /\ ran' = {} /\ phase' = "open" /\ flushed' = 0
  /\ UNCHANGED <<task, kids, scan, wake_vars>>

MainStep == Destroy \/ Flush \/ CancelDone \/ Construct

ClientStep(c) ==
  \/ \E t \in todo, q \in Worker : Schedule(c, t, q)
  \/ ReadStatus(c) \/ Notify(c)

Next ==
  \/ \E w \in Worker : WorkerStep(w)
  \/ \E c \in Client : ClientStep(c)
  \/ MainStep \/ Cancel

Spec == Init /\ [][Next]_vars

\* Each call of EnsureAwake ends: the thread goes on with it, and the mutex it
\* waits for is released.
Awakening(t) == ReadStatus(t) \/ Notify(t)

\* A worker is in the spin loop, which is left after spin_count iterations.
InSpinLoop(w) == pc[w] \in {"spin", "try"}

\* Every worker that can take a step eventually does, no worker spins for ever,
\* and a thread that has workers to wake wakes them.  Nobody has to schedule a
\* task, to destroy the pool or to cancel it: what has to happen happens
\* without the owner's help.
LiveSpec ==
  /\ Spec
  /\ \A w \in Worker : WF_vars(WorkerStep(w)) /\ []<>~InSpinLoop(w)
  /\ \A c \in Client : WF_vars(Awakening(c))

-----------------------------------------------------------------------------
TypeOK ==
  /\ queue \in [Worker -> Seq(Task)]
  /\ \A w \in Worker : Len(queue[w]) <= kSize
  /\ status \in [Worker -> {"Spinning", "Active", "Blocking", "Blocked", "Waking"}]
  /\ blocked_ \in 0..num_threads_ /\ done_ \in BOOLEAN /\ cancelled_ \in BOOLEAN
  /\ pc \in [Worker -> {"loop", "pop", "spin", "try", "steal", "block", "scan",
                        "scan_pop", "count", "check", "rescan", "uncount",
                        "unblock", "sleep", "active", "run", "exit"}]
  /\ task \in [Worker -> Task \cup {NoTask}] /\ kids \in [Worker -> SUBSET Task]
  /\ scan \in [Worker -> SUBSET Worker] /\ should_exit \in [Worker -> BOOLEAN]
  /\ wake \in [Thread -> Seq(Worker)] /\ seen_blocked \in [Thread -> BOOLEAN]
  /\ todo \subseteq Task /\ ran \subseteq Task
  /\ phase \in {"open", "cancel", "cancelled", "flush", "join"}
  /\ flushed \in 0..num_threads_

\* blocked_, which decides when the pool may stop, counts the workers between
\* their increment and their decrement, and those that exited.  (With the types
\* of all variables and the capacity of the queues.)
BlockedExact ==
  /\ TypeOK
  /\ blocked_ = Cardinality(
       {w \in Worker : pc[w] \in {"check", "rescan", "uncount", "sleep"}
                          \/ should_exit[w]})

\* EnsureAwake asserts that, with the mutex, it never finds a worker in the
\* middle of blocking.
BlockingHoldsMutex == \A w \in Worker : status[w] = "Blocking" => Locked(w)

Asleep(w) == At(w, "sleep") /\ status[w] = "Blocked"

\* No wake-up is lost: while a task waits in some queue, a worker is up, or is
\* being woken, or the thread that pushed the task is about to wake one.
NoTaskStranded ==
  (\E w \in Worker : queue[w] # <<>>) /\ ~cancelled_ =>
    \/ \E w \in Worker : ~Asleep(w) /\ pc[w] # "exit"
    \/ \E c \in Client : wake[c] # <<>>

\* A pool that is destroyed and not cancelled has run everything.
NothingLeftBehind ==
  phase = "join" /\ Joined /\ ~cancelled_ => ran = Task

\* Every task that is scheduled runs, unless the pool is cancelled.
EveryTaskRuns ==
  \A t \in Task :
    (\E w \in Worker : \E i \in 1..Len(queue[w]) : queue[w][i] = t)
      ~> (t \in ran \/ cancelled_)

\* The destructor returns: all workers exit.
DestructorReturns == (phase = "join" /\ ~cancelled_) ~> Joined
=============================================================================
