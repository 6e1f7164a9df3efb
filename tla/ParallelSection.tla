--------------------------- MODULE ParallelSection --------------------------
(***************************************************************************)
(* Parallel sections of the thread pool (EigenNonBlockingThreadPool.h,     *)
(* StartParallelSection ... RunInParallel): a thread that leads a section  *)
(* sends tasks to the workers' queues, runs loops with the workers that    *)
(* have picked one up, revokes the tasks nobody has started and waits for  *)
(* the others.  The section, and each loop in it, lives on the leader's    *)
(* stack and is gone as soon as the leader's call returns.                 *)
(*                                                                         *)
(* A queue is its array of slots.  Both ends are open to some worker, so   *)
(* any task in it may be the next one taken; a slot that is being emptied, *)
(* or that holds a revoked task, makes a push fail, so a push may always   *)
(* fail.  RunQueue shows that each operation takes effect at one step.     *)
(* A worker is taken to be awake: ThreadPool models blocking and waking.   *)
(***************************************************************************)
EXTENDS Integers, Sequences, FiniteSets

CONSTANTS
  Leader,      \* threads that lead sections
  SingleLoop,  \* those of them that call RunInParallel
  Worker,
  Slot,        \* positions in a run queue
  Scheduled,   \* the workers whose queues get other tasks too
  Dop,         \* the loops of a leader's section: the parallelism each asks for
  TAG_SPACE,   \* number of values of a tag (2^32 in the code)
  FIRST_TAG,   \* where the tag counter has got to
  Nobody

ASSUME LeaderAssumption == SingleLoop \subseteq Leader /\ Nobody \notin Leader
ASSUME FiniteAssumption ==
  IsFiniteSet(Leader) /\ IsFiniteSet(Worker) /\ IsFiniteSet(Slot)
ASSUME ScheduledAssumption == Scheduled \subseteq Worker
ASSUME DopAssumption ==
  /\ Dop \in [Leader -> Seq(Nat \ {0, 1})]
  /\ \A l \in SingleLoop : Len(Dop[l]) = 1
\* There are fewer threads than tags, and each keeps the one it has: no tag is
\* used again.
ASSUME TagAssumption ==
  /\ TAG_SPACE \in Nat /\ Cardinality(Leader) < TAG_SPACE
  /\ FIRST_TAG \in 0..(TAG_SPACE - 1)

VARIABLES
  next_tag, tag,           \* tag allocation; 0 until a thread leads a section
  queue,                   \* Nobody, or a task: its leader, or a plain task
  lpc,                     \* where a leader is
  active, worker_idx, tasks_finished, current_loop, workers_in_loop,
  tasks,                   \* the pairs <<queue, slot>> it has pushed to
  loops,                   \* loops it has entered in this section
  n,                       \* degree of parallelism of the current loop
  left,                    \* tasks SummonWorkers has still to push
  to_wait_for,             \* tasks_started - tasks_revoked
  wpc, job, my_idx, work_item

section_vars == <<active, worker_idx, tasks_finished, current_loop, workers_in_loop>>
leader_vars == <<lpc, tasks, loops, n, left, to_wait_for>>
tag_vars == <<next_tag, tag>>
worker_vars == <<wpc, job, my_idx, work_item>>
vars == <<tag_vars, queue, section_vars, leader_vars, worker_vars>>

\* A slot that holds a task of Schedule has the default tag.
Empty == [from |-> Nobody, tag |-> -1]
Plain == [from |-> Nobody, tag |-> 0]

Init ==
  /\ next_tag = FIRST_TAG
  /\ tag = [l \in Leader |-> 0]
  /\ queue = [q \in Worker |-> [s \in Slot |-> Empty]]
  /\ lpc = [l \in Leader |-> "idle"]
  /\ active = [l \in Leader |-> FALSE]
  /\ worker_idx = [l \in Leader |-> 0]
  /\ tasks_finished = [l \in Leader |-> 0]
  /\ current_loop = [l \in Leader |-> 0]
  /\ workers_in_loop = [l \in Leader |-> 0]
  /\ tasks = [l \in Leader |-> <<>>]
  /\ loops = [l \in Leader |-> 0]
  /\ n = [l \in Leader |-> 0]
  /\ left = [l \in Leader |-> 0]
  /\ to_wait_for = [l \in Leader |-> 0]
  /\ wpc = [w \in Worker |-> "idle"]
  /\ job = [w \in Worker |-> Nobody]
  /\ my_idx = [w \in Worker |-> 0]
  /\ work_item = [w \in Worker |-> 0]

-----------------------------------------------------------------------------
At(l, p) == lpc[l] = p
Goto(l, p) == lpc' = [lpc EXCEPT ![l] = p]
Is(w, p) == wpc[w] = p
Go(w, p) == wpc' = [wpc EXCEPT ![w] = p]

\* A defective variant: the default tag is given out.
GetNext_Zero == next_tag

\* Tag::GetNext: the next value of a counter that wraps, and not 0.
GetNext == IF next_tag = 0 THEN 1 ELSE next_tag
AfterNext == (GetNext + 1) % TAG_SPACE

\* SummonWorkers makes up the degree of parallelism, the leader included.
ExtraNeeded(l, dop) ==
  IF dop > Len(tasks[l]) + 1 THEN dop - (Len(tasks[l]) + 1) ELSE 0

-----------------------------------------------------------------------------
(***************************************************************************)
(* The leader.                                                             *)
(***************************************************************************)

\* StartParallelSectionInternal, on a fresh section; the thread gets its tag
\* on its first section and keeps it.
StartParallelSection(l) ==
  /\ At(l, "idle")
  /\ tag' = [tag EXCEPT ![l] = IF @ = 0 THEN GetNext ELSE @]
  /\ next_tag' = IF tag[l] = 0 THEN AfterNext ELSE next_tag
  /\ active' = [active EXCEPT ![l] = TRUE]
  /\ Goto(l, "section")
  /\ UNCHANGED <<queue, worker_idx, tasks_finished, current_loop,
                 workers_in_loop, tasks, loops, n, left, to_wait_for, worker_vars>>

\* RunInParallelSection publishes a loop and summons workers for it;
\* RunInParallel hands its one loop to the tasks directly.
EnterLoop(l) ==
  LET dop == Dop[l][loops[l] + 1]
  IN
  /\ At(l, "section") /\ loops[l] < Len(Dop[l])
  /\ loops' = [loops EXCEPT ![l] = @ + 1]
  /\ current_loop' = [current_loop EXCEPT ![l] =
                        IF l \in SingleLoop THEN 0 ELSE loops[l] + 1]
  /\ n' = [n EXCEPT ![l] = dop]
  /\ left' = [left EXCEPT ![l] = ExtraNeeded(l, dop)]
  /\ Goto(l, "summon")
  /\ UNCHANGED <<tag_vars, queue, active, worker_idx, tasks_finished,
                 workers_in_loop, tasks, to_wait_for, worker_vars>>

\* PushBackWithTag to the queue of any worker.
SummonWorker(l) ==
  /\ At(l, "summon") /\ left[l] > 0
  /\ left' = [left EXCEPT ![l] = @ - 1]
  /\ \/ UNCHANGED <<queue, tasks>>
     \/ \E q \in Worker, s \in Slot :
          /\ queue[q][s] = Empty
          /\ queue' = [queue EXCEPT ![q][s] = [from |-> l, tag |-> tag[l]]]
          /\ tasks' = [tasks EXCEPT ![l] = Append(@, <<q, s>>)]
  /\ UNCHANGED <<tag_vars, section_vars, lpc, loops, n, to_wait_for, worker_vars>>

\* fn(0), and then no worker enters the loop any more.
LeaveLoop(l) ==
  /\ At(l, "summon") /\ left[l] = 0
  /\ current_loop' = [current_loop EXCEPT ![l] = 0]
  /\ Goto(l, IF l \in SingleLoop THEN "section" ELSE "drain")
  /\ UNCHANGED <<tag_vars, queue, active, worker_idx, tasks_finished,
                 workers_in_loop, tasks, loops, n, left, to_wait_for, worker_vars>>

\* A defective variant: the loop is left without waiting for the workers.
LoopDrained_NoWait(l) ==
  /\ At(l, "drain")
  /\ Goto(l, "section")
  /\ UNCHANGED <<tag_vars, queue, section_vars, tasks, loops, n, left,
                 to_wait_for, worker_vars>>

\* RunInParallelSection returns when no worker is in the loop.
LoopDrained(l) ==
  /\ At(l, "drain") /\ workers_in_loop[l] = 0
  /\ Goto(l, "section")
  /\ UNCHANGED <<tag_vars, queue, section_vars, tasks, loops, n, left,
                 to_wait_for, worker_vars>>

\* EndParallelSectionInternal.
EndParallelSection(l) ==
  /\ At(l, "section") /\ (l \in SingleLoop => loops[l] > 0)
  /\ active' = [active EXCEPT ![l] = FALSE]
  /\ to_wait_for' = [to_wait_for EXCEPT ![l] = Len(tasks[l])]
  /\ Goto(l, "revoke")
  /\ UNCHANGED <<tag_vars, queue, worker_idx, tasks_finished, current_loop,
                 workers_in_loop, tasks, loops, n, left, worker_vars>>

\* A defective variant: a task counts as revoked although it has started.
Revoke_AlwaysCounted(l) ==
  LET q == tasks[l][Len(tasks[l])][1]
      s == tasks[l][Len(tasks[l])][2]
  IN
  /\ At(l, "revoke") /\ tasks[l] # <<>>
  /\ tasks' = [tasks EXCEPT ![l] = SubSeq(@, 1, Len(@) - 1)]
  /\ to_wait_for' = [to_wait_for EXCEPT ![l] = @ - 1]
  /\ queue' = IF queue[q][s].tag = tag[l]
              THEN [queue EXCEPT ![q][s] = Empty] ELSE queue
  /\ UNCHANGED <<tag_vars, section_vars, lpc, loops, n, left, worker_vars>>

\* A defective variant: the revoked tasks are waited for.
Revoke_NotCounted(l) ==
  LET q == tasks[l][Len(tasks[l])][1]
      s == tasks[l][Len(tasks[l])][2]
  IN
  /\ At(l, "revoke") /\ tasks[l] # <<>>
  /\ tasks' = [tasks EXCEPT ![l] = SubSeq(@, 1, Len(@) - 1)]
  /\ queue' = IF queue[q][s].tag = tag[l]
              THEN [queue EXCEPT ![q][s] = Empty] ELSE queue
  /\ UNCHANGED <<tag_vars, section_vars, lpc, loops, n, left, to_wait_for,
                 worker_vars>>

\* RevokeWithTag(tag, w_idx), newest task first.
Revoke(l) ==
  LET q == tasks[l][Len(tasks[l])][1]
      s == tasks[l][Len(tasks[l])][2]
  IN
  /\ At(l, "revoke") /\ tasks[l] # <<>>
  /\ tasks' = [tasks EXCEPT ![l] = SubSeq(@, 1, Len(@) - 1)]
  /\ \/ /\ queue[q][s].tag = tag[l]
        /\ queue' = [queue EXCEPT ![q][s] = Empty]
        /\ to_wait_for' = [to_wait_for EXCEPT ![l] = @ - 1]
     \/ /\ queue[q][s].tag # tag[l]
        /\ UNCHANGED <<queue, to_wait_for>>
  /\ UNCHANGED <<tag_vars, section_vars, lpc, loops, n, left, worker_vars>>

\* EndParallelSectionInternal returns and the section is deallocated; the
\* next one is a new object.
SectionDone(l) ==
  /\ At(l, "revoke") /\ tasks[l] = <<>>
  /\ tasks_finished[l] >= to_wait_for[l]
  /\ tasks_finished' = [tasks_finished EXCEPT ![l] = 0]
  /\ to_wait_for' = [to_wait_for EXCEPT ![l] = 0]
  /\ worker_idx' = [worker_idx EXCEPT ![l] = 0]
  /\ loops' = [loops EXCEPT ![l] = 0]
  /\ n' = [n EXCEPT ![l] = 0]
  /\ Goto(l, "idle")
  /\ UNCHANGED <<tag_vars, queue, active, current_loop, workers_in_loop, tasks,
                 left, worker_vars>>

\* What a leader inside a section goes on to do.
LeaderStep(l) ==
  \/ EnterLoop(l) \/ SummonWorker(l) \/ LeaveLoop(l) \/ LoopDrained(l)
  \/ EndParallelSection(l) \/ Revoke(l) \/ SectionDone(l)

\* Somebody calls Schedule.
Schedule(q, s) ==
  /\ queue[q][s] = Empty
  /\ queue' = [queue EXCEPT ![q][s] = Plain]
  /\ UNCHANGED <<tag_vars, section_vars, leader_vars, worker_vars>>

-----------------------------------------------------------------------------
(***************************************************************************)
(* A worker, with the lambdas call_worker_fn and worker_fn.                *)
(***************************************************************************)

\* It takes a task from its own queue or steals one.
Take(w, q, s) ==
  /\ Is(w, "idle") /\ queue[q][s] # Empty
  /\ queue' = [queue EXCEPT ![q][s] = Empty]
  /\ job' = [job EXCEPT ![w] = queue[q][s].from]
  /\ Go(w, IF queue[q][s].from = Nobody THEN "idle" ELSE "index")
  /\ UNCHANGED <<tag_vars, section_vars, leader_vars, my_idx, work_item>>

\* A defective variant: the counter is read before it is incremented.
TakeIndex_PostIncrement(w) ==
  LET l == job[w]
  IN
  /\ Is(w, "index")
  /\ worker_idx' = [worker_idx EXCEPT ![l] = @ + 1]
  /\ my_idx' = [my_idx EXCEPT ![w] = worker_idx[l]]
  /\ Go(w, IF l \in SingleLoop THEN "fn" ELSE "test")
  /\ UNCHANGED <<tag_vars, queue, active, tasks_finished, current_loop,
                 workers_in_loop, leader_vars, job, work_item>>

TakeIndex(w) ==
  LET l == job[w]
  IN
  /\ Is(w, "index")
  /\ worker_idx' = [worker_idx EXCEPT ![l] = @ + 1]
  /\ my_idx' = [my_idx EXCEPT ![w] = worker_idx[l] + 1]
  /\ Go(w, IF l \in SingleLoop THEN "fn" ELSE "test")
  /\ UNCHANGED <<tag_vars, queue, active, tasks_finished, current_loop,
                 workers_in_loop, leader_vars, job, work_item>>

TestActive(w) ==
  /\ Is(w, "test")
  /\ Go(w, IF active[job[w]] THEN "peek" ELSE "finish")
  /\ UNCHANGED <<tag_vars, queue, section_vars, leader_vars, job, my_idx, work_item>>

Peek(w) ==
  /\ Is(w, "peek")
  /\ Go(w, IF current_loop[job[w]] = 0 THEN "test" ELSE "join")
  /\ UNCHANGED <<tag_vars, queue, section_vars, leader_vars, job, my_idx, work_item>>

JoinLoop(w) ==
  /\ Is(w, "join")
  /\ workers_in_loop' = [workers_in_loop EXCEPT ![job[w]] = @ + 1]
  /\ Go(w, "read")
  /\ UNCHANGED <<tag_vars, queue, active, worker_idx, tasks_finished,
                 current_loop, leader_vars, job, my_idx, work_item>>

ReadLoop(w) ==
  LET l == job[w]
  IN
  /\ Is(w, "read")
  /\ work_item' = [work_item EXCEPT ![w] = current_loop[l]]
  /\ Go(w, IF current_loop[l] # 0 /\ my_idx[w] < n[l] THEN "fn" ELSE "skip")
  /\ UNCHANGED <<tag_vars, queue, section_vars, leader_vars, job, my_idx>>

\* fn(my_idx), if the loop is for this worker, has returned.
QuitLoop(w) ==
  /\ Is(w, "skip") \/ (Is(w, "fn") /\ job[w] \notin SingleLoop)
  /\ workers_in_loop' = [workers_in_loop EXCEPT ![job[w]] = @ - 1]
  /\ work_item' = [work_item EXCEPT ![w] = 0]
  /\ Go(w, "test")
  /\ UNCHANGED <<tag_vars, queue, active, worker_idx, tasks_finished,
                 current_loop, leader_vars, job, my_idx>>

FinishTask(w) ==
  /\ Is(w, "finish") \/ (Is(w, "fn") /\ job[w] \in SingleLoop)
  /\ tasks_finished' = [tasks_finished EXCEPT ![job[w]] = @ + 1]
  /\ job' = [job EXCEPT ![w] = Nobody]
  /\ my_idx' = [my_idx EXCEPT ![w] = 0]
  /\ Go(w, "idle")
  /\ UNCHANGED <<tag_vars, queue, active, worker_idx, current_loop,
                 workers_in_loop, leader_vars, work_item>>

WorkerStep(w) ==
  \/ \E q \in Worker, s \in Slot : Take(w, q, s)
  \/ TakeIndex(w) \/ TestActive(w) \/ Peek(w) \/ JoinLoop(w) \/ ReadLoop(w)
  \/ QuitLoop(w) \/ FinishTask(w)

Next ==
  \/ \E l \in Leader : StartParallelSection(l) \/ LeaderStep(l)
  \/ \E w \in Worker : WorkerStep(w)
  \/ \E q \in Scheduled, s \in Slot : Schedule(q, s)

Spec == Init /\ [][Next]_vars

\* Every thread that is in a section keeps going; nobody has to start one.
LiveSpec ==
  /\ Spec
  /\ \A l \in Leader : WF_vars(LeaderStep(l))
  /\ \A w \in Worker : WF_vars(WorkerStep(w))

-----------------------------------------------------------------------------
InSection(l) == {w \in Worker : job[w] = l}
Pushed(l) == {p \in Worker \X Slot : queue[p[1]][p[2]].from = l}

TypeOK ==
  /\ next_tag \in 0..(TAG_SPACE - 1) /\ tag \in [Leader -> 0..(TAG_SPACE - 1)]
  /\ queue \in [Worker -> [Slot -> [from: Leader \cup {Nobody}, tag: -1..(TAG_SPACE - 1)]]]
  /\ lpc \in [Leader -> {"idle", "section", "summon", "drain", "revoke"}]
  /\ active \in [Leader -> BOOLEAN]
  /\ worker_idx \in [Leader -> Nat] /\ tasks_finished \in [Leader -> Nat]
  /\ current_loop \in [Leader -> Nat] /\ loops \in [Leader -> Nat]
  /\ \A l \in Leader : current_loop[l] \in {0, loops[l]}
  /\ workers_in_loop \in [Leader -> 0..Cardinality(Worker)]
  /\ tasks \in [Leader -> Seq(Worker \X Slot)]
  /\ n \in [Leader -> Nat] /\ left \in [Leader -> Nat]
  /\ to_wait_for \in [Leader -> Nat]
  /\ wpc \in [Worker -> {"idle", "index", "test", "peek", "join", "read", "fn",
                         "skip", "finish"}]
  /\ job \in [Worker -> Leader \cup {Nobody}] /\ my_idx \in [Worker -> Nat]
  /\ work_item \in [Worker -> Nat]

\* When EndParallelSection has returned, no worker is in the section and no
\* queue holds a task that refers to it: nothing touches the deallocated object.
SectionOutlivesWorkers ==
  \A l \in Leader : At(l, "idle") => InSection(l) = {} /\ Pushed(l) = {}

\* A worker that runs fn of a loop runs it while RunInParallelSection, whose
\* stack holds the loop, has not returned from that very loop.
LoopOutlivesReaders ==
  \A w \in Worker :
    Is(w, "fn") /\ job[w] \notin SingleLoop =>
      /\ lpc[job[w]] \in {"summon", "drain"}
      /\ work_item[w] = loops[job[w]]

\* The workers of a section have different indices, none of which is the
\* leader's 0, and run a loop only with an index below its n.  (With the types
\* of all variables.)
IndicesDistinct ==
  /\ TypeOK
  /\ \A w \in Worker :
       /\ \A v \in Worker \ {w} :
            job[v] = job[w] /\ job[w] # Nobody /\ my_idx[w] # 0
              => my_idx[v] # my_idx[w]
       /\ Is(w, "fn") => my_idx[w] \in 1..(n[job[w]] - 1)

\* A leader revokes tasks of its own section only, although it names them by
\* a position that may hold another task by now: not another leader's task,
\* which that leader counts on, and not a task of Schedule, which must run.
RevokesOnlyItsOwn ==
  [][\A l \in Leader :
       Len(tasks'[l]) < Len(tasks[l]) =>
         \A q \in Worker, s \in Slot :
           queue'[q][s] # queue[q][s] => queue[q][s].from = l]_vars

\* Whoever leads a section gets out of it: the leader never waits for a worker
\* that will not leave the loop, or for a task that will not finish.
SectionEnds == \A l \in Leader : ~At(l, "idle") ~> At(l, "idle")
=============================================================================
