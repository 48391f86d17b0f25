----------------------------- MODULE ThreadPool -----------------------------
(***************************************************************************)
(* adl::threadPool (src/base/threadPool.h): workers that take tasks from a *)
(* queue under m_mutex and wait on cv_task when there are none, clients    *)
(* and running tasks that call addTask, and the owner that destroys the    *)
(* pool when no client is inside addTask any more (a task may still be).   *)
(*                                                                         *)
(* The destructor stores running_state without m_mutex, so the predicate   *)
(* of cv_task.wait and the wait itself are separate steps.  packaged_task  *)
(* and future only carry the result and are left out; idlThrNum counts     *)
(* the workers that run no task and is read by idlCount alone.             *)
(***************************************************************************)
EXTENDS Naturals, Sequences, FiniteSets, Functions

CONSTANTS
  Workers,
  Clients,
  Tasks,            \* the tasks that are added, each of them once
  NoTask            \* an empty std::function

ASSUME ClientsAssumption == Clients \cap Workers = {}
ASSUME WorkersAssumption == IsFiniteSet(Workers) /\ Workers # {}
ASSUME NoTaskAssumption == NoTask \notin Tasks

VARIABLES
  tasks,
  running_state,
  idlThrNum,
  holder,           \* the worker inside the critical section, if any
  waiting,          \* the workers blocked in cv_task.wait
  wpc,              \* where each worker is
  task,             \* its local variable: the task it has taken
  cpc,              \* where each thread is in addTask
  owner,            \* where the destructor is
  taken,            \* history: the tasks taken from the queue, in order
  started           \* history: the tasks that were called, in order

hands == <<task, taken, started>>

vars == <<tasks, running_state, idlThrNum, holder, waiting, wpc, cpc, owner, hands>>

Callers == Clients \cup Workers          \* a task may call addTask itself

WPCs == {"while", "lock", "test", "wait", "blocked", "take", "got", "run", "exit"}

TypeOK ==
  /\ tasks \in Seq(Tasks) /\ taken \in Seq(Tasks) /\ started \in Seq(Tasks)
  /\ running_state \in BOOLEAN
  /\ idlThrNum \in 0..Cardinality(Workers)
  /\ holder \subseteq Workers /\ \A v, w \in holder : v = w
  /\ waiting \subseteq Workers
  /\ wpc \in [Workers -> WPCs] /\ task \in [Workers -> Tasks \cup {NoTask}]
  /\ cpc \in [Callers -> {"out", "push", "notify"}]
  /\ owner \in {"using", "notify", "join", "done"}

Init ==
  /\ tasks = << >> /\ taken = << >> /\ started = << >>
  /\ running_state = TRUE
  /\ idlThrNum = Cardinality(Workers)
  /\ holder = {} /\ waiting = {}
  /\ wpc = [w \in Workers |-> "while"] /\ task = [w \in Workers |-> NoTask]
  /\ cpc = [c \in Callers |-> "out"]
  /\ owner = "using"

-----------------------------------------------------------------------------
WorkerAt(w, from, to) == wpc[w] = from /\ wpc' = [wpc EXCEPT ![w] = to]

\* while (running_state)
While(w) ==
  /\ WorkerAt(w, "while", IF running_state THEN "lock" ELSE "exit")
  /\ UNCHANGED <<tasks, running_state, idlThrNum, holder, waiting, cpc, owner, hands>>

\* Takes m_mutex, at first or when cv_task.wait returns.
Lock(w) ==
  /\ holder = {}
  /\ WorkerAt(w, "lock", "test")
  /\ holder' = {w}
  /\ UNCHANGED <<tasks, running_state, idlThrNum, waiting, cpc, owner, hands>>

\* The predicate of cv_task.wait, then the test that ends the worker.
Test_TakeIfStopped(w) ==                 \* mutant: no second test
  /\ WorkerAt(w, "test", IF running_state /\ tasks = << >> THEN "wait" ELSE "take")
  /\ UNCHANGED <<tasks, running_state, idlThrNum, holder, waiting, cpc, owner, hands>>

Test(w) ==
  /\ WorkerAt(w, "test", CASE tasks # << >> -> "take"
                           [] tasks = << >> /\ running_state -> "wait"
                           [] OTHER -> "exit")
  /\ holder' = IF wpc'[w] = "exit" THEN {} ELSE holder
  /\ UNCHANGED <<tasks, running_state, idlThrNum, waiting, cpc, owner, hands>>

\* cv_task.wait releases m_mutex and blocks in one step.
Wait(w) ==
  /\ WorkerAt(w, "wait", "blocked")
  /\ holder' = {}
  /\ waiting' = waiting \cup {w}
  /\ UNCHANGED <<tasks, running_state, idlThrNum, cpc, owner, hands>>

\* A blocked worker returns from the wait: notified, or spuriously.
Woken(w) ==
  /\ w \notin waiting
  /\ WorkerAt(w, "blocked", "lock")
  /\ UNCHANGED <<tasks, running_state, idlThrNum, holder, waiting, cpc, owner, hands>>

Spurious(w) ==
  /\ w \in waiting
  /\ waiting' = waiting \ {w}
  /\ UNCHANGED <<tasks, running_state, idlThrNum, holder, wpc, cpc, owner, hands>>

Take_KeepsTask(w) ==                     \* mutant: front() without pop()
  /\ WorkerAt(w, "take", "got")
  /\ task' = [task EXCEPT ![w] = Head(tasks)]
  /\ taken' = Append(taken, Head(tasks))
  /\ holder' = {}
  /\ UNCHANGED <<tasks, running_state, idlThrNum, waiting, cpc, owner, started>>

Take(w) ==
  /\ WorkerAt(w, "take", "got")
  /\ task' = [task EXCEPT ![w] = Head(tasks)]
  /\ tasks' = Tail(tasks)
  /\ taken' = Append(taken, Head(tasks))
  /\ holder' = {}
  /\ UNCHANGED <<running_state, idlThrNum, waiting, cpc, owner, started>>

\* The task is called after m_mutex was released: another worker may have taken a
\* later task, and called it, in between.
RunTask(w) ==
  /\ WorkerAt(w, "got", "run")
  /\ idlThrNum' = idlThrNum - 1
  /\ started' = Append(started, task[w])
  /\ UNCHANGED <<tasks, running_state, holder, waiting, task, cpc, owner, taken>>

\* The task returns, and the function object dies with the pass of the loop.
TaskDone(w) ==
  /\ cpc[w] = "out"
  /\ WorkerAt(w, "run", "while")
  /\ idlThrNum' = idlThrNum + 1
  /\ task' = [task EXCEPT ![w] = NoTask]
  /\ UNCHANGED <<tasks, running_state, holder, waiting, cpc, owner, taken, started>>

-----------------------------------------------------------------------------
(***************************************************************************)
(* addTask.  A call that finds running_state false throws and changes      *)
(* nothing.                                                                *)
(***************************************************************************)
CallerAt(c, from, to) == cpc[c] = from /\ cpc' = [cpc EXCEPT ![c] = to]

Fresh    == Tasks \ (Range(tasks) \cup Range(taken))

AddTask(c) ==
  /\ c \in Clients => owner = "using"
  /\ c \in Workers => wpc[c] = "run"
  /\ running_state
  /\ Cardinality({d \in Callers : cpc[d] = "push"}) < Cardinality(Fresh)
  /\ CallerAt(c, "out", "push")
  /\ UNCHANGED <<tasks, running_state, idlThrNum, holder, waiting, wpc, owner, hands>>

Push(c) ==
  /\ holder = {}
  /\ CallerAt(c, "push", "notify")
  /\ \E t \in Fresh : tasks' = Append(tasks, t)
  /\ UNCHANGED <<running_state, idlThrNum, holder, waiting, wpc, owner, hands>>

NotifyOne_Nobody(c) ==                   \* mutant: the notification is forgotten
  /\ CallerAt(c, "notify", "out")
  /\ UNCHANGED <<tasks, running_state, idlThrNum, holder, waiting, wpc, owner, hands>>

NotifyOne(c) ==
  /\ CallerAt(c, "notify", "out")
  /\ \/ waiting = {} /\ UNCHANGED waiting
     \/ \E w \in waiting : waiting' = waiting \ {w}
  /\ UNCHANGED <<tasks, running_state, idlThrNum, holder, wpc, owner, hands>>

-----------------------------------------------------------------------------
(***************************************************************************)
(* ~threadPool: running_state.store(false) without m_mutex, notify_all,    *)
(* and a join of every worker.                                             *)
(***************************************************************************)
DtorStore ==
  /\ owner = "using"
  /\ \A c \in Clients : cpc[c] = "out"
  /\ running_state' = FALSE
  /\ owner' = "notify"
  /\ UNCHANGED <<tasks, idlThrNum, holder, waiting, wpc, cpc, hands>>

DtorNotifyAll ==
  /\ owner = "notify"
  /\ waiting' = {}
  /\ owner' = "join"
  /\ UNCHANGED <<tasks, running_state, idlThrNum, holder, wpc, cpc, hands>>

DtorJoin ==
  /\ owner = "join"
  /\ \A w \in Workers : wpc[w] = "exit"
  /\ owner' = "done"
  /\ UNCHANGED <<tasks, running_state, idlThrNum, holder, waiting, wpc, cpc, hands>>

Destroyed == owner = "done" /\ UNCHANGED vars

-----------------------------------------------------------------------------
WorkerStep(w) ==
  \/ While(w) \/ Lock(w) \/ Test(w) \/ Wait(w) \/ Woken(w)
  \/ Take(w) \/ RunTask(w) \/ TaskDone(w)

Next ==
  \/ \E w \in Workers : WorkerStep(w) \/ Spurious(w)
  \/ \E c \in Callers : AddTask(c) \/ Push(c) \/ NotifyOne(c)
  \/ DtorStore \/ DtorNotifyAll \/ DtorJoin \/ Destroyed

Spec == Init /\ [][Next]_vars

(***************************************************************************)
(* Threads are scheduled, tasks end and a call of addTask returns.  Nobody *)
(* has to call addTask, to destroy the pool or to wake up spuriously, and  *)
(* m_mutex is not fair.                                                    *)
(***************************************************************************)
Fairness ==
  /\ \A w \in Workers : WF_vars(WorkerStep(w))
  /\ \A c \in Callers : WF_vars(Push(c)) /\ WF_vars(NotifyOne(c))
  /\ WF_vars(DtorNotifyAll \/ DtorJoin)

FairSpec == Spec /\ Fairness

-----------------------------------------------------------------------------
\* tasks.front() and tasks.pop() are never called on an empty queue, even when
\* the pool is stopped between the wait and the two calls.
NoEmptyPop == \A w \in Workers : wpc[w] = "take" => tasks # << >>

\* No task of a running pool is stranded: when one is queued and every addTask
\* has returned, some worker is not asleep in cv_task.wait.  One notify_one per
\* task, after the unlock, is enough.
NoStrandedTask ==
  running_state /\ tasks # << >> /\ (\A c \in Callers : cpc[c] # "notify")
    => \E w \in Workers : w \notin waiting

\* m_mutex is held exactly between the lock and the pop, the wait or the exit, and
\* nobody pushes between a worker's test and its wait.
MutexInv ==
  /\ \A w \in Workers : w \in holder <=> wpc[w] \in {"test", "wait", "take"}
  /\ \A w \in Workers : wpc[w] = "wait" => tasks = << >>
  /\ \A w \in waiting : wpc[w] = "blocked"

\* idlThrNum counts the workers that run no task, whatever the interleaving of
\* its increments and decrements.
IdleCount == idlThrNum = Cardinality({w \in Workers : wpc[w] # "run"})

\* A task is in one place only: in the queue, in the hands of one worker between the
\* pop and the call, or called.
Got == {w \in Workers : wpc[w] = "got"}

OnePlace ==
  /\ IsInjective(tasks) /\ IsInjective(taken)
  /\ Range(tasks) \cap Range(taken) = {}
  /\ Range(started) \subseteq Range(taken)
  /\ Range(taken) \ Range(started) = {task[w] : w \in Got}
  /\ \A v, w \in Got : task[v] = task[w] => v = w

\* All of it, with the types.
PoolInv == TypeOK /\ MutexInv /\ IdleCount /\ NoEmptyPop /\ NoStrandedTask /\ OnePlace

\* A task is called at most once, and when it is called all but (number of workers - 1)
\* of those that addTask pushed before it have been called: the workers take the
\* tasks in order, but a worker that is slow between the pop and the call is overtaken.
Abstract == INSTANCE WorkerPool WITH Width <- Cardinality(Workers), submitted <- taken \o tasks

ImplementsWorkerPool == Abstract!Spec

\* Every task that addTask has queued is called by a worker, unless the pool is destroyed.
TasksRun ==
  \A t \in Tasks : t \in Range(tasks) ~> (t \in Range(started) \/ ~running_state)

\* threadPool.h:46: the destructor tells every worker to end, and joins them.
DestructorReturns == (owner = "notify") ~> (owner = "done")
=============================================================================
