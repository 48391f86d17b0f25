-------------------------- MODULE ThreadPoolProofs --------------------------
(***************************************************************************)
(* Proofs about ThreadPool for any number of workers, clients and tasks:   *)
(* the invariant PoolInv, which is inductive, and the refinement of        *)
(* WorkerPool.                                                             *)
(***************************************************************************)
EXTENDS ThreadPool, FiniteSetTheorems, TLAPS

\* The workers that run no task.
IdleWorkers == {w \in Workers : wpc[w] # "run"}

\* The types hold at the start.
LEMMA InitType == Init => TypeOK
<1>1. Cardinality(Workers) \in Nat
  BY WorkersAssumption, FS_CardinalityType
<1> QED BY <1>1, NoTaskAssumption DEF Init, TypeOK, WPCs

\* The invariant holds at the start, before a worker has run.
LEMMA InitPool == Init => PoolInv
<1> SUFFICES ASSUME Init PROVE PoolInv
  OBVIOUS
<1>1. IdleWorkers = Workers
  BY DEF Init, IdleWorkers
<1>2. OnePlace
  BY DEF Init, OnePlace, Got, Range, IsInjective
<1> QED BY <1>1, <1>2, WorkersAssumption, InitType
       DEF Init, PoolInv, MutexInv, IdleCount, IdleWorkers, NoEmptyPop, NoStrandedTask

\* Mutual exclusion, and what is known of the queue under m_mutex.
LEMMA MutexStep ==
  TypeOK /\ MutexInv /\ NoEmptyPop /\ [Next]_vars => MutexInv' /\ NoEmptyPop'
<1> SUFFICES ASSUME TypeOK, MutexInv, NoEmptyPop, [Next]_vars
             PROVE  MutexInv' /\ NoEmptyPop'
  OBVIOUS
<1> USE DEF MutexInv, NoEmptyPop, WPCs
<1>1. ASSUME NEW w \in Workers, While(w) PROVE MutexInv' /\ NoEmptyPop'
  BY <1>1 DEF While, WorkerAt, TypeOK
<1>2. ASSUME NEW w \in Workers, Lock(w) PROVE MutexInv' /\ NoEmptyPop'
  BY <1>2 DEF Lock, WorkerAt, TypeOK
<1>3. ASSUME NEW w \in Workers, Test(w) PROVE MutexInv' /\ NoEmptyPop'
  <2>1. wpc[w] = "test" /\ UNCHANGED <<tasks, waiting>>
    BY <1>3 DEF Test, WorkerAt
  <2>2. \A v \in Workers : v # w => wpc'[v] = wpc[v] /\ v \notin holder
    BY <1>3, <2>1 DEF Test, WorkerAt, TypeOK
  <2>3. CASE tasks # << >>
    <3>1. wpc'[w] = "take" /\ holder' = holder
      BY <1>3, <2>3 DEF Test, WorkerAt, TypeOK
    <3> QED BY <2>1, <2>2, <2>3, <3>1 DEF TypeOK
  <2>4. CASE tasks = << >> /\ running_state
    <3>1. wpc'[w] = "wait" /\ holder' = holder
      BY <1>3, <2>4 DEF Test, WorkerAt, TypeOK
    <3> QED BY <2>1, <2>2, <2>4, <3>1 DEF TypeOK
  <2>5. CASE tasks = << >> /\ ~running_state
    <3>1. wpc'[w] = "exit" /\ holder' = {}
      BY <1>3, <2>5 DEF Test, WorkerAt, TypeOK
    <3> QED BY <2>1, <2>2, <2>5, <3>1 DEF TypeOK
  <2> QED BY <2>3, <2>4, <2>5
<1>4. ASSUME NEW w \in Workers, Wait(w) PROVE MutexInv' /\ NoEmptyPop'
  BY <1>4 DEF Wait, WorkerAt, TypeOK
<1>5. ASSUME NEW w \in Workers, Woken(w) PROVE MutexInv' /\ NoEmptyPop'
  BY <1>5 DEF Woken, WorkerAt, TypeOK
<1>6. ASSUME NEW w \in Workers, Take(w) PROVE MutexInv' /\ NoEmptyPop'
  BY <1>6 DEF Take, WorkerAt, TypeOK
<1>7. ASSUME NEW w \in Workers, RunTask(w) PROVE MutexInv' /\ NoEmptyPop'
  BY <1>7 DEF RunTask, WorkerAt, TypeOK
<1>8. ASSUME NEW w \in Workers, TaskDone(w) PROVE MutexInv' /\ NoEmptyPop'
  BY <1>8 DEF TaskDone, WorkerAt, TypeOK
<1>9. ASSUME NEW w \in Workers, Spurious(w) PROVE MutexInv' /\ NoEmptyPop'
  BY <1>9 DEF Spurious, TypeOK
<1>10. ASSUME NEW c \in Callers, AddTask(c) PROVE MutexInv' /\ NoEmptyPop'
  BY <1>10 DEF AddTask
<1>11. ASSUME NEW c \in Callers, Push(c) PROVE MutexInv' /\ NoEmptyPop'
  \* m_mutex is free: no worker is between its test and its pop.
  BY <1>11 DEF Push, TypeOK
<1>12. ASSUME NEW c \in Callers, NotifyOne(c) PROVE MutexInv' /\ NoEmptyPop'
  BY <1>12 DEF NotifyOne, TypeOK
<1>13. ASSUME DtorStore \/ DtorNotifyAll \/ DtorJoin PROVE MutexInv' /\ NoEmptyPop'
  BY <1>13 DEF DtorStore, DtorNotifyAll, DtorJoin
<1>14. CASE UNCHANGED vars
  BY <1>14 DEF vars
<1> QED
  BY <1>1, <1>2, <1>3, <1>4, <1>5, <1>6, <1>7, <1>8, <1>9, <1>10, <1>11, <1>12, <1>13, <1>14
  DEF Next, WorkerStep, Destroyed

-----------------------------------------------------------------------------
\* A worker that starts or ends its task leaves or joins the idle ones, and their
\* number changes by one.
LEMMA CountIdle ==
  ASSUME NEW W, W \subseteq Workers, NEW w \in Workers
  PROVE  /\ Cardinality(W) \in Nat /\ Cardinality(W) <= Cardinality(Workers)
         /\ Cardinality(Workers) \in Nat
         /\ w \notin W => Cardinality(W \cup {w}) = Cardinality(W) + 1
         /\ w \in W => Cardinality(W \ {w}) = Cardinality(W) - 1
<1>1. IsFiniteSet(Workers) /\ IsFiniteSet(W)
  BY WorkersAssumption, FS_Subset
<1>2. Cardinality(W) \in Nat /\ Cardinality(Workers) \in Nat
  BY <1>1, FS_CardinalityType
<1>3. Cardinality(W) <= Cardinality(Workers)
  BY <1>1, FS_Subset
<1>4. w \notin W => Cardinality(W \cup {w}) = Cardinality(W) + 1
  BY <1>1, FS_AddElement
<1>5. w \in W => Cardinality(W \ {w}) = Cardinality(W) - 1
  BY <1>1, FS_RemoveElement
<1> QED BY <1>2, <1>3, <1>4, <1>5

\* A step that moves no worker to or from its task leaves the idle ones alone.
LEMMA SameIdle ==
  ASSUME IdleCount, UNCHANGED idlThrNum, wpc' \in [Workers -> WPCs],
         \A w \in Workers : wpc'[w] = "run" <=> wpc[w] = "run"
  PROVE  IdleCount'
<1>1. IdleWorkers' = IdleWorkers
  BY DEF IdleWorkers
<1> QED BY <1>1 DEF IdleCount, IdleWorkers

\* idlThrNum counts the workers that are not in a task.
LEMMA IdleStep == TypeOK /\ IdleCount /\ [Next]_vars => IdleCount'
<1> SUFFICES ASSUME TypeOK, IdleCount, [Next]_vars PROVE IdleCount'
  OBVIOUS
<1> USE DEF WPCs
<1>1. ASSUME NEW w \in Workers, RunTask(w) PROVE IdleCount'
  <2>1. w \in IdleWorkers /\ IdleWorkers' = IdleWorkers \ {w}
    BY <1>1 DEF RunTask, WorkerAt, TypeOK, IdleWorkers
  <2>2. IdleWorkers \subseteq Workers
    BY DEF IdleWorkers
  <2>3. Cardinality(IdleWorkers') = Cardinality(IdleWorkers) - 1
    BY <2>1, <2>2, CountIdle
  <2> QED BY <1>1, <2>3 DEF RunTask, IdleCount, IdleWorkers
<1>2. ASSUME NEW w \in Workers, TaskDone(w) PROVE IdleCount'
  <2>1. w \notin IdleWorkers /\ IdleWorkers' = IdleWorkers \cup {w}
    BY <1>2 DEF TaskDone, WorkerAt, TypeOK, IdleWorkers
  <2>2. IdleWorkers \subseteq Workers
    BY DEF IdleWorkers
  <2>3. Cardinality(IdleWorkers') = Cardinality(IdleWorkers) + 1
    BY <2>1, <2>2, CountIdle
  <2> QED BY <1>2, <2>3 DEF TaskDone, IdleCount, IdleWorkers
<1>3. ASSUME NEW w \in Workers,
             While(w) \/ Lock(w) \/ Test(w) \/ Wait(w) \/ Woken(w) \/ Take(w)
      PROVE  IdleCount'
  <2>1. /\ UNCHANGED idlThrNum /\ wpc[w] # "run"
        /\ wpc' \in [Workers -> WPCs] /\ wpc'[w] # "run"
        /\ \A v \in Workers : v # w => wpc'[v] = wpc[v]
    <3>1. CASE While(w)
      BY <3>1 DEF While, WorkerAt, TypeOK
    <3>2. CASE Test(w)
      <4>1. PICK to \in {"take", "wait", "exit"} : WorkerAt(w, "test", to)
        BY <3>2 DEF Test, Zenon
      <4> QED BY <3>2, <4>1 DEF Test, WorkerAt, TypeOK
    <3>3. CASE Lock(w) \/ Wait(w) \/ Woken(w) \/ Take(w)
      BY <3>3 DEF Lock, Wait, Woken, Take, WorkerAt, TypeOK
    <3> QED BY <1>3, <3>1, <3>2, <3>3
  <2> QED BY <2>1, SameIdle
<1>4. ASSUME UNCHANGED <<idlThrNum, wpc>> PROVE IdleCount'
  BY <1>4, SameIdle DEF TypeOK
<1>5. ASSUME NEW w \in Workers, Spurious(w) PROVE UNCHANGED <<idlThrNum, wpc>>
  BY <1>5 DEF Spurious
<1>6. ASSUME NEW c \in Callers, AddTask(c) \/ Push(c) \/ NotifyOne(c)
      PROVE  UNCHANGED <<idlThrNum, wpc>>
  BY <1>6 DEF AddTask, Push, NotifyOne
<1>7. ASSUME DtorStore \/ DtorNotifyAll \/ DtorJoin PROVE UNCHANGED <<idlThrNum, wpc>>
  BY <1>7 DEF DtorStore, DtorNotifyAll, DtorJoin
<1>8. CASE UNCHANGED vars
  BY <1>4, <1>8 DEF vars
<1> QED
  BY <1>1, <1>2, <1>3, <1>4, <1>5, <1>6, <1>7, <1>8 DEF Next, WorkerStep, Destroyed

-----------------------------------------------------------------------------
\* The task of a worker between the pop and the call has been taken and not called.
LEMMA GotTask ==
  ASSUME TypeOK, OnePlace, NEW w \in Got
  PROVE  task[w] \in Range(taken) /\ task[w] \notin Range(started) /\ task[w] \in Tasks
<1>1. task[w] \in Range(taken) \ Range(started)
  BY DEF OnePlace
<1>2. Range(taken) \subseteq Tasks
  BY DEF Range, TypeOK
<1> QED BY <1>1, <1>2

\* The types; the range of idlThrNum is that of the number of idle workers.
LEMMA TypeStep == PoolInv /\ [Next]_vars => TypeOK'
<1> SUFFICES ASSUME PoolInv, [Next]_vars PROVE TypeOK'
  OBVIOUS
<1>n. idlThrNum' \in 0..Cardinality(Workers)
  <2>1. idlThrNum' = Cardinality(IdleWorkers')
    BY IdleStep DEF PoolInv, IdleCount, IdleWorkers
  <2>2. IdleWorkers' \subseteq Workers
    BY DEF IdleWorkers
  <2>3. PICK w : w \in Workers
    BY WorkersAssumption
  <2>4. PICK W : W = IdleWorkers'
    OBVIOUS
  <2>5. W \subseteq Workers
    BY <2>2, <2>4
  <2>6. /\ Cardinality(W) \in Nat /\ Cardinality(Workers) \in Nat
        /\ Cardinality(W) <= Cardinality(Workers)
    BY <2>3, <2>5, CountIdle
  <2>7. Cardinality(W) \in 0..Cardinality(Workers)
    BY <2>6
  <2> QED BY <2>1, <2>4, <2>7
<1> USE <1>n DEF TypeOK, PoolInv, WPCs, hands
<1>1. ASSUME NEW w \in Workers, While(w) PROVE TypeOK'
  BY <1>1 DEF While, WorkerAt
<1>2. ASSUME NEW w \in Workers, Lock(w) PROVE TypeOK'
  BY <1>2 DEF Lock, WorkerAt
<1>3. ASSUME NEW w \in Workers, Test(w) PROVE TypeOK'
  <2>1. PICK to \in {"take", "wait", "exit"} : WorkerAt(w, "test", to)
    BY <1>3 DEF Test, Zenon
  <2>2. holder' \in {holder, {}}
    BY <1>3 DEF Test, Zenon
  <2>3. UNCHANGED <<tasks, running_state, idlThrNum, waiting, cpc, owner, hands>>
    BY <1>3 DEF Test
  <2> QED BY <2>1, <2>2, <2>3 DEF WorkerAt
<1>4. ASSUME NEW w \in Workers, Wait(w) PROVE TypeOK'
  BY <1>4 DEF Wait, WorkerAt
<1>5. ASSUME NEW w \in Workers, Woken(w) PROVE TypeOK'
  BY <1>5 DEF Woken, WorkerAt
<1>6. ASSUME NEW w \in Workers, Take(w) PROVE TypeOK'
  <2>1. tasks # << >>
    BY <1>6 DEF Take, WorkerAt, NoEmptyPop
  <2>2. Head(tasks) \in Tasks /\ tasks' \in Seq(Tasks) /\ taken' \in Seq(Tasks)
    BY <1>6, <2>1 DEF Take
  <2> QED BY <1>6, <2>2 DEF Take, WorkerAt
<1>7. ASSUME NEW w \in Workers, RunTask(w) PROVE TypeOK'
  <2>1. task[w] \in Tasks
    BY <1>7, GotTask DEF RunTask, WorkerAt, Got
  <2> QED BY <1>7, <2>1 DEF RunTask, WorkerAt
<1>8. ASSUME NEW w \in Workers, TaskDone(w) PROVE TypeOK'
  BY <1>8 DEF TaskDone, WorkerAt
<1>9. ASSUME NEW w \in Workers, Spurious(w) PROVE TypeOK'
  BY <1>9 DEF Spurious
<1>10. ASSUME NEW c \in Callers, AddTask(c) PROVE TypeOK'
  BY <1>10 DEF AddTask, CallerAt
<1>11. ASSUME NEW c \in Callers, Push(c) PROVE TypeOK'
  <2>1. PICK t \in Tasks : tasks' = Append(tasks, t)
    BY <1>11 DEF Push, Fresh
  <2> QED BY <1>11, <2>1 DEF Push, CallerAt
<1>12. ASSUME NEW c \in Callers, NotifyOne(c) PROVE TypeOK'
  BY <1>12 DEF NotifyOne, CallerAt
<1>13. ASSUME DtorStore \/ DtorNotifyAll \/ DtorJoin PROVE TypeOK'
  BY <1>13 DEF DtorStore, DtorNotifyAll, DtorJoin
<1>14. CASE UNCHANGED vars
  BY <1>14 DEF vars
<1> QED
  BY <1>1, <1>2, <1>3, <1>4, <1>5, <1>6, <1>7, <1>8, <1>9, <1>10, <1>11, <1>12, <1>13, <1>14
  DEF Next, WorkerStep, Destroyed

-----------------------------------------------------------------------------
\* A worker goes to sleep only on an empty queue, a push is followed by a notify_one,
\* and a notify_one leaves at least one worker awake.
LEMMA StrandedStep == PoolInv /\ [Next]_vars => NoStrandedTask'
<1> SUFFICES ASSUME PoolInv, [Next]_vars PROVE NoStrandedTask'
  OBVIOUS
<1> USE DEF NoStrandedTask, PoolInv
<1>1. ASSUME NEW w \in Workers, While(w) \/ Lock(w) \/ Test(w) \/ Woken(w)
                                \/ RunTask(w) \/ TaskDone(w)
      PROVE  UNCHANGED <<running_state, tasks, cpc, waiting>>
  BY <1>1 DEF While, Lock, Test, Woken, RunTask, TaskDone
<1>2. ASSUME NEW w \in Workers, Wait(w) PROVE NoStrandedTask'
  <2>1. tasks' = << >>
    BY <1>2 DEF Wait, WorkerAt, MutexInv
  <2> QED BY <2>1
<1>3. ASSUME NEW w \in Workers, Take(w) PROVE NoStrandedTask'
  <2>1. tasks # << >>
    BY <1>3 DEF Take, WorkerAt, NoEmptyPop
  <2> QED BY <1>3, <2>1 DEF Take
<1>4. ASSUME NEW w \in Workers, Spurious(w) PROVE NoStrandedTask'
  BY <1>4 DEF Spurious
<1>5. ASSUME NEW c \in Callers, AddTask(c) PROVE NoStrandedTask'
  BY <1>5 DEF AddTask, CallerAt, TypeOK
<1>6. ASSUME NEW c \in Callers, Push(c) PROVE NoStrandedTask'
  <2>1. cpc'[c] = "notify"
    BY <1>6 DEF Push, CallerAt, TypeOK
  <2> QED BY <2>1
<1>7. ASSUME NEW c \in Callers, NotifyOne(c) PROVE NoStrandedTask'
  <2>1. \E w \in Workers : w \notin waiting'
    BY <1>7, WorkersAssumption DEF NotifyOne, TypeOK
  <2> QED BY <2>1
<1>8. CASE DtorStore
  BY <1>8 DEF DtorStore
<1>9. CASE DtorNotifyAll
  BY <1>9, WorkersAssumption DEF DtorNotifyAll
<1>10. CASE DtorJoin
  BY <1>10 DEF DtorJoin
<1>11. CASE UNCHANGED <<running_state, tasks, cpc, waiting>>
  BY <1>11
<1>12. CASE UNCHANGED vars
  BY <1>12 DEF vars
<1> QED
  BY <1>1, <1>2, <1>3, <1>4, <1>5, <1>6, <1>7, <1>8, <1>9, <1>10, <1>11, <1>12
  DEF Next, WorkerStep, Destroyed

-----------------------------------------------------------------------------
\* The elements of a sequence.
LEMMA InRange ==
  ASSUME NEW S, NEW s \in Seq(S)
  PROVE  \A y : y \in Range(s) <=> \E i \in 1..Len(s) : y = s[i]
BY DEF Range

\* What a push, a pop and a call do to the elements of a queue.
LEMMA Elements ==
  ASSUME NEW S, NEW s \in Seq(S), NEW x \in S
  PROVE  /\ Range(Append(s, x)) = Range(s) \cup {x}
         /\ IsInjective(s) /\ x \notin Range(s) => IsInjective(Append(s, x))
         /\ s # << >> => /\ Head(s) \in S /\ Range(s) = {Head(s)} \cup Range(Tail(s))
                         /\ IsInjective(s) => /\ IsInjective(Tail(s))
                                              /\ Head(s) \notin Range(Tail(s))
<1>1. Range(Append(s, x)) = Range(s) \cup {x}
  <2>1. PICK u : u = Append(s, x)
    OBVIOUS
  <2>2. u \in Seq(S) /\ Len(u) = Len(s) + 1 /\ u[Len(u)] = x /\ \A i \in 1..Len(s) : u[i] = s[i]
    BY <2>1
  <2>3. \A i \in 1..Len(u) : i \in 1..Len(s) \/ i = Len(u)
    BY <2>2
  <2>4. Len(u) \in 1..Len(u) /\ \A i \in 1..Len(s) : i \in 1..Len(u)
    BY <2>2
  <2>5. Range(u) \subseteq Range(s) \cup {x}
    BY <2>2, <2>3, InRange
  <2>6. Range(s) \cup {x} \subseteq Range(u)
    BY <2>2, <2>4, InRange
  <2> QED BY <2>1, <2>5, <2>6
<1>2. IsInjective(s) /\ x \notin Range(s) => IsInjective(Append(s, x))
  BY DEF Range, IsInjective
<1>3. ASSUME s # << >> PROVE Head(s) \in S /\ Range(s) = {Head(s)} \cup Range(Tail(s))
  <2>1. PICK t : t = Tail(s)
    OBVIOUS
  <2>2. /\ t \in Seq(S) /\ Len(s) = Len(t) + 1 /\ Head(s) = s[1]
        /\ \A i \in 1..Len(t) : t[i] = s[i + 1]
    BY <1>3, <2>1
  <2>3. \A i \in 1..Len(s) : i = 1 \/ (i - 1 \in 1..Len(t) /\ t[i - 1] = s[i])
    BY <2>2
  <2>r. /\ \A y : y \in Range(s) <=> \E i \in 1..Len(s) : y = s[i]
        /\ \A y : y \in Range(t) <=> \E i \in 1..Len(t) : y = t[i]
    BY <2>2, InRange, Zenon
  <2>s. 1 \in 1..Len(s) /\ \A i \in 1..Len(t) : i + 1 \in 1..Len(s)
    BY <2>2
  <2>4. Range(s) \subseteq {Head(s)} \cup Range(t)
    BY <2>2, <2>3, <2>r
  <2>5. {Head(s)} \cup Range(t) \subseteq Range(s)
    <3>1. Head(s) \in Range(s)
      BY <2>2, <2>r, <2>s
    <3>2. Range(t) \subseteq Range(s)
      BY <2>2, <2>r, <2>s
    <3> QED BY <3>1, <3>2
  <2> QED BY <1>3, <2>1, <2>4, <2>5
<1>4. ASSUME s # << >>, IsInjective(s)
      PROVE  IsInjective(Tail(s)) /\ Head(s) \notin Range(Tail(s))
  <2>1. PICK t : t = Tail(s)
    OBVIOUS
  <2>2. /\ t \in Seq(S) /\ Len(s) = Len(t) + 1 /\ Head(s) = s[1]
        /\ \A i \in 1..Len(t) : t[i] = s[i + 1]
    BY <1>4, <2>1
  <2>3. \A i, j \in 1..Len(s) : s[i] = s[j] => i = j
    BY <1>4 DEF IsInjective
  <2>4. \A i, j \in 1..Len(t) : t[i] = t[j] => i = j
    <3> SUFFICES ASSUME NEW i \in 1..Len(t), NEW j \in 1..Len(t), t[i] = t[j] PROVE i = j
      OBVIOUS
    <3>1. i + 1 \in 1..Len(s) /\ j + 1 \in 1..Len(s) /\ s[i + 1] = s[j + 1]
      BY <2>2
    <3>2. i + 1 = j + 1
      BY <2>3, <3>1
    <3> QED BY <3>2
  <2>5. \A i \in 1..Len(t) : t[i] # s[1]
    BY <2>2, <2>3
  <2> QED BY <2>1, <2>2, <2>4, <2>5 DEF IsInjective, Range
<1> QED BY <1>1, <1>2, <1>3, <1>4

\* A task moves from the queue to a worker and from the worker to those called.
LEMMA PlaceStep == PoolInv /\ [Next]_vars => OnePlace'
<1> SUFFICES ASSUME PoolInv, [Next]_vars PROVE OnePlace'
  OBVIOUS
<1>t. /\ tasks \in Seq(Tasks) /\ taken \in Seq(Tasks) /\ started \in Seq(Tasks)
      /\ wpc \in [Workers -> WPCs] /\ task \in [Workers -> Tasks \cup {NoTask}]
  BY DEF PoolInv, TypeOK
<1>o. /\ IsInjective(tasks) /\ IsInjective(taken)
      /\ Range(tasks) \cap Range(taken) = {}
      /\ Range(started) \subseteq Range(taken)
      /\ Range(taken) \ Range(started) = {task[w] : w \in Got}
      /\ \A v, w \in Got : task[v] = task[w] => v = w
  BY DEF PoolInv, OnePlace
<1>e. \A x \in Tasks :
        /\ Range(Append(tasks, x)) = Range(tasks) \cup {x}
        /\ Range(Append(taken, x)) = Range(taken) \cup {x}
        /\ Range(Append(started, x)) = Range(started) \cup {x}
        /\ x \notin Range(tasks) => IsInjective(Append(tasks, x))
        /\ x \notin Range(taken) => IsInjective(Append(taken, x))
  BY <1>t, <1>o, Elements
<1>f. tasks # << >> => /\ Head(tasks) \in Tasks
                       /\ Range(tasks) = {Head(tasks)} \cup Range(Tail(tasks))
                       /\ IsInjective(Tail(tasks)) /\ Head(tasks) \notin Range(Tail(tasks))
  <2>1. \A x \in Tasks : tasks # << >> =>
          /\ Head(tasks) \in Tasks
          /\ Range(tasks) = {Head(tasks)} \cup Range(Tail(tasks))
          /\ IsInjective(Tail(tasks)) /\ Head(tasks) \notin Range(Tail(tasks))
    BY <1>t, <1>o, Elements
  <2>2. tasks # << >> => Head(tasks) \in Tasks
    BY <1>t
  <2> QED BY <2>1, <2>2
<1>1. ASSUME NEW w \in Workers, Take(w) PROVE OnePlace'
  <2>1. tasks # << >>
    BY <1>1 DEF Take, WorkerAt, PoolInv, NoEmptyPop
  <2>2. PICK x \in Tasks : x = Head(tasks)
    BY <1>f, <2>1
  <2>3. /\ tasks' = Tail(tasks) /\ taken' = Append(taken, x) /\ started' = started
        /\ task' = [task EXCEPT ![w] = x]
    BY <1>1, <2>2 DEF Take
  <2>4. Got' = Got \cup {w} /\ w \notin Got /\ Got \subseteq Workers
    BY <1>1, <1>t DEF Take, WorkerAt, Got
  <2>5. task'[w] = x /\ \A v \in Got : task'[v] = task[v]
    BY <1>t, <2>3, <2>4
  <2>6. /\ x \notin Range(taken) /\ Range(taken') = Range(taken) \cup {x}
        /\ x \notin Range(tasks') /\ Range(tasks') \subseteq Range(tasks)
        /\ IsInjective(tasks') /\ IsInjective(taken')
    BY <1>e, <1>f, <1>o, <2>1, <2>2, <2>3
  <2>7. \A v \in Got : task[v] \in Range(taken)
    BY <1>o
  <2>8. \A v \in Got : task'[v] # task'[w]
    BY <2>5, <2>6, <2>7
  <2>9. {task'[v] : v \in Got'} = {task[v] : v \in Got} \cup {x}
    BY <2>4, <2>5
  <2>10. Range(taken') \ Range(started') = {task'[v] : v \in Got'}
    <3>1. x \notin Range(started)
      BY <1>o, <2>6
    <3>2. Range(taken') \ Range(started') = (Range(taken) \ Range(started)) \cup {x}
      BY <2>3, <2>6, <3>1
    <3> QED BY ONLY <1>o, <2>9, <3>2
  <2>11. \A v, u \in Got' : task'[v] = task'[u] => v = u
    BY <1>o, <2>4, <2>5, <2>8
  <2> QED BY <1>o, <2>3, <2>6, <2>10, <2>11 DEF OnePlace
<1>2. ASSUME NEW w \in Workers, RunTask(w) PROVE OnePlace'
  <2>1. w \in Got
    BY <1>2 DEF RunTask, WorkerAt, Got
  <2>2. PICK x \in Tasks : x = task[w] /\ x \in Range(taken) /\ x \notin Range(started)
    BY <2>1, GotTask DEF PoolInv
  <2>3. UNCHANGED <<tasks, taken, task>> /\ started' = Append(started, x)
    BY <1>2, <2>2 DEF RunTask
  <2>4. Got' = Got \ {w}
    BY <1>2, <1>t DEF RunTask, WorkerAt, Got
  <2>5. Range(started') = Range(started) \cup {x}
    BY <1>e, <2>3
  <2>6. {task[v] : v \in Got \ {w}} = {task[v] : v \in Got} \ {x}
    BY <1>o, <2>1, <2>2
  <2>7. Range(taken) \ Range(started') = {task[v] : v \in Got \ {w}}
    BY <1>o, <2>5, <2>6
  <2> QED BY <1>o, <2>2, <2>3, <2>4, <2>5, <2>7 DEF OnePlace
<1>3. ASSUME NEW w \in Workers, TaskDone(w) PROVE OnePlace'
  <2>1. UNCHANGED <<tasks, taken, started>> /\ task' = [task EXCEPT ![w] = NoTask]
    BY <1>3 DEF TaskDone
  <2>2. Got' = Got /\ w \notin Got /\ Got \subseteq Workers
    BY <1>3, <1>t DEF TaskDone, WorkerAt, Got
  <2>3. \A v \in Got : task'[v] = task[v]
    BY <1>t, <2>1, <2>2
  <2>4. {task'[v] : v \in Got'} = {task[v] : v \in Got}
    BY <2>2, <2>3
  <2> QED BY <1>o, <2>1, <2>2, <2>3, <2>4 DEF OnePlace
<1>4. ASSUME NEW c \in Callers, Push(c) PROVE OnePlace'
  <2>1. PICK x \in Tasks : /\ x \notin Range(tasks) /\ x \notin Range(taken)
                          /\ tasks' = Append(tasks, x)
    BY <1>4 DEF Push, Fresh
  <2>2. UNCHANGED <<taken, started, task, wpc>>
    BY <1>4 DEF Push, hands
  <2>3. Range(tasks') = Range(tasks) \cup {x} /\ IsInjective(tasks')
    BY <1>e, <2>1
  <2> QED BY <1>o, <2>1, <2>2, <2>3 DEF OnePlace, Got
<1>5. ASSUME UNCHANGED <<tasks, taken, started, task>>, Got' = Got PROVE OnePlace'
  BY <1>5, <1>o DEF OnePlace
<1>6. ASSUME NEW w \in Workers,
             While(w) \/ Lock(w) \/ Test(w) \/ Wait(w) \/ Woken(w) \/ Spurious(w)
      PROVE  UNCHANGED <<tasks, taken, started, task>> /\ Got' = Got
  <2>1. UNCHANGED <<tasks, taken, started, task>>
    BY <1>6 DEF While, Lock, Test, Wait, Woken, Spurious, hands
  <2>2. CASE Spurious(w)
    BY <2>1, <2>2 DEF Spurious, Got
  <2>3. CASE Test(w)
    <3>1. PICK to \in {"take", "wait", "exit"} : WorkerAt(w, "test", to)
      BY <2>3 DEF Test, Zenon
    <3> QED BY <1>t, <2>1, <3>1 DEF WorkerAt, Got
  <2>4. CASE While(w) \/ Lock(w) \/ Wait(w) \/ Woken(w)
    BY <1>t, <2>1, <2>4 DEF While, Lock, Wait, Woken, WorkerAt, Got
  <2> QED BY <1>6, <2>2, <2>3, <2>4
<1>7. ASSUME NEW c \in Callers, AddTask(c) \/ NotifyOne(c)
      PROVE  UNCHANGED <<tasks, taken, started, task>> /\ Got' = Got
  BY <1>7 DEF AddTask, NotifyOne, hands, Got
<1>8. ASSUME DtorStore \/ DtorNotifyAll \/ DtorJoin
      PROVE  UNCHANGED <<tasks, taken, started, task>> /\ Got' = Got
  BY <1>8 DEF DtorStore, DtorNotifyAll, DtorJoin, hands, Got
<1>9. CASE UNCHANGED vars
  BY <1>5, <1>9 DEF vars, hands, Got
<1> QED
  BY <1>1, <1>2, <1>3, <1>4, <1>5, <1>6, <1>7, <1>8, <1>9 DEF Next, WorkerStep, Destroyed

\* For any number of workers, clients and tasks: m_mutex excludes, front() and pop()
\* never meet an empty queue, no task is stranded beside sleeping workers, idlThrNum
\* counts the idle workers, and a task is queued, in the hands of one worker, or called.
THEOREM PoolInvariant == Spec => []PoolInv
<1>1. PoolInv /\ [Next]_vars => PoolInv'
  BY TypeStep, MutexStep, IdleStep, StrandedStep, PlaceStep DEF PoolInv
<1> QED BY <1>1, InitPool, PTL DEF Spec

-----------------------------------------------------------------------------
\* A push submits a task, a pop leaves those submitted alone, and every task taken is
\* at its place among those submitted.
LEMMA Submitted ==
  ASSUME NEW S, NEW a \in Seq(S), NEW b \in Seq(S)
  PROVE  /\ \A x \in S : a \o Append(b, x) = Append(a \o b, x)
         /\ b # << >> => Append(a, Head(b)) \o Tail(b) = a \o b
         /\ \A i \in 1..Len(a) : i \in 1..Len(a \o b) /\ (a \o b)[i] = a[i]
         /\ Range(a \o b) = Range(a) \cup Range(b)
<1>1. PICK c : c = a \o b
  OBVIOUS
<1>2. /\ c \in Seq(S) /\ Len(c) = Len(a) + Len(b)
      /\ \A i \in 1..Len(a) : c[i] = a[i]
      /\ \A i \in 1..Len(b) : c[Len(a) + i] = b[i]
  BY <1>1
<1>3. \A i \in 1..Len(c) : i \in 1..Len(a) \/ (i - Len(a) \in 1..Len(b) /\ c[i] = b[i - Len(a)])
  BY <1>2
<1>r. /\ \A y : y \in Range(a) <=> \E i \in 1..Len(a) : y = a[i]
      /\ \A y : y \in Range(b) <=> \E i \in 1..Len(b) : y = b[i]
      /\ \A y : y \in Range(c) <=> \E i \in 1..Len(c) : y = c[i]
  BY <1>2, InRange, Zenon
<1>4. Range(c) \subseteq Range(a) \cup Range(b)
  BY <1>2, <1>3, <1>r
<1>5. Range(a) \cup Range(b) \subseteq Range(c)
  <2>1. \A i \in 1..Len(a) : i \in 1..Len(c)
    BY <1>2
  <2>2. \A i \in 1..Len(b) : Len(a) + i \in 1..Len(c)
    BY <1>2
  <2>3. Range(a) \subseteq Range(c)
    BY <1>2, <1>r, <2>1
  <2>4. Range(b) \subseteq Range(c)
    BY <1>2, <1>r, <2>2
  <2> QED BY <2>3, <2>4
<1>8. \A i \in 1..Len(a) : i \in 1..Len(c)
  BY <1>2
<1>6. \A x \in S : a \o Append(b, x) = Append(a \o b, x)
  OBVIOUS
<1>7. b # << >> => Append(a, Head(b)) \o Tail(b) = a \o b
  OBVIOUS
<1> QED BY <1>1, <1>2, <1>4, <1>5, <1>6, <1>7, <1>8

\* A worker that calls its task overtakes only tasks that other workers hold, so fewer
\* than there are workers.
LEMMA FewOvertaken ==
  ASSUME NEW w \in Workers, NEW T, T \subseteq {task[v] : v \in Workers \ {w}}
  PROVE  Cardinality(T) < Cardinality(Workers)
<1> DEFINE others == Workers \ {w}
           f == [v \in others |-> task[v]]
<1>1. IsFiniteSet(others) /\ Cardinality(others) = Cardinality(Workers) - 1
  BY WorkersAssumption, FS_RemoveElement
<1>2. Cardinality(Workers) \in Nat
  BY WorkersAssumption, FS_CardinalityType
<1>3. PICK U : U = {f[v] : v \in others}
  OBVIOUS
<1>4. IsFiniteSet(U) /\ Cardinality(U) <= Cardinality(others)
  <2>1. f \in Surjection(others, U)
    BY <1>3 DEF Surjection
  <2> QED BY <1>1, <2>1, FS_Surjection
<1>5. T \subseteq U
  BY <1>3
<1>6. IsFiniteSet(T) /\ Cardinality(T) <= Cardinality(U)
  BY <1>4, <1>5, FS_Subset
<1>7. Cardinality(T) \in Nat /\ Cardinality(U) \in Nat
  BY <1>4, <1>6, FS_CardinalityType
<1> HIDE DEF others, f
<1> QED BY <1>1, <1>2, <1>4, <1>6, <1>7

\* Every step of the pool is a step of the WorkerPool or leaves it alone.
LEMMA AbstractStep == PoolInv /\ [Next]_vars => [Abstract!Next]_<<taken \o tasks, started>>
<1> SUFFICES ASSUME PoolInv, [Next]_vars
             PROVE  Abstract!Next \/ UNCHANGED <<taken \o tasks, started>>
  OBVIOUS
<1>t. tasks \in Seq(Tasks) /\ taken \in Seq(Tasks) /\ started \in Seq(Tasks)
  BY DEF PoolInv, TypeOK
<1>s. /\ \A x \in Tasks : taken \o Append(tasks, x) = Append(taken \o tasks, x)
      /\ tasks # << >> => Append(taken, Head(tasks)) \o Tail(tasks) = taken \o tasks
      /\ \A i \in 1..Len(taken) : i \in 1..Len(taken \o tasks) /\ (taken \o tasks)[i] = taken[i]
      /\ Range(taken \o tasks) = Range(taken) \cup Range(tasks)
  <2>1. \A a, b \in Seq(Tasks) :
          /\ \A x \in Tasks : a \o Append(b, x) = Append(a \o b, x)
          /\ b # << >> => Append(a, Head(b)) \o Tail(b) = a \o b
          /\ \A i \in 1..Len(a) : i \in 1..Len(a \o b) /\ (a \o b)[i] = a[i]
          /\ Range(a \o b) = Range(a) \cup Range(b)
    BY Submitted, Zenon
  <2> QED BY <1>t, <2>1
<1>r. \A S : Abstract!Range(S) = Range(S) /\ Abstract!Cardinality(S) = Cardinality(S)
  <2>1. \A S : Abstract!Range(S) = Range(S)
    BY DEF Range, Abstract!Range
  <2>2. \A S : Abstract!Cardinality(S) = Cardinality(S)
    BY Zenon DEF Cardinality, Abstract!Cardinality
  <2> QED BY <2>1, <2>2
<1>1. ASSUME NEW c \in Callers, Push(c) PROVE Abstract!Next
  <2>1. PICK x \in Tasks : /\ x \notin Range(tasks) /\ x \notin Range(taken)
                          /\ tasks' = Append(tasks, x)
    BY <1>1 DEF Push, Fresh
  <2>2. started' = started /\ taken' = taken
    BY <1>1 DEF Push, hands
  <2>3. (taken \o tasks)' = Append(taken \o tasks, x) /\ x \notin Range(taken \o tasks)
    BY <1>s, <2>1, <2>2
  <2> QED BY <1>r, <2>2, <2>3 DEF Abstract!Next, Abstract!Submit
<1>2. ASSUME NEW w \in Workers, Take(w) PROVE UNCHANGED <<taken \o tasks, started>>
  <2>1. tasks # << >>
    BY <1>2 DEF Take, WorkerAt, PoolInv, NoEmptyPop
  <2>2. taken' = Append(taken, Head(tasks)) /\ tasks' = Tail(tasks) /\ started' = started
    BY <1>2 DEF Take
  <2> QED BY <1>s, <2>1, <2>2
<1>3. ASSUME NEW w \in Workers, RunTask(w) PROVE Abstract!Next
  <2>1. w \in Got
    BY <1>3 DEF RunTask, WorkerAt, Got
  <2>2. PICK x \in Tasks : x = task[w] /\ x \in Range(taken) /\ x \notin Range(started)
    BY <2>1, GotTask DEF PoolInv
  <2>3. PICK i \in 1..Len(taken) : taken[i] = x
    BY <1>t, <2>2 DEF Range
  <2>4. UNCHANGED <<tasks, taken>> /\ started' = Append(started, x)
    BY <1>3, <2>2 DEF RunTask
  <2>5. \A j \in 1..Len(taken) : taken[j] \in Range(taken)
    BY <1>t DEF Range
  <2>6. PICK T : T = {(taken \o tasks)[j] : j \in 1..(i - 1)} \ Range(started)
    OBVIOUS
  <2>7. \A y \in T : \E j \in 1..(i - 1) : y = taken[j]
    <3>1. \A j \in 1..(i - 1) : j \in 1..Len(taken)
      BY <2>3, <1>t
    <3> QED BY <1>s, <2>6, <3>1
  <2>8. \A y \in T : y \in Range(taken) /\ y \notin Range(started)
    <3>1. \A j \in 1..(i - 1) : j \in 1..Len(taken)
      BY <2>3, <1>t
    <3> QED BY <2>5, <2>6, <2>7, <3>1
  <2>9. \A y \in T : \E v \in Workers : y = task[v]
    <3>1. Range(taken) \ Range(started) = {task[v] : v \in Got}
      BY DEF PoolInv, OnePlace
    <3> QED BY <2>8, <3>1 DEF Got
  <2>10. x \notin T
    <3>1. \A j \in 1..(i - 1) : j \in 1..Len(taken) /\ j # i
      BY <2>3, <1>t
    <3>2. \A j \in 1..Len(taken) : taken[j] = taken[i] => j = i
      BY <1>t, <2>3 DEF PoolInv, OnePlace, IsInjective
    <3> QED BY <2>3, <2>7, <3>1, <3>2
  <2>11. T \subseteq {task[v] : v \in Workers \ {w}}
    BY <2>2, <2>9, <2>10
  <2>12. Cardinality(T) < Cardinality(Workers)
    BY <2>11, FewOvertaken
  <2>13. i \in 1..Len(taken \o tasks) /\ (taken \o tasks)[i] = x /\ (taken \o tasks)' = taken \o tasks
    BY <1>s, <2>3, <2>4
  <2>14. Abstract!Start(i)
    BY <1>r, <2>2, <2>4, <2>6, <2>12, <2>13 DEF Abstract!Start, Abstract!Overtaken
  <2> QED BY <2>13, <2>14 DEF Abstract!Next
<1>4. ASSUME NEW w \in Workers, While(w) \/ Lock(w) \/ Test(w) \/ Wait(w) \/ Woken(w)
                                \/ TaskDone(w) \/ Spurious(w)
      PROVE  UNCHANGED <<tasks, taken, started>>
  BY <1>4 DEF While, Lock, Test, Wait, Woken, TaskDone, Spurious, hands
<1>5. ASSUME NEW c \in Callers, AddTask(c) \/ NotifyOne(c) PROVE UNCHANGED <<tasks, taken, started>>
  BY <1>5 DEF AddTask, NotifyOne, hands
<1>6. ASSUME DtorStore \/ DtorNotifyAll \/ DtorJoin PROVE UNCHANGED <<tasks, taken, started>>
  BY <1>6 DEF DtorStore, DtorNotifyAll, DtorJoin, hands
<1>7. CASE UNCHANGED vars
  BY <1>7 DEF vars, hands
<1>8. CASE UNCHANGED <<tasks, taken, started>>
  BY <1>8
<1> QED
  BY <1>1, <1>2, <1>3, <1>4, <1>5, <1>6, <1>7, <1>8 DEF Next, WorkerStep, Destroyed

\* The pool implements the WorkerPool: a task is called at most once, and it overtakes
\* fewer of those pushed before it than there are workers, also while the pool is
\* being destroyed.
THEOREM PoolImplementsWorkerPool == Spec => ImplementsWorkerPool
<1>1. Init => Abstract!Init
  BY DEF Init, Abstract!Init
<1> QED BY <1>1, AbstractStep, PoolInvariant, PTL
        DEF Spec, ImplementsWorkerPool, Abstract!Spec
=============================================================================
