--------------------------- MODULE EventLoopProofs --------------------------
(***************************************************************************)
(* Proofs about EventLoop, for any number of threads, channels and         *)
(* functors and any size of Epoller::events_: no lost wakeup, and that the *)
(* loop implements the Executor; and about EventLoopThread, whose steps    *)
(* are steps of an EventLoop except for the wakeup() that comes before     *)
(* init().                                                                 *)
(***************************************************************************)
EXTENDS EventLoopThread, SequenceTheorems, TLAPS

\* Every variable of EventLoop keeps its type in every step of loop(),
\* queueInLoop, quit and wakeup.
LEMMA TypeStep == TypeOK /\ [Next]_vars => TypeOK'
<1> SUFFICES ASSUME TypeOK, [Next]_vars PROVE TypeOK'
  OBVIOUS
<1> USE DEF TypeOK, PCs, AllThreads, AllChannels
<1>1. ASSUME NEW t \in AllThreads, NEW f \in Functors, QueueInLoop(t, f)
      PROVE  TypeOK'
  BY <1>1 DEF QueueInLoop, CanCall
<1>2. ASSUME NEW t \in AllThreads, Quit(t) PROVE TypeOK'
  BY <1>2 DEF Quit, CanCall
<1>3. ASSUME NEW t \in AllThreads, Wakeup(t) PROVE TypeOK'
  BY <1>3 DEF Wakeup
<1>4. CASE LoopEnter
  BY <1>4 DEF LoopEnter, LoopAt
<1>5. CASE LoopTest
  BY <1>5 DEF LoopTest, LoopAt
<1>6. CASE Poll
  BY <1>6 DEF Poll, Reportable, LoopAt
<1>7. CASE PollNothing
  BY <1>7 DEF PollNothing, LoopAt
<1>8. CASE HandleWakeup
  BY <1>8 DEF HandleWakeup, LoopAt
<1>9. ASSUME NEW c \in Channels, HandleEvent(c) PROVE TypeOK'
  BY <1>9 DEF HandleEvent, LoopAt
<1>10. CASE EventDone
  BY <1>10 DEF EventDone, LoopAt
<1>11. CASE DoPendingFunctors
  BY <1>11 DEF DoPendingFunctors, LoopAt
<1>12. CASE SwapPending
  BY <1>12 DEF SwapPending, LoopAt
<1>13. CASE RunFunctor
  BY <1>13 DEF RunFunctor, LoopAt
<1>14. CASE FunctorDone
  BY <1>14 DEF FunctorDone, LoopAt
<1>15. CASE PendingDone
  BY <1>15 DEF PendingDone, LoopAt
<1>16. ASSUME NEW c \in Channels, ChannelReady(c) PROVE TypeOK'
  BY <1>16 DEF ChannelReady
<1>17. CASE UNCHANGED vars
  BY <1>17 DEF vars
<1>18. QED
  BY <1>1, <1>2, <1>3, <1>4, <1>5, <1>6, <1>7, <1>8, <1>9, <1>10,
     <1>11, <1>12, <1>13, <1>14, <1>15, <1>16, <1>17
     DEF Next, LoopStep, Call

\* A loop that has just been initialised has the types of TypeOK.
LEMMA TypeInit == Init => TypeOK
<1>1. << >> \in Seq(Functors)
  OBVIOUS
<1>2. QED
  BY <1>1, EventsSizeAssumption, Zenon DEF Init, TypeOK, PCs

-----------------------------------------------------------------------------
\* No step of the IO thread or of a calling thread leaves a quit(), or a queued
\* functor that had a wakeup, without one.
LEMMA WakeupStep ==
  TypeOK /\ QuitInv /\ [Next]_vars => QuitInv' /\ (PendingHasWakeup => PendingHasWakeup')
<1> DEFINE Goal == QuitInv' /\ (PendingHasWakeup => PendingHasWakeup')
<1> SUFFICES ASSUME TypeOK, QuitInv, [Next]_vars PROVE Goal
  OBVIOUS
<1> USE LoopThreadAssumption, WakeupChannelAssumption
    DEF TypeOK, PCs, AllThreads, AllChannels, QuitInv, PendingHasWakeup,
        QuitHasWakeup, CallingFlag, WakeupReadable, LocalVector, WakeupUnderWay
<1>1. ASSUME NEW t \in AllThreads, NEW f \in Functors, QueueInLoop(t, f)
      PROVE  Goal
  BY <1>1 DEF QueueInLoop, CanCall
<1>2. ASSUME NEW t \in AllThreads, Quit(t) PROVE Goal
  BY <1>2 DEF Quit, CanCall
<1>3. ASSUME NEW t \in AllThreads, Wakeup(t) PROVE Goal
  BY <1>3 DEF Wakeup
<1>4. CASE LoopEnter
  BY <1>4 DEF LoopEnter, LoopAt
<1>5. CASE LoopTest
  BY <1>5 DEF LoopTest, LoopAt
<1>6. CASE Poll
  BY <1>6 DEF Poll, Reportable, LoopAt
<1>7. CASE PollNothing
  BY <1>7 DEF PollNothing, Reportable, LoopAt
<1>8. CASE HandleWakeup
  BY <1>8 DEF HandleWakeup, LoopAt
<1>9. CASE EventDone
  BY <1>9 DEF EventDone, LoopAt
<1>10. CASE DoPendingFunctors
  BY <1>10 DEF DoPendingFunctors, LoopAt
<1>11. CASE SwapPending
  BY <1>11 DEF SwapPending, LoopAt
<1>12. CASE RunFunctor
  BY <1>12 DEF RunFunctor, LoopAt
<1>13. CASE FunctorDone
  BY <1>13 DEF FunctorDone, LoopAt
<1>14. CASE PendingDone
  BY <1>14 DEF PendingDone, LoopAt
<1>15. ASSUME NEW c \in Channels, HandleEvent(c) PROVE Goal
  BY <1>15 DEF HandleEvent, LoopAt
<1>16. ASSUME NEW c \in Channels, ChannelReady(c) PROVE Goal
  BY <1>16 DEF ChannelReady
<1>17. CASE UNCHANGED vars
  BY <1>17 DEF vars
<1>18. QED
  BY <1>1, <1>2, <1>3, <1>4, <1>5, <1>6, <1>7, <1>8, <1>9, <1>10,
     <1>11, <1>12, <1>13, <1>14, <1>15, <1>16, <1>17
     DEF Next, LoopStep, Call

\* The invariant: types and wakeups together.
THEOREM WakeupInvariant == Spec => []LoopInv
<1>1. ASSUME Init PROVE WakeupInv
  BY <1>1 DEF Init, WakeupInv, QuitInv, PendingHasWakeup, QuitHasWakeup,
              CallingFlag, WakeupReadable, LocalVector
<1>2. Init => TypeOK /\ WakeupInv
  BY <1>1, TypeInit
<1>3. QED
  BY <1>2, TypeStep, WakeupStep, PTL DEF Spec, LoopInv, WakeupInv

\* No lost wakeup, for any number of threads: the IO thread never sits in
\* epoll_wait beside a queued functor or a quit() with no wakeup on its way.
THEOREM NoLostWakeupAlways == Spec => []NoLostWakeup
<1>1. LoopInv => NoLostWakeup
  BY DEF LoopInv, WakeupInv, QuitInv, PendingHasWakeup, QuitHasWakeup, NoLostWakeup
<1>2. QED
  BY <1>1, WakeupInvariant, PTL

-----------------------------------------------------------------------------
\* Pushing onto pendingFunctors_ appends to the sequence of submitted functors.
LEMMA ConcatAppend ==
  ASSUME NEW S, NEW a \in Seq(S), NEW b \in Seq(S), NEW c \in Seq(S), NEW x \in S
  PROVE  a \o b \o Append(c, x) = Append(a \o b \o c, x)
  OBVIOUS

\* Swapping pendingFunctors_ with an empty vector leaves that sequence alone.
LEMMA ConcatSwap ==
  ASSUME NEW S, NEW a \in Seq(S), NEW c \in Seq(S)
  PROVE  a \o c \o << >> = a \o << >> \o c
  OBVIOUS

\* Starting the first functor of the vector executes the oldest one that has
\* not been executed.
LEMMA ConcatRun ==
  ASSUME NEW S, NEW a \in Seq(S), NEW b \in Seq(S), NEW c \in Seq(S), b # << >>
  PROVE  /\ Append(a, Head(b)) \o Tail(b) \o c = a \o b \o c
         /\ Len(a) < Len(a \o b \o c)
         /\ (a \o b \o c)[Len(a) + 1] = Head(b)
  OBVIOUS

\* Every step of the loop and of the threads that use it is a step of the
\* Executor, or none of its business.
LEMMA ExecutorStep ==
  TypeOK /\ QuitInv /\ [Next]_vars => [Abstract!Next]_<<Submitted, executed>>
<1> SUFFICES ASSUME TypeOK, QuitInv, [Next]_vars
             PROVE  Abstract!Next \/ UNCHANGED <<Submitted, executed>>
  OBVIOUS
<1>1. ASSUME NEW t \in AllThreads, NEW f \in Functors, QueueInLoop(t, f)
      PROVE  Abstract!Next
  <2>1. Submitted' = Append(Submitted, f)
    BY <1>1, ConcatAppend DEF QueueInLoop, Submitted, TypeOK
  <2>2. Abstract!Submit(f)
    BY <1>1, <2>1 DEF QueueInLoop, Abstract!Submit
  <2>3. QED
    BY <2>2 DEF Abstract!Next
<1>2. CASE SwapPending
  <2>1. functors = << >>
    BY <1>2 DEF SwapPending, LoopAt, QuitInv, LocalVector
  <2>2. Submitted = executed \o << >> \o pendingFunctors_
    BY <2>1 DEF Submitted
  <2>3. Submitted' = executed \o pendingFunctors_ \o << >>
    BY <1>2 DEF SwapPending, Submitted
  <2>4. Submitted' = Submitted
    BY <2>2, <2>3, ConcatSwap DEF TypeOK
  <2>5. QED
    BY <1>2, <2>4 DEF SwapPending
<1>3. CASE RunFunctor
  <2>1. /\ Append(executed, Head(functors)) \o Tail(functors)
             \o pendingFunctors_ = Submitted
        /\ Len(executed) < Len(Submitted)
        /\ Submitted[Len(executed) + 1] = Head(functors)
    <3>1. /\ executed \in Seq(Functors) /\ functors \in Seq(Functors)
          /\ pendingFunctors_ \in Seq(Functors) /\ functors # << >>
      BY <1>3 DEF RunFunctor, TypeOK
    <3> QED
      BY <3>1, ConcatRun, Zenon DEF Submitted
  <2>2. Submitted' = Submitted
    BY <1>3, <2>1 DEF RunFunctor, Submitted
  <2>3. Abstract!Execute
    BY <1>3, <2>1, <2>2 DEF RunFunctor, Abstract!Execute
  <2>4. QED
    BY <2>3 DEF Abstract!Next
<1>4. ASSUME UNCHANGED <<pendingFunctors_, functors, executed>>
      PROVE  UNCHANGED <<Submitted, executed>>
  BY <1>4 DEF Submitted
<1>5. ASSUME NEW t \in AllThreads, Quit(t) \/ Wakeup(t)
      PROVE  UNCHANGED <<pendingFunctors_, functors, executed>>
  BY <1>5 DEF Quit, Wakeup
<1>6. ASSUME \/ LoopEnter \/ LoopTest \/ Poll \/ PollNothing \/ HandleWakeup
             \/ EventDone \/ DoPendingFunctors \/ FunctorDone \/ PendingDone
             \/ \E c \in Channels : HandleEvent(c) \/ ChannelReady(c)
      PROVE  UNCHANGED <<pendingFunctors_, functors, executed>>
  BY <1>6 DEF LoopEnter, LoopTest, Poll, PollNothing, HandleWakeup, EventDone,
     DoPendingFunctors, FunctorDone, PendingDone, HandleEvent, ChannelReady
<1>7. CASE UNCHANGED vars
  BY <1>7, <1>4 DEF vars
<1>8. QED
  BY <1>1, <1>2, <1>3, <1>4, <1>5, <1>6, <1>7 DEF Next, LoopStep, Call

\* The loop implements the Executor: functors run one after the other, each at
\* most once and in the order in which queueInLoop pushed them.
THEOREM LoopImplementsExecutor == Spec => ImplementsExecutor
<1>1. Init => Abstract!Init
  BY DEF Init, Abstract!Init, Submitted
<1>2. QED
  BY <1>1, ExecutorStep, WakeupInvariant, PTL
     DEF Spec, LoopInv, WakeupInv, ImplementsExecutor, Abstract!Spec

-----------------------------------------------------------------------------
\* A wakeup() before init() writes to no eventfd.
LostWakeup ==
  /\ ~inited /\ Owner \in waking
  /\ waking' = waking \ {Owner}
  /\ UNCHANGED <<pc, quit_, callingPendingFunctors_, pendingFunctors_, functors,
                 activeChannels_, signalled, ready, executed, eventsSize>>

\* The owner and threadFunc use the EventLoop only through its own operations.
LEMMA ThreadStepOfLoop ==
  [ThreadNext]_threadVars => [Next]_vars \/ LostWakeup
<1> SUFFICES ASSUME [ThreadNext]_threadVars PROVE Next \/ UNCHANGED vars \/ LostWakeup
  OBVIOUS
<1>1. Owner \in AllThreads /\ LoopThread \in AllThreads
  BY OwnerAssumption DEF AllThreads
<1>2. CASE RunLoop \/ PollTimesOut \/ FunctorQueues
  BY <1>1, <1>2 DEF RunLoop, PollTimesOut, FunctorQueues, Next, Call
<1>3. CASE OwnerQueues \/ DtorQuit \/ DtorWakeup
  BY <1>1, <1>3 DEF OwnerQueues, DtorQuit, DtorWakeup, OwnerWakeup, LostWakeup,
                    Next, Call
<1>4. CASE \/ CreateLoop \/ InitLoop \/ ResetLoop
           \/ CtorTest \/ CtorWait \/ SpuriousWakeup \/ GetLoop \/ DropLoops
           \/ DtorTest \/ DtorJoin \/ UNCHANGED threadVars
  BY <1>4 DEF CreateLoop, InitLoop, ResetLoop, CtorTest, CtorWait, SpuriousWakeup,
              GetLoop, DropLoops, DtorTest, DtorJoin, threadVars
<1> QED
  BY <1>2, <1>3, <1>4 DEF ThreadNext, WorkerStep, OwnerStep

\* The loop of an EventLoopThread keeps its types and hears every quit().
LEMMA ThreadLoopStep ==
  OwnerInv /\ [ThreadNext]_threadVars => TypeOK' /\ QuitInv'
<1> SUFFICES ASSUME OwnerInv, [ThreadNext]_threadVars PROVE TypeOK' /\ QuitInv'
  OBVIOUS
<1>1. TypeOK /\ QuitInv
  BY DEF OwnerInv, ThreadTypeOK
<1>2. CASE [Next]_vars
  BY <1>1, <1>2, TypeStep, WakeupStep
<1>3. CASE LostWakeup
  <2>1. pc = "created"
    BY <1>3 DEF LostWakeup, OwnerInv, PhasesOK
  <2>2. TypeOK'
    BY <1>1, <1>3 DEF LostWakeup, TypeOK
  <2>3. QuitInv'
    BY <1>1, <1>3, <2>1 DEF LostWakeup, QuitInv, QuitHasWakeup, CallingFlag,
                            WakeupReadable, LocalVector
  <2> QED
    BY <2>2, <2>3
<1> QED
  BY <1>2, <1>3, ThreadStepOfLoop

\* What an EventLoop operation that is neither quit() nor a step of loop() leaves
\* alone, and what it does to waking.
LEMMA ThreadCalls ==
  ASSUME NEW t, NEW f
  PROVE  /\ QueueInLoop(t, f) => UNCHANGED <<pc, quit_>> /\ waking' \subseteq waking \cup {t}
         /\ Wakeup(t) => UNCHANGED <<pc, quit_>> /\ waking' = waking \ {t}
         /\ Quit(t) => UNCHANGED pc /\ waking' \subseteq waking \cup {t}
BY DEF QueueInLoop, Wakeup, Quit

\* loop() never sets quit_ and ends only because of it.
LEMMA LoopStepPhases ==
  LoopStep \/ PollNothing =>
    /\ UNCHANGED waking
    /\ pc' # "created"
    /\ quit_' => quit_
    /\ pc' = "exited" => quit_
    /\ pc # "exited"
<1>1. ASSUME LoopEnter \/ LoopTest \/ Poll \/ PollNothing \/ HandleWakeup \/ EventDone
      PROVE  /\ UNCHANGED waking /\ pc' # "created" /\ (quit_' => quit_)
             /\ (pc' = "exited" => quit_) /\ pc # "exited"
  BY <1>1 DEF LoopEnter, LoopTest, Poll, PollNothing, HandleWakeup, EventDone, LoopAt
<1>2. ASSUME \/ DoPendingFunctors \/ SwapPending \/ RunFunctor \/ FunctorDone
             \/ PendingDone \/ \E c \in Channels : HandleEvent(c)
      PROVE  /\ UNCHANGED waking /\ pc' # "created" /\ (quit_' => quit_)
             /\ (pc' = "exited" => quit_) /\ pc # "exited"
  BY <1>2 DEF DoPendingFunctors, SwapPending, RunFunctor, FunctorDone, PendingDone,
              HandleEvent, LoopAt
<1> QED
  BY <1>1, <1>2 DEF LoopStep

\* Every step of the owner and of threadFunc keeps the order of construction, use
\* and destruction.
LEMMA PhasesStep ==
  ASSUME OwnerInv, ThreadNext
  PROVE  /\ HoldersOK' /\ PhasesOK'
         /\ owner' \in Owners /\ worker' \in Workers
         /\ refs' \subseteq Holders /\ inited' \in BOOLEAN
<1>0. Owner # LoopThread
  BY OwnerAssumption, LoopThreadAssumption
<1> USE <1>0 DEF OwnerInv, ThreadTypeOK, HoldersOK, PhasesOK, Owners, Workers, Holders,
                 OwnerAt, vars
<1>1. CASE CreateLoop
  BY <1>1 DEF CreateLoop
<1>2. CASE InitLoop
  BY <1>2 DEF InitLoop
<1>3. CASE RunLoop
  BY <1>3, LoopStepPhases, ThreadCalls DEF RunLoop
<1>4. CASE PollTimesOut
  BY <1>4, LoopStepPhases DEF PollTimesOut
<1>5. CASE FunctorQueues
  BY <1>5, ThreadCalls DEF FunctorQueues
<1>6. CASE ResetLoop
  BY <1>6 DEF ResetLoop
<1>7. CASE CtorTest
  BY <1>7 DEF CtorTest
<1>8. CASE CtorWait
  BY <1>8 DEF CtorWait
<1>9. CASE SpuriousWakeup
  BY <1>9 DEF SpuriousWakeup
<1>10. CASE GetLoop
  BY <1>10 DEF GetLoop
<1>11. CASE OwnerQueues
  BY <1>11, ThreadCalls DEF OwnerQueues, OwnerWakeup
<1>12. CASE DropLoops
  BY <1>12 DEF DropLoops
<1>13. CASE DtorTest
  BY <1>13 DEF DtorTest
<1>14. CASE DtorQuit
  BY <1>14, ThreadCalls DEF DtorQuit
<1>15. CASE DtorWakeup
  BY <1>15, ThreadCalls DEF DtorWakeup, OwnerWakeup
<1>16. CASE DtorJoin
  BY <1>16 DEF DtorJoin
<1>17. CASE UNCHANGED threadVars
  BY <1>17 DEF threadVars
<1> QED
  BY <1>1, <1>2, <1>3, <1>4, <1>5, <1>6, <1>7, <1>8, <1>9, <1>10, <1>11, <1>12, <1>13,
     <1>14, <1>15, <1>16, <1>17 DEF ThreadNext, WorkerStep, OwnerStep

\* The destructor finds loop_: loop() has not returned, since only it calls quit().
LEMMA DtorFindsLoop ==
  ASSUME OwnerInv, DtorTest
  PROVE  owner' = "quit"
<1>1. worker # "start" /\ worker # "ended"
  BY DEF OwnerInv, PhasesOK, DtorTest, OwnerAt
<1> QED
  BY <1>1 DEF OwnerInv, ThreadTypeOK, Workers, HoldersOK, DtorTest, OwnerAt

\* Nothing but a destructor that does not find loop_ terminates.
LEMMA JoinedStep ==
  ASSUME OwnerInv, [ThreadNext]_threadVars
  PROVE  AlwaysJoined'
<1> USE DEF OwnerInv, AlwaysJoined, OwnerAt
<1>1. CASE DtorTest
  BY <1>1, DtorFindsLoop
<1>2. CASE CreateLoop \/ InitLoop \/ RunLoop \/ PollTimesOut \/ FunctorQueues \/ ResetLoop
  BY <1>2 DEF CreateLoop, InitLoop, RunLoop, PollTimesOut, FunctorQueues, ResetLoop
<1>3. CASE CtorTest \/ CtorWait \/ SpuriousWakeup \/ GetLoop \/ OwnerQueues \/ DropLoops
  BY <1>3 DEF CtorTest, CtorWait, SpuriousWakeup, GetLoop, OwnerQueues, DropLoops
<1>4. CASE DtorQuit \/ DtorWakeup \/ DtorJoin \/ UNCHANGED threadVars
  BY <1>4 DEF DtorQuit, DtorWakeup, DtorJoin, threadVars
<1> QED
  BY <1>1, <1>2, <1>3, <1>4 DEF ThreadNext, WorkerStep, OwnerStep

\* OwnerInv is inductive.  While the owner is in one of its operations the EventLoop
\* is held by loops_, by loop_ or by the wakeupChannel_ of a loop that has ended.
LEMMA OwnerStepKeeps == OwnerInv /\ [ThreadNext]_threadVars => OwnerInv'
<1> SUFFICES ASSUME OwnerInv, [ThreadNext]_threadVars PROVE OwnerInv'
  OBVIOUS
<1>1. TypeOK' /\ QuitInv'
  BY ThreadLoopStep
<1>2. /\ HoldersOK' /\ PhasesOK'
      /\ owner' \in Owners /\ worker' \in Workers
      /\ refs' \subseteq Holders /\ inited' \in BOOLEAN
  <2>1. CASE ThreadNext
    BY <2>1, PhasesStep
  <2>2. CASE UNCHANGED threadVars
    BY <2>2 DEF threadVars, vars, OwnerInv, ThreadTypeOK, HoldersOK, PhasesOK
  <2> QED
    BY <2>1, <2>2
<1>3. LoopAlive'
  BY <1>2 DEF HoldersOK, PhasesOK, LoopAlive, Workers
<1>4. AlwaysJoined'
  BY JoinedStep
<1> QED
  BY <1>1, <1>2, <1>3, <1>4 DEF OwnerInv, ThreadTypeOK

\* An EventLoopThread whose constructor starts.
LEMMA OwnerInit == ThreadInit => OwnerInv
<1> SUFFICES ASSUME ThreadInit PROVE OwnerInv
  OBVIOUS
<1>1. TypeOK
  BY TypeInit DEF ThreadInit
<1>2. QuitInv
  BY DEF ThreadInit, Init, QuitInv, QuitHasWakeup, CallingFlag, WakeupReadable, LocalVector
<1>3. HoldersOK /\ PhasesOK /\ LoopAlive /\ AlwaysJoined
  BY DEF ThreadInit, Init, HoldersOK, PhasesOK, LoopAlive, AlwaysJoined
<1>4. ThreadTypeOK
  BY <1>1 DEF ThreadInit, ThreadTypeOK, Owners, Workers
<1> QED
  BY <1>2, <1>3, <1>4 DEF OwnerInv

\* In every state of construction, use and destruction of an EventLoopThread its
\* EventLoop outlives the calls its owner makes on it, the destructor joins the
\* thread, and a quit() of the running loop is heard.
THEOREM OwnerInvariant == ThreadSpec => []OwnerInv
BY OwnerInit, OwnerStepKeeps, PTL DEF ThreadSpec

\* The EventLoop of an EventLoopThread implements the Executor as well, although the
\* owner may call it before init(): functors that miss their wakeup are still run
\* in order and at most once.
THEOREM ThreadImplementsExecutor == ThreadSpec => ImplementsExecutor
<1>1. ThreadInit => Abstract!Init
  BY DEF ThreadInit, Init, Abstract!Init, Submitted
<1>2. OwnerInv /\ [ThreadNext]_threadVars => [Abstract!Next]_<<Submitted, executed>>
  <2> SUFFICES ASSUME OwnerInv, [ThreadNext]_threadVars
               PROVE  [Abstract!Next]_<<Submitted, executed>>
    OBVIOUS
  <2>1. CASE [Next]_vars
    BY <2>1, ExecutorStep DEF OwnerInv, ThreadTypeOK
  <2>2. CASE LostWakeup
    BY <2>2 DEF LostWakeup, Submitted
  <2> QED
    BY <2>1, <2>2, ThreadStepOfLoop
<1> QED
  BY <1>1, <1>2, OwnerInvariant, PTL DEF ThreadSpec, ImplementsExecutor, Abstract!Spec
=============================================================================
