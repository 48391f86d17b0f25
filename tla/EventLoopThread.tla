-------------------------- MODULE EventLoopThread ---------------------------
(***************************************************************************)
(* adl::EventLoopThread (src/net/EventLoopThread.cpp) as                   *)
(* EventLoopThreadPool uses it: the owner (the main thread) constructs it, *)
(* keeps the EventLoop it gets in loops_, hands it functors, drops loops_  *)
(* and destroys the EventLoopThread.  The IO thread runs threadFunc, which *)
(* creates the EventLoop and runs its loop().                              *)
(*                                                                         *)
(* The EventLoop itself is the module EventLoop, whose steps are taken     *)
(* here only while the two threads can take them; LoopThread is the thread *)
(* of threadFunc.  The model starts when the members of the                *)
(* EventLoopThread are constructed.                                        *)
(***************************************************************************)
EXTENDS EventLoop

CONSTANT Owner      \* the thread that owns the EventLoopThread

ASSUME OwnerAssumption == Owner \in Threads

VARIABLES
  owner,            \* where the owner is
  worker,           \* where threadFunc is
  refs,             \* who holds a shared_ptr to the EventLoop
  inited            \* EventLoop::init() has returned

threadVars == <<vars, owner, worker, refs, inited>>

Owners  == {"ctor", "lock", "waiting", "constructed", "dtor", "quit", "quitting",
            "join", "terminated", "done"}
Workers == {"start", "locked", "loop", "ended"}
Holders == {"loop_", "loops_", "wakeupChannel_"}

ThreadTypeOK ==
  /\ TypeOK
  /\ owner \in Owners
  /\ worker \in Workers
  /\ refs \subseteq Holders
  /\ inited \in BOOLEAN

ThreadInit ==
  /\ Init
  /\ owner = "ctor"
  /\ worker = "start"
  /\ refs = {}
  /\ inited = FALSE

\* mutex_ is held over steps only by threadFunc, from make_shared to the notify.
MutexFree == worker # "locked"

-----------------------------------------------------------------------------
(***************************************************************************)
(* threadFunc.                                                             *)
(***************************************************************************)
\* mutex_ is taken and loop_ set; init() comes later.
CreateLoop ==
  /\ worker = "start"
  /\ worker' = "locked"
  /\ refs' = refs \cup {"loop_"}
  /\ UNCHANGED <<vars, owner, inited>>

InitLoop_WeakChannel ==                  \* mutant: Channel::loop_ as a weak_ptr
  /\ worker = "locked"
  /\ worker' = "loop"
  /\ inited' = TRUE
  /\ owner' = IF owner = "waiting" THEN "lock" ELSE owner
  /\ UNCHANGED <<vars, refs>>

InitLoop_NoNotify ==                     \* mutant: no notify_one
  /\ worker = "locked"
  /\ worker' = "loop"
  /\ inited' = TRUE
  /\ refs' = refs \cup {"wakeupChannel_"}
  /\ UNCHANGED <<vars, owner>>

\* init() gives the EventLoop a wakeupChannel_, whose loop_ is a shared_ptr to
\* the EventLoop; then notify_one, and mutex_ is released.
InitLoop ==
  /\ worker = "locked"
  /\ worker' = "loop"
  /\ inited' = TRUE
  /\ refs' = refs \cup {"wakeupChannel_"}
  /\ owner' = IF owner = "waiting" THEN "lock" ELSE owner
  /\ UNCHANGED vars

RunLoop ==
  /\ worker = "loop"
  /\ LoopStep \/ Wakeup(LoopThread)
  /\ UNCHANGED <<owner, worker, refs, inited>>

PollTimesOut ==
  /\ worker = "loop"
  /\ PollNothing
  /\ UNCHANGED <<owner, worker, refs, inited>>

\* A functor hands the loop another functor.
FunctorQueues ==
  /\ worker = "loop"
  /\ \E f \in Functors : QueueInLoop(LoopThread, f)
  /\ UNCHANGED <<owner, worker, refs, inited>>

\* loop() has returned: loop_ is reset under mutex_ and the thread ends.
ResetLoop ==
  /\ worker = "loop"
  /\ pc = "exited"
  /\ worker' = "ended"
  /\ refs' = refs \ {"loop_"}
  /\ UNCHANGED <<vars, owner, inited>>

-----------------------------------------------------------------------------
(***************************************************************************)
(* The owner: constructor, use and destructor.                             *)
(***************************************************************************)
OwnerAt(from, to) == owner = from /\ owner' = to

\* "if (!loop_)", without mutex_.
CtorTest ==
  /\ OwnerAt("ctor", IF "loop_" \in refs THEN "constructed" ELSE "lock")
  /\ UNCHANGED <<vars, worker, refs, inited>>

\* Takes mutex_ and evaluates the predicate of cond_.wait.
CtorWait ==
  /\ MutexFree
  /\ OwnerAt("lock", IF "loop_" \in refs THEN "constructed" ELSE "waiting")
  /\ UNCHANGED <<vars, worker, refs, inited>>

SpuriousWakeup ==
  /\ OwnerAt("waiting", "lock")
  /\ UNCHANGED <<vars, worker, refs, inited>>

\* EventLoopThreadPool::start keeps the loop.
GetLoop ==
  /\ owner = "constructed"
  /\ "loops_" \notin refs
  /\ refs' = refs \cup {"loops_"}
  /\ UNCHANGED <<vars, owner, worker, inited>>

\* Before init(), wakeupFd_ is indeterminate: the write fails or goes elsewhere.
OwnerWakeup ==
  \/ inited /\ Wakeup(Owner)
  \/ /\ ~inited /\ Owner \in waking
     /\ waking' = waking \ {Owner}
     /\ UNCHANGED <<pc, quit_, callingPendingFunctors_, pendingFunctors_,
                    functors, activeChannels_, signalled, ready, executed,
                    eventsSize>>

OwnerQueues ==
  /\ owner = "constructed"
  /\ "loops_" \in refs
  /\ OwnerWakeup \/ \E f \in Functors : QueueInLoop(Owner, f)
  /\ UNCHANGED <<owner, worker, refs, inited>>

\* ~EventLoopThreadPool destroys loops_, then threads_.
DropLoops ==
  /\ OwnerAt("constructed", "dtor")
  /\ Owner \notin waking
  /\ "loops_" \in refs
  /\ refs' = refs \ {"loops_"}
  /\ UNCHANGED <<vars, worker, inited>>

\* "if (loop_)"; without it the std::thread is destroyed while joinable.
DtorTest ==
  /\ OwnerAt("dtor", IF "loop_" \in refs THEN "quit" ELSE "terminated")
  /\ UNCHANGED <<vars, worker, refs, inited>>

DtorWakeup_Skipped ==                    \* mutant: quit() without wakeup()
  /\ OwnerAt("quitting", "join")
  /\ waking' = waking \ {Owner}
  /\ UNCHANGED <<pc, quit_, callingPendingFunctors_, pendingFunctors_,
                 functors, activeChannels_, signalled, ready, executed,
                 eventsSize, worker, refs, inited>>

DtorQuit ==
  /\ OwnerAt("quit", "quitting")
  /\ Quit(Owner)
  /\ UNCHANGED <<worker, refs, inited>>

DtorWakeup ==
  /\ OwnerAt("quitting", "join")
  /\ OwnerWakeup
  /\ UNCHANGED <<worker, refs, inited>>

DtorJoin ==
  /\ OwnerAt("join", "done")
  /\ worker = "ended"
  /\ UNCHANGED <<vars, worker, refs, inited>>

WorkerStep == CreateLoop \/ InitLoop \/ RunLoop \/ ResetLoop
OwnerStep  == CtorTest \/ CtorWait \/ GetLoop \/ DtorTest \/ DtorQuit
              \/ DtorWakeup \/ DtorJoin

ThreadNext ==
  \/ WorkerStep \/ PollTimesOut \/ FunctorQueues
  \/ OwnerStep \/ SpuriousWakeup \/ OwnerQueues \/ DropLoops
  \/ (owner \in {"done", "terminated"} /\ UNCHANGED threadVars)

ThreadSpec == ThreadInit /\ [][ThreadNext]_threadVars

(***************************************************************************)
(* Both threads run as long as they are not blocked (the owner decides     *)
(* when it destroys the EventLoopThread, if ever).  The constructor may    *)
(* not count on spurious wakeups, nor the loop on the poll timeout.        *)
(***************************************************************************)
ThreadFairness == WF_threadVars(WorkerStep) /\ WF_threadVars(OwnerStep)

ThreadFairSpec == ThreadSpec /\ ThreadFairness

-----------------------------------------------------------------------------
\* The EventLoop exists as long as the owner is inside queueInLoop or quit,
\* even when the loop exits and loop_ is reset between quit_ = true and wakeup()
\* (the case the comment in EventLoop::quit is afraid of).
LoopAlive == Owner \in waking => refs # {}

\* The destructor always finds loop_, so the thread is joined and never
\* destroyed while joinable.
AlwaysJoined == owner # "terminated"

\* Who holds the EventLoop, and when.
HoldersOK ==
  /\ "loop_" \in refs <=> worker \in {"locked", "loop"}
  /\ "wakeupChannel_" \in refs <=> worker \in {"loop", "ended"}
  /\ "loops_" \in refs => owner = "constructed"

\* How far each of the two threads can be ahead of the other: the constructor does
\* not return before loop_ is set, and only the destructor ends the loop.
PhasesOK ==
  /\ inited <=> worker \in {"loop", "ended"}
  /\ pc # "created" => inited
  /\ worker = "start" => owner \in {"ctor", "lock", "waiting"}
  /\ worker = "ended" => pc = "exited"
  /\ quit_ \/ pc = "exited" => owner \in {"quitting", "join", "done"}
  /\ Owner \in waking => "loops_" \in refs \/ owner = "quitting"

\* All of it, in every state of construction, use and destruction.  A wakeup() that
\* comes before init() is lost, so a functor may be left without one; but a quit()
\* that the running loop has not noticed is on its way to wake it (QuitInv).
OwnerInv ==
  /\ ThreadTypeOK
  /\ QuitInv
  /\ HoldersOK /\ PhasesOK
  /\ LoopAlive /\ AlwaysJoined

\* The constructor returns: notify_one is not missed and the loop is created.
ConstructorReturns == (owner = "ctor") ~> (owner = "constructed")

\* The destructor of an EventLoopThread whose loop() is running returns.
RunningLoopJoins == (owner = "dtor" /\ pc # "created") ~> (owner = "done")
=============================================================================
