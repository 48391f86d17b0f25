----------------------------- MODULE EventLoop ------------------------------
(***************************************************************************)
(* adl::EventLoop (src/net/EventLoop.cpp): one IO thread that polls its    *)
(* channels, handles the active ones and then runs the functors that any   *)
(* thread has queued with queueInLoop.                                     *)
(*                                                                         *)
(* A thread that queues a functor pushes it under mutex_ (one step) and    *)
(* then writes to the eventfd wakeupFd_ (another step); the set waking     *)
(* holds the threads between the two.  Of the eventfd only "counter > 0"   *)
(* matters (signalled); every write to it also puts wakeupChannel_ on      *)
(* epoll's ready list, edge-triggered, so that epoll_wait reports it once. *)
(*                                                                         *)
(* eventHandling_ and currentActiveChannel_ are written by loop() and read *)
(* by nobody: they are left out.                                           *)
(***************************************************************************)
EXTENDS Naturals, Sequences, FiniteSets

CONSTANTS
  Threads,          \* the threads other than the IO thread
  LoopThread,       \* the IO thread, threadId_
  Channels,         \* the channels of the loop's clients (sockets)
  WakeupChannel,    \* wakeupChannel_
  Functors,         \* the calls that are handed to the loop, each of them once
  InitEventsSize    \* how many entries Epoller::events_ starts with: 16

ASSUME LoopThreadAssumption == LoopThread \notin Threads
ASSUME WakeupChannelAssumption == WakeupChannel \notin Channels

ASSUME EventsSizeAssumption == InitEventsSize \in Nat \ {0}

VARIABLES
  pc,               \* where the IO thread is
  quit_,
  callingPendingFunctors_,
  pendingFunctors_,
  functors,         \* doPendingFunctors' local vector: what it has yet to run
  activeChannels_,  \* the channels that loop() has yet to handle
  signalled,        \* the counter of wakeupFd_ is not zero
  ready,            \* epoll's ready list
  waking,           \* the threads about to call wakeup()
  executed,         \* history: the functors taken from the vector, in order
  eventsSize        \* Epoller::events_.size()

vars == <<pc, quit_, callingPendingFunctors_, pendingFunctors_, functors,
          activeChannels_, signalled, ready, waking, executed, eventsSize>>

AllThreads  == Threads \cup {LoopThread}
AllChannels == Channels \cup {WakeupChannel}

PCs == {"created", "check", "poll", "handle", "event", "swap", "functors",
        "functor", "exited"}

TypeOK ==
  /\ pc \in PCs
  /\ quit_ \in BOOLEAN
  /\ callingPendingFunctors_ \in BOOLEAN
  /\ pendingFunctors_ \in Seq(Functors)
  /\ functors \in Seq(Functors)
  /\ activeChannels_ \subseteq AllChannels
  /\ signalled \in BOOLEAN
  /\ ready \subseteq AllChannels
  /\ waking \subseteq AllThreads
  /\ executed \in Seq(Functors)
  /\ eventsSize \in Nat \ {0}

(***************************************************************************)
(* The loop after init(): wakeupChannel_ is registered, loop() has not     *)
(* been called yet.                                                        *)
(***************************************************************************)
Init ==
  /\ pc = "created"
  /\ quit_ = FALSE
  /\ callingPendingFunctors_ = FALSE
  /\ pendingFunctors_ = << >>
  /\ functors = << >>
  /\ activeChannels_ = {}
  /\ signalled = FALSE
  /\ ready = {}
  /\ waking = {}
  /\ executed = << >>
  /\ eventsSize = InitEventsSize

-----------------------------------------------------------------------------
(***************************************************************************)
(* Calls made on the loop, by another thread at any time and by the IO     *)
(* thread itself while it is inside a channel's callback or a functor.     *)
(***************************************************************************)
CanCall(t) ==
  /\ t \notin waking
  /\ t = LoopThread => pc \in {"event", "functor"}

\* Each functor stands for one call, so it is queued once.
Submitted == executed \o functors \o pendingFunctors_
Fresh(f)  == \A i \in 1..Len(Submitted) : Submitted[i] # f

QueueInLoop_NeverWhileCalling(t, f) ==   \* mutant: only other threads wake up
  /\ CanCall(t)
  /\ Fresh(f)
  /\ pendingFunctors_' = Append(pendingFunctors_, f)
  /\ waking' = IF t # LoopThread THEN waking \cup {t} ELSE waking
  /\ UNCHANGED <<pc, quit_, callingPendingFunctors_, functors,
                 activeChannels_, signalled, ready, executed, eventsSize>>

QueueInLoop_OnlyWhileCalling(t, f) ==    \* mutant: the test forgets the caller
  /\ CanCall(t)
  /\ Fresh(f)
  /\ pendingFunctors_' = Append(pendingFunctors_, f)
  /\ waking' = IF callingPendingFunctors_ THEN waking \cup {t} ELSE waking
  /\ UNCHANGED <<pc, quit_, callingPendingFunctors_, functors,
                 activeChannels_, signalled, ready, executed, eventsSize>>

QueueInLoop(t, f) ==
  /\ CanCall(t)
  /\ Fresh(f)
  /\ pendingFunctors_' = Append(pendingFunctors_, f)
  /\ waking' = IF t # LoopThread \/ callingPendingFunctors_
                 THEN waking \cup {t}
                 ELSE waking
  /\ UNCHANGED <<pc, quit_, callingPendingFunctors_, functors,
                 activeChannels_, signalled, ready, executed, eventsSize>>

Quit_NoWakeup(t) ==                      \* mutant: quit() only sets the flag
  /\ CanCall(t)
  /\ quit_' = TRUE
  /\ UNCHANGED <<pc, callingPendingFunctors_, pendingFunctors_, functors,
                 activeChannels_, signalled, ready, waking, executed,
                 eventsSize>>

Quit(t) ==
  /\ CanCall(t)
  /\ quit_' = TRUE
  /\ waking' = IF t # LoopThread THEN waking \cup {t} ELSE waking
  /\ UNCHANGED <<pc, callingPendingFunctors_, pendingFunctors_, functors,
                 activeChannels_, signalled, ready, executed, eventsSize>>

\* The second half of queueInLoop and quit.
Wakeup(t) ==
  /\ t \in waking
  /\ waking' = waking \ {t}
  /\ signalled' = TRUE
  /\ ready' = ready \cup {WakeupChannel}
  /\ UNCHANGED <<pc, quit_, callingPendingFunctors_, pendingFunctors_,
                 functors, activeChannels_, executed, eventsSize>>

-----------------------------------------------------------------------------
(***************************************************************************)
(* The IO thread: loop().                                                  *)
(***************************************************************************)
LoopAt(from, to) ==
  /\ pc = from
  /\ LoopThread \notin waking
  /\ pc' = to

\* loop() forgets a quit() that came before it.
LoopEnter ==
  /\ LoopAt("created", "check")
  /\ quit_' = FALSE
  /\ UNCHANGED <<callingPendingFunctors_, pendingFunctors_, functors,
                 activeChannels_, signalled, ready, waking, executed,
                 eventsSize>>

LoopTest ==
  /\ LoopAt("check", IF quit_ THEN "exited" ELSE "poll")
  /\ UNCHANGED <<quit_, callingPendingFunctors_, pendingFunctors_, functors,
                 activeChannels_, signalled, ready, waking, executed,
                 eventsSize>>

\* What epoll_wait would report now: a channel on the ready list whose file is
\* readable (the eventfd may have been read since the write that put it there).
Reportable == {c \in ready : c = WakeupChannel => signalled}

\* epoll_wait fills events_ as far as it goes, and what does not fit stays on the
\* ready list; Epoller::poll doubles events_ when it was filled.
Poll ==
  /\ LoopAt("poll", "handle")
  /\ Reportable # {}
  /\ \E reported \in SUBSET Reportable :
       /\ Cardinality(reported) <= eventsSize
       /\ reported = Reportable \/ Cardinality(reported) = eventsSize
       /\ activeChannels_' = reported
       /\ ready' = Reportable \ reported
       /\ eventsSize' = IF Cardinality(reported) = eventsSize
                          THEN 2 * eventsSize
                          ELSE eventsSize
  /\ UNCHANGED <<quit_, callingPendingFunctors_, pendingFunctors_, functors,
                 signalled, waking, executed>>

\* Nothing for kPollTimeMs, or a signal.
PollNothing ==
  /\ LoopAt("poll", "handle")
  /\ Reportable = {}
  /\ activeChannels_' = {}
  /\ ready' = {}
  /\ UNCHANGED <<quit_, callingPendingFunctors_, pendingFunctors_, functors,
                 signalled, waking, executed, eventsSize>>

\* handleEvent() of wakeupChannel_ is EventLoop::handleRead: it reads the
\* eventfd, which sets its counter to zero.
HandleWakeup ==
  /\ LoopAt("handle", "handle")
  /\ WakeupChannel \in activeChannels_
  /\ activeChannels_' = activeChannels_ \ {WakeupChannel}
  /\ signalled' = FALSE
  /\ UNCHANGED <<quit_, callingPendingFunctors_, pendingFunctors_, functors,
                 ready, waking, executed, eventsSize>>

\* handleEvent() of a client's channel enters the client's callback.
HandleEvent(c) ==
  /\ LoopAt("handle", "event")
  /\ c \in activeChannels_
  /\ activeChannels_' = activeChannels_ \ {c}
  /\ UNCHANGED <<quit_, callingPendingFunctors_, pendingFunctors_, functors,
                 signalled, ready, waking, executed, eventsSize>>

EventDone ==
  /\ LoopAt("event", "handle")
  /\ UNCHANGED <<quit_, callingPendingFunctors_, pendingFunctors_, functors,
                 activeChannels_, signalled, ready, waking, executed,
                 eventsSize>>

-----------------------------------------------------------------------------
(***************************************************************************)
(* The IO thread: doPendingFunctors().                                     *)
(***************************************************************************)
DoPendingFunctors ==
  /\ LoopAt("handle", "swap")
  /\ activeChannels_ = {}
  /\ callingPendingFunctors_' = TRUE
  /\ UNCHANGED <<quit_, pendingFunctors_, functors, activeChannels_,
                 signalled, ready, waking, executed, eventsSize>>

SwapPending_Copy ==                      \* mutant: a copy instead of a swap
  /\ LoopAt("swap", "functors")
  /\ functors' = pendingFunctors_
  /\ UNCHANGED <<quit_, callingPendingFunctors_, pendingFunctors_,
                 activeChannels_, signalled, ready, waking, executed,
                 eventsSize>>

SwapPending ==
  /\ LoopAt("swap", "functors")
  /\ functors' = pendingFunctors_
  /\ pendingFunctors_' = << >>
  /\ UNCHANGED <<quit_, callingPendingFunctors_, activeChannels_, signalled,
                 ready, waking, executed, eventsSize>>

RunFunctor ==
  /\ LoopAt("functors", "functor")
  /\ functors # << >>
  /\ functors' = Tail(functors)
  /\ executed' = Append(executed, Head(functors))
  /\ UNCHANGED <<quit_, callingPendingFunctors_, pendingFunctors_,
                 activeChannels_, signalled, ready, waking, eventsSize>>

FunctorDone ==
  /\ LoopAt("functor", "functors")
  /\ UNCHANGED <<quit_, callingPendingFunctors_, pendingFunctors_, functors,
                 activeChannels_, signalled, ready, waking, executed,
                 eventsSize>>

PendingDone_StillCalling ==              \* mutant: the flag is never cleared
  /\ LoopAt("functors", "check")
  /\ functors = << >>
  /\ UNCHANGED <<quit_, callingPendingFunctors_, pendingFunctors_, functors,
                 activeChannels_, signalled, ready, waking, executed,
                 eventsSize>>

PendingDone ==
  /\ LoopAt("functors", "check")
  /\ functors = << >>
  /\ callingPendingFunctors_' = FALSE
  /\ UNCHANGED <<quit_, pendingFunctors_, functors, activeChannels_,
                 signalled, ready, waking, executed, eventsSize>>

-----------------------------------------------------------------------------
\* The kernel: a client's channel becomes ready.
ChannelReady(c) ==
  /\ c \notin ready
  /\ ready' = ready \cup {c}
  /\ UNCHANGED <<pc, quit_, callingPendingFunctors_, pendingFunctors_,
                 functors, activeChannels_, signalled, waking, executed,
                 eventsSize>>

LoopStep ==
  \/ LoopEnter \/ LoopTest
  \/ Poll \/ HandleWakeup \/ EventDone \/ \E c \in Channels : HandleEvent(c)
  \/ DoPendingFunctors \/ SwapPending \/ RunFunctor \/ FunctorDone
  \/ PendingDone

\* runInLoop is queueInLoop for another thread; in the IO thread it calls the
\* functor at once, as a part of the callback that is running.
Call(t) == Quit(t) \/ \E f \in Functors : QueueInLoop(t, f)

Next ==
  \/ LoopStep
  \/ PollNothing
  \/ \E t \in AllThreads : Call(t) \/ Wakeup(t)
  \/ \E c \in Channels : ChannelReady(c)

Spec == Init /\ [][Next]_vars

(***************************************************************************)
(* The operating system lets the IO thread run as long as it is not        *)
(* blocked in epoll_wait, callbacks and functors return, and a thread that *)
(* has pushed a functor goes on to write to the eventfd.  There is no      *)
(* fairness on PollNothing: nothing may depend on the 10 seconds of        *)
(* kPollTimeMs.                                                            *)
(***************************************************************************)
Fairness == WF_vars(LoopStep) /\ \A t \in AllThreads : WF_vars(Wakeup(t))

FairSpec == Spec /\ Fairness

-----------------------------------------------------------------------------
(***************************************************************************)
(* Properties.                                                             *)
(***************************************************************************)
\* The IO thread is woken, or somebody is about to wake it.
WakeupUnderWay == waking # {} \/ (signalled /\ WakeupChannel \in ready)

\* No lost wakeup: whenever the IO thread is in epoll_wait while there is a
\* queued functor or a quit() to act upon, the eventfd is going to wake it
\* (queueInLoop, quit and wakeup against loop, handleRead and the swap in
\* doPendingFunctors).
NoLostWakeup == pc = "poll" /\ (pendingFunctors_ # << >> \/ quit_) => WakeupUnderWay

\* From the swap to the next epoll_wait, whoever adds a functor leaves a wakeup
\* behind; handleRead, which consumes wakeups, runs only before the swap.
PendingHasWakeup ==
  pc \in {"created", "check", "poll", "functors", "functor"}
    /\ pendingFunctors_ # << >> => WakeupUnderWay

\* Only quit() of another thread can set quit_ while the IO thread polls.
QuitHasWakeup == pc = "poll" /\ quit_ => WakeupUnderWay

\* callingPendingFunctors_ is up exactly while doPendingFunctors runs, and the
\* IO thread wakes itself only from a functor.
CallingFlag ==
  /\ callingPendingFunctors_ <=> pc \in {"swap", "functors", "functor"}
  /\ LoopThread \in waking => pc = "functor"

\* handleRead never finds the eventfd empty: its error branch is not taken.
WakeupReadable ==
  WakeupChannel \in activeChannels_ =>
    signalled /\ pc \in {"handle", "event"}

\* loop() leaves and doPendingFunctors starts with an empty local vector.
LocalVector == functors # << >> => pc \in {"functors", "functor"}

\* What holds even when a wakeup() that comes before init() is lost.
QuitInv == QuitHasWakeup /\ CallingFlag /\ WakeupReadable /\ LocalVector

\* The inductive invariant behind NoLostWakeup: every functor or quit() the IO
\* thread has not noticed is accompanied by a wakeup.
WakeupInv == PendingHasWakeup /\ QuitInv

\* The invariant of the loop: its types, and no wakeup owed to anybody.
LoopInv == TypeOK /\ WakeupInv

\* Functors run in the order in which queueInLoop pushed them, each at most once,
\* whatever is queued while a batch runs.
Abstract == INSTANCE Executor WITH submitted <- Submitted

ImplementsExecutor == Abstract!Spec

\* A queued functor is executed, without the help of the poll timeout, unless
\* the loop ends first.
FunctorsRun ==
  \A f \in Functors :
    (\E i \in 1..Len(pendingFunctors_) : pendingFunctors_[i] = f) ~>
      (pc = "exited" \/ \E i \in 1..Len(executed) : executed[i] = f)

\* quit() of a running loop ends it, from whichever thread it is called.
QuitStops == (quit_ /\ pc # "created") ~> pc = "exited"
=============================================================================
