--------------------------- MODULE BlockingQueue ----------------------------
(***************************************************************************)
(* BoundedBlockingQueue and BlockingQueue (base/BoundedBlockingQueue.h,    *)
(* base/BlockingQueue.h): producers call put, consumers call take, and     *)
(* everything happens under one mutex, so what a thread does between       *)
(* getting the mutex and releasing it or waiting is one step.              *)
(*                                                                         *)
(* BlockingQueue is the case in which Capacity is never reached: its put   *)
(* never waits, and the notFull.notify_one() of take, which it does not    *)
(* have, finds nobody.                                                     *)
(***************************************************************************)
EXTENDS Naturals, Sequences, FiniteSets, Functions

CONSTANTS
  Producers, Consumers,
  Items,           \* what is put into the queue, each item once
  Capacity,        \* maxSize
  NoItem

ASSUME ProducersAssumption == IsFiniteSet(Producers)
ASSUME ConsumersAssumption == IsFiniteSet(Consumers)
ASSUME CapacityAssumption == Capacity \in Nat \ {0}
ASSUME NoItemAssumption == NoItem \notin Items

VARIABLES
  queue,
  arg,             \* the argument of the put that a producer is in, or NoItem
  notFull,         \* the producers that sleep in notFull.wait
  putters,         \* the producers that wait for the mutex, at first or again
  notEmpty,        \* the consumers that sleep in notEmpty.wait
  takers,          \* the consumers that wait for the mutex after a wakeup
  taken            \* history: what take has returned, in order

vars == <<queue, arg, notFull, putters, notEmpty, takers, taken>>

TypeOK ==
  /\ queue \in Seq(Items) /\ Len(queue) <= Capacity
  /\ taken \in Seq(Items)
  /\ arg \in [Producers -> Items \cup {NoItem}]
  /\ notFull \subseteq Producers /\ putters \subseteq Producers \ notFull
  /\ notEmpty \subseteq Consumers /\ takers \subseteq Consumers \ notEmpty
  /\ \A p \in notFull \cup putters : arg[p] \in Items

Init ==
  /\ queue = << >> /\ taken = << >>
  /\ arg = [p \in Producers |-> NoItem]
  /\ notFull = {} /\ putters = {}
  /\ notEmpty = {} /\ takers = {}

empty == queue = << >>

full == Len(queue) = Capacity

-----------------------------------------------------------------------------
Used ==
  Range(queue) \cup Range(taken) \cup {arg[p] : p \in Producers}

\* notify_one(): one of the sleepers of the condition variable is moved to those
\* that wait for the mutex, if there is one.
NotifyTaker ==
  \/ notEmpty = {} /\ UNCHANGED <<notEmpty, takers>>
  \/ \E c \in notEmpty : notEmpty' = notEmpty \ {c} /\ takers' = takers \cup {c}

\* A producer enters put(x).
CallPut(p) ==
  /\ arg[p] = NoItem
  /\ \E x \in Items \ Used : arg' = [arg EXCEPT ![p] = x]
  /\ putters' = putters \cup {p}
  /\ UNCHANGED <<queue, notFull, notEmpty, takers, taken>>

\* It gets the mutex and finds the queue full.
PutWaits(p) ==
  /\ p \in putters
  /\ full
  /\ putters' = putters \ {p}
  /\ notFull' = notFull \cup {p}
  /\ UNCHANGED <<queue, arg, notEmpty, takers, taken>>

Put_NotifiesIfEmpty(p) ==                \* mutant: notify only the first item
  /\ p \in putters
  /\ ~full
  /\ queue' = Append(queue, arg[p])
  /\ IF empty THEN NotifyTaker ELSE UNCHANGED <<notEmpty, takers>>
  /\ putters' = putters \ {p}
  /\ arg' = [arg EXCEPT ![p] = NoItem]
  /\ UNCHANGED <<notFull, taken>>

Put_NeverNotifies(p) ==                  \* mutant: notify forgotten
  /\ p \in putters
  /\ ~full
  /\ queue' = Append(queue, arg[p])
  /\ putters' = putters \ {p}
  /\ arg' = [arg EXCEPT ![p] = NoItem]
  /\ UNCHANGED <<notFull, notEmpty, takers, taken>>

\* It gets the mutex and finds room: push_back and notEmpty.notify_one().
Put(p) ==
  /\ p \in putters
  /\ ~full
  /\ queue' = Append(queue, arg[p])
  /\ NotifyTaker
  /\ putters' = putters \ {p}
  /\ arg' = [arg EXCEPT ![p] = NoItem]
  /\ UNCHANGED <<notFull, taken>>

NotifyPutter ==
  \/ notFull = {} /\ UNCHANGED <<notFull, putters>>
  \/ \E p \in notFull : notFull' = notFull \ {p} /\ putters' = putters \cup {p}

\* A consumer, newly in take or woken up, gets the mutex and finds nothing.
TakeWaits(c) ==
  /\ c \notin notEmpty
  /\ empty
  /\ notEmpty' = notEmpty \cup {c}
  /\ takers' = takers \ {c}
  /\ UNCHANGED <<queue, arg, notFull, putters, taken>>

Take_Back(c) ==                          \* mutant: the youngest item is taken
  /\ c \notin notEmpty
  /\ ~empty
  /\ taken' = Append(taken, queue[Len(queue)])
  /\ queue' = SubSeq(queue, 1, Len(queue) - 1)
  /\ NotifyPutter
  /\ takers' = takers \ {c}
  /\ UNCHANGED <<arg, notEmpty>>

Take_NotifiesIfFull(c) ==                \* mutant: notify only when it was full
  /\ c \notin notEmpty
  /\ ~empty
  /\ taken' = Append(taken, Head(queue))
  /\ queue' = Tail(queue)
  /\ IF full THEN NotifyPutter ELSE UNCHANGED <<notFull, putters>>
  /\ takers' = takers \ {c}
  /\ UNCHANGED <<arg, notEmpty>>

\* It finds an item: pop_front and notFull.notify_one().
Take(c) ==
  /\ c \notin notEmpty
  /\ ~empty
  /\ taken' = Append(taken, Head(queue))
  /\ queue' = Tail(queue)
  /\ NotifyPutter
  /\ takers' = takers \ {c}
  /\ UNCHANGED <<arg, notEmpty>>

\* A sleeper may wake up without having been notified.
SpuriousTake(c) ==
  /\ c \in notEmpty
  /\ notEmpty' = notEmpty \ {c}
  /\ takers' = takers \cup {c}
  /\ UNCHANGED <<queue, arg, notFull, putters, taken>>

SpuriousPut(p) ==
  /\ p \in notFull
  /\ notFull' = notFull \ {p}
  /\ putters' = putters \cup {p}
  /\ UNCHANGED <<queue, arg, notEmpty, takers, taken>>

\* Everything has been put and taken, and the consumers wait for more.
Done ==
  /\ Range(taken) = Items
  /\ UNCHANGED vars

ProducerStep(p) == PutWaits(p) \/ Put(p)
ConsumerStep(c) == TakeWaits(c) \/ Take(c)

Next ==
  \/ \E p \in Producers : CallPut(p) \/ ProducerStep(p) \/ SpuriousPut(p)
  \/ \E c \in Consumers : ConsumerStep(c) \/ SpuriousTake(c)
  \/ Done

Spec == Init /\ [][Next]_vars

\* A thread that can have the mutex gets it some time, and consumers call take
\* again; nobody is obliged to call put, and no wakeup is spurious by duty.
FairSpec ==
  /\ Spec
  /\ \A p \in Producers : WF_vars(ProducerStep(p))
  /\ \A c \in Consumers : WF_vars(ConsumerStep(c))

-----------------------------------------------------------------------------
\* Nobody sleeps while there is work for him: as long as a consumer sleeps,
\* every item has a consumer that has been woken up for it, and as long as a
\* producer sleeps, so has every free place.  One notify_one per put and per
\* take is enough, although the woken thread may come too late for its item.
NoStrandedWaiter ==
  /\ notEmpty # {} => Len(queue) <= Cardinality(takers)
  /\ notFull # {} => Capacity - Len(queue) <= Cardinality(putters)

\* The queue stays within its bound, whoever waits in put still has his item to
\* hand over, and nobody is left asleep.
QueueInv == TypeOK /\ NoStrandedWaiter

\* The queue hands out the items in the order in which put accepted them.
Accepted == taken \o queue

Abstract == INSTANCE Executor
  WITH Functors <- Items, submitted <- Accepted, executed <- taken

ImplementsExecutor == Abstract!Spec

\* An item that is in a put, even one that has to wait, is taken in the end.
ItemsTaken ==
  \A x \in Items : (\E p \in Producers : arg[p] = x) ~> x \in Range(taken)
=============================================================================
