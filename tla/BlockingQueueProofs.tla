------------------------ MODULE BlockingQueueProofs -------------------------
(***************************************************************************)
(* Proofs about BlockingQueue for any number of producers, consumers and   *)
(* items and every capacity.                                               *)
(***************************************************************************)
EXTENDS BlockingQueue, FiniteSetTheorems, TLAPS

\* The types hold at the start.
LEMMA InitType == Init => TypeOK
BY CapacityAssumption DEF Init, TypeOK

\* The mutex protects everything: the queue never exceeds its capacity, and a
\* thread sleeps on, or has been woken from, at most one condition variable.
LEMMA NextType == TypeOK /\ [Next]_vars => TypeOK'
<1> SUFFICES ASSUME TypeOK, [Next]_vars PROVE TypeOK'
  OBVIOUS
<1> USE CapacityAssumption, NoItemAssumption
<1>1. ASSUME NEW p \in Producers, CallPut(p) PROVE TypeOK'
  <2>1. PICK x \in Items : arg' = [arg EXCEPT ![p] = x]
    BY <1>1 DEF CallPut
  <2>2. p \notin notFull /\ p \notin putters
    BY <1>1 DEF CallPut, TypeOK
  <2> QED BY <1>1, <2>1, <2>2 DEF CallPut, TypeOK
<1>2. ASSUME NEW p \in Producers, PutWaits(p) PROVE TypeOK'
  BY <1>2 DEF PutWaits, TypeOK
<1>3. ASSUME NEW p \in Producers, Put(p) PROVE TypeOK'
  <2>1. queue' \in Seq(Items) /\ Len(queue') <= Capacity
    BY <1>3 DEF Put, TypeOK, full
  <2>2. notEmpty' \subseteq Consumers /\ takers' \subseteq Consumers \ notEmpty'
    BY <1>3 DEF Put, NotifyTaker, TypeOK
  <2> QED BY <1>3, <2>1, <2>2 DEF Put, TypeOK
<1>4. ASSUME NEW p \in Producers, SpuriousPut(p) PROVE TypeOK'
  BY <1>4 DEF SpuriousPut, TypeOK
<1>5. ASSUME NEW c \in Consumers, TakeWaits(c) PROVE TypeOK'
  BY <1>5 DEF TakeWaits, TypeOK
<1>6. ASSUME NEW c \in Consumers, Take(c) PROVE TypeOK'
  <2>1. queue' \in Seq(Items) /\ Len(queue') <= Capacity /\ taken' \in Seq(Items)
    BY <1>6 DEF Take, TypeOK, empty
  <2>2. /\ notFull' \subseteq Producers /\ putters' \subseteq Producers \ notFull'
        /\ notFull' \cup putters' = notFull \cup putters
    BY <1>6 DEF Take, NotifyPutter, TypeOK
  <2> QED BY <1>6, <2>1, <2>2 DEF Take, TypeOK
<1>7. ASSUME NEW c \in Consumers, SpuriousTake(c) PROVE TypeOK'
  BY <1>7 DEF SpuriousTake, TypeOK
<1>8. CASE UNCHANGED vars
  BY <1>8 DEF vars, TypeOK
<1> QED
  BY <1>1, <1>2, <1>3, <1>4, <1>5, <1>6, <1>7, <1>8
  DEF Next, ProducerStep, ConsumerStep, Done

\* The queue is never longer than its capacity, whatever the interleaving.
THEOREM TypeCorrect == Spec => []TypeOK
BY InitType, NextType, PTL DEF Spec

-----------------------------------------------------------------------------
\* Adding or removing one thread changes the number of woken threads by one.
LEMMA CountThreads ==
  ASSUME NEW S, IsFiniteSet(S), NEW W, W \subseteq S, NEW t \in S
  PROVE  /\ Cardinality(W) \in Nat
         /\ Cardinality(W \cup {t}) \in Nat /\ Cardinality(W \ {t}) \in Nat
         /\ t \notin W => Cardinality(W \cup {t}) = Cardinality(W) + 1
         /\ t \notin W => W \ {t} = W
         /\ t \in W => Cardinality(W \ {t}) = Cardinality(W) - 1
<1>1. IsFiniteSet(W)
  BY FS_Subset
<1>2. IsFiniteSet(W \cup {t}) /\ IsFiniteSet(W \ {t})
  BY <1>1, FS_AddElement, FS_RemoveElement
<1>3. Cardinality(W) \in Nat /\ Cardinality(W \cup {t}) \in Nat /\ Cardinality(W \ {t}) \in Nat
  BY <1>1, <1>2, FS_CardinalityType
<1>4. t \notin W => Cardinality(W \cup {t}) = Cardinality(W) + 1
  BY <1>1, FS_AddElement
<1>5. t \in W => Cardinality(W \ {t}) = Cardinality(W) - 1
  BY <1>1, FS_RemoveElement
<1> QED BY <1>3, <1>4, <1>5

\* The queue keeps within its capacity, and nobody sleeps while an item or a free
\* place has no thread on its way to it.
THEOREM NoStrandedWaiterAlways == Spec => []QueueInv
<1> DEFINE Inv == TypeOK /\ NoStrandedWaiter
<1>1. Init => Inv
  BY InitType DEF Init, NoStrandedWaiter
<1>2. Inv /\ [Next]_vars => Inv'
  <2> SUFFICES ASSUME Inv, [Next]_vars PROVE NoStrandedWaiter'
    BY NextType
  <2> USE CapacityAssumption
  <2>t. /\ Len(queue) \in Nat /\ Len(queue) <= Capacity
        /\ notFull \subseteq Producers /\ putters \subseteq Producers
        /\ notEmpty \subseteq Consumers /\ takers \subseteq Consumers
        /\ notFull \cap putters = {} /\ notEmpty \cap takers = {}
    BY DEF TypeOK
  <2>c. Cardinality(takers) \in Nat /\ Cardinality(putters) \in Nat
    BY <2>t, ProducersAssumption, ConsumersAssumption, FS_Subset, FS_CardinalityType
  <2>1. ASSUME NEW p \in Producers, CallPut(p) PROVE NoStrandedWaiter'
    <3>1. /\ putters' = putters \cup {p}
          /\ UNCHANGED <<queue, notFull, notEmpty, takers>>
      BY <2>1 DEF CallPut
    <3>2. Cardinality(putters') \in Nat /\ Cardinality(putters') >= Cardinality(putters)
      <4>1. CASE p \in putters
        BY <2>c, <3>1, <4>1
      <4>2. CASE p \notin putters
        BY <2>t, <2>c, <3>1, <4>2, ProducersAssumption, CountThreads
      <4> QED BY <4>1, <4>2
    <3> QED BY <2>t, <2>c, <3>1, <3>2 DEF NoStrandedWaiter
  <2>2. ASSUME NEW p \in Producers, PutWaits(p) PROVE NoStrandedWaiter'
    <3>1. Capacity - Len(queue) = 0
      BY <2>2, <2>t DEF PutWaits, full
    <3>2. Cardinality(putters') \in Nat
      BY <2>2, <2>t, ProducersAssumption, CountThreads DEF PutWaits
    <3> QED BY <2>2, <2>t, <3>1, <3>2 DEF PutWaits, NoStrandedWaiter
  <2>3. ASSUME NEW p \in Producers, Put(p) PROVE NoStrandedWaiter'
    <3>1. Len(queue') = Len(queue) + 1
      BY <2>3 DEF Put, TypeOK
    <3>2. Cardinality(putters') = Cardinality(putters) - 1
      BY <2>3, <2>t, ProducersAssumption, CountThreads DEF Put
    <3>3. notEmpty' # {} => Cardinality(takers') = Cardinality(takers) + 1
      <4>1. CASE notEmpty = {}
        BY <2>3, <4>1 DEF Put, NotifyTaker
      <4>2. CASE notEmpty # {}
        <5>1. PICK c \in notEmpty : takers' = takers \cup {c}
          BY <2>3, <4>2 DEF Put, NotifyTaker
        <5> QED BY <2>t, <5>1, ConsumersAssumption, CountThreads
      <4> QED BY <4>1, <4>2
    <3>4. notEmpty' # {} => notEmpty # {}
      BY <2>3 DEF Put, NotifyTaker
    <3>5. notFull' = notFull
      BY <2>3 DEF Put
    <3> QED BY <2>t, <2>c, <3>1, <3>2, <3>3, <3>4, <3>5 DEF NoStrandedWaiter
  <2>4. ASSUME NEW p \in Producers, SpuriousPut(p) PROVE NoStrandedWaiter'
    <3>1. Cardinality(putters') = Cardinality(putters) + 1
      BY <2>4, <2>t, ProducersAssumption, CountThreads DEF SpuriousPut
    <3> QED BY <2>4, <2>t, <2>c, <3>1 DEF SpuriousPut, NoStrandedWaiter
  <2>5. ASSUME NEW c \in Consumers, TakeWaits(c) PROVE NoStrandedWaiter'
    <3>1. Len(queue) = 0 /\ Cardinality(takers') \in Nat
      BY <2>5, <2>t, ConsumersAssumption, CountThreads DEF TakeWaits, empty
    <3> QED BY <2>5, <2>t, <3>1 DEF TakeWaits, NoStrandedWaiter
  <2>6. ASSUME NEW c \in Consumers, Take(c) PROVE NoStrandedWaiter'
    <3>1. Len(queue) > 0 /\ Len(queue') = Len(queue) - 1
      BY <2>6 DEF Take, TypeOK, empty
    <3>2. Cardinality(takers') \in Nat /\ Cardinality(takers') >= Cardinality(takers) - 1
      <4>1. CASE c \in takers
        BY <2>6, <2>t, <2>c, <4>1, ConsumersAssumption, CountThreads DEF Take
      <4>2. CASE c \notin takers
        <5>1. takers' = takers
          BY <2>6, <4>2 DEF Take
        <5> QED BY <2>c, <5>1
      <4> QED BY <4>1, <4>2
    <3>3. notFull' # {} => Cardinality(putters') = Cardinality(putters) + 1
      <4>1. CASE notFull = {}
        BY <2>6, <4>1 DEF Take, NotifyPutter
      <4>2. CASE notFull # {}
        <5>1. PICK p \in notFull : putters' = putters \cup {p}
          BY <2>6, <4>2 DEF Take, NotifyPutter
        <5> QED BY <2>t, <5>1, ProducersAssumption, CountThreads
      <4> QED BY <4>1, <4>2
    <3>4. notFull' # {} => notFull # {}
      BY <2>6 DEF Take, NotifyPutter
    <3>5. notEmpty' = notEmpty
      BY <2>6 DEF Take
    <3> QED BY <2>t, <2>c, <3>1, <3>2, <3>3, <3>4, <3>5 DEF NoStrandedWaiter
  <2>7. ASSUME NEW c \in Consumers, SpuriousTake(c) PROVE NoStrandedWaiter'
    <3>1. Cardinality(takers') = Cardinality(takers) + 1
      BY <2>7, <2>t, ConsumersAssumption, CountThreads DEF SpuriousTake
    <3> QED BY <2>7, <2>t, <2>c, <3>1 DEF SpuriousTake, NoStrandedWaiter
  <2>8. CASE UNCHANGED vars
    BY <2>8 DEF vars, NoStrandedWaiter
  <2> QED
    BY <2>1, <2>2, <2>3, <2>4, <2>5, <2>6, <2>7, <2>8
    DEF Next, ProducerStep, ConsumerStep, Done
<1>3. Inv => QueueInv
  BY DEF QueueInv
<1> QED BY <1>1, <1>2, <1>3, PTL DEF Spec
-----------------------------------------------------------------------------
\* A put appends to what has been submitted.
LEMMA Accepts ==
  ASSUME NEW S, NEW a \in Seq(S), NEW b \in Seq(S), NEW x \in S
  PROVE  a \o Append(b, x) = Append(a \o b, x)
OBVIOUS

\* A take moves the first item from the queue to the taken ones.
LEMMA Passes ==
  ASSUME NEW S, NEW a \in Seq(S), NEW b \in Seq(S), b # << >>
  PROVE  /\ Append(a, Head(b)) \o Tail(b) = a \o b
         /\ Len(a) < Len(a \o b)
         /\ (a \o b)[Len(a) + 1] = Head(b)
OBVIOUS

\* The queue implements the Executor: put submits, take executes, and waiting,
\* waking up and notifying change neither.
THEOREM QueueImplementsExecutor == Spec => ImplementsExecutor
<1>1. Init => Abstract!Init
  BY DEF Init, Abstract!Init, Accepted
<1>2. TypeOK /\ [Next]_vars => [Abstract!Next]_<<Accepted, taken>>
  <2> SUFFICES ASSUME TypeOK, [Next]_vars
               PROVE  Abstract!Next \/ UNCHANGED <<Accepted, taken>>
    OBVIOUS
  <2>1. ASSUME NEW p \in Producers, Put(p) PROVE Abstract!Next
    <3>1. arg[p] \in Items
      BY <2>1 DEF Put, TypeOK
    <3>2. Accepted' = Append(Accepted, arg[p]) /\ UNCHANGED taken
      BY <2>1, <3>1, Accepts DEF Put, Accepted, TypeOK
    <3> QED BY <3>1, <3>2 DEF Abstract!Next, Abstract!Submit
  <2>2. ASSUME NEW c \in Consumers, Take(c) PROVE Abstract!Next
    <3>1. /\ Append(taken, Head(queue)) \o Tail(queue) = Accepted
          /\ Len(taken) < Len(Accepted)
          /\ Accepted[Len(taken) + 1] = Head(queue)
      BY <2>2, Passes DEF Take, empty, Accepted, TypeOK
    <3>2. Accepted' = Accepted /\ taken' = Append(taken, Head(queue))
      BY <2>2, <3>1 DEF Take, Accepted
    <3> QED BY <3>1, <3>2 DEF Abstract!Next, Abstract!Execute
  <2>3. ASSUME UNCHANGED <<queue, taken>> PROVE UNCHANGED <<Accepted, taken>>
    BY <2>3 DEF Accepted
  <2>4. ASSUME NEW p \in Producers, CallPut(p) \/ PutWaits(p) \/ SpuriousPut(p)
        PROVE  UNCHANGED <<queue, taken>>
    BY <2>4 DEF CallPut, PutWaits, SpuriousPut
  <2>5. ASSUME NEW c \in Consumers, TakeWaits(c) \/ SpuriousTake(c)
        PROVE  UNCHANGED <<queue, taken>>
    BY <2>5 DEF TakeWaits, SpuriousTake
  <2>6. CASE UNCHANGED vars
    BY <2>3, <2>6 DEF vars
  <2> QED
    BY <2>1, <2>2, <2>3, <2>4, <2>5, <2>6 DEF Next, ProducerStep, ConsumerStep, Done
<1> QED BY <1>1, <1>2, TypeCorrect, PTL DEF Spec, ImplementsExecutor, Abstract!Spec
=============================================================================
