-------------------------- MODULE TcpServerProofs ---------------------------
(***************************************************************************)
(* Proofs about TcpServer for any number of sub loops, descriptors and     *)
(* clients; and, at the end, about the parser that reads what a connection *)
(* of the server has received.                                             *)
(***************************************************************************)
EXTENDS TcpServer, HttpParser, FiniteSetTheorems, SequenceTheorems, TLAPS

\* A set of naturals that is not empty has a least element, and Min is it.
LEMMA MinProperty ==
  ASSUME NEW S, S \subseteq Nat, S # {}
  PROVE  Min(S) \in S /\ \A y \in S : Min(S) <= y
<1> DEFINE R == OpToRel(<, Nat)
<1>1. IsWellFoundedOn(R, Nat)
  BY NatLessThanWellFounded
<1>2. R = {ss \in Nat \X Nat : ss[1] < ss[2]}
  BY Zenon DEF OpToRel
<1> HIDE DEF R
<1>3. PICK x \in S : \A y \in S : ~(<<y, x>> \in R)
  BY <1>1, WFMin
<1>4. ASSUME NEW y \in S PROVE x <= y
  <2>1. <<y, x>> \in Nat \X Nat /\ <<y, x>> \notin R
    BY <1>3
  <2>2. ~(<<y, x>>[1] < <<y, x>>[2])
    BY <1>2, <2>1
  <2>3. x \in Nat /\ y \in Nat
    OBVIOUS
  <2> QED BY <2>2, <2>3
<1> QED BY <1>4 DEF Min

\* The kernel's lowest free descriptor is free.
LEMMA MinFree == FreeFds # {} => Min(FreeFds) \in FreeFds /\ Min(FreeFds) \in Fds
BY MinProperty, ServerAssumption DEF FreeFds, Fds

-----------------------------------------------------------------------------
\* What Append and Tail do to a queue.
LEMMA AppendFacts ==
  ASSUME NEW S, NEW s \in Seq(S), NEW x \in S
  PROVE  /\ Append(s, x) \in Seq(S) /\ Len(s) \in Nat /\ Len(Append(s, x)) = Len(s) + 1
         /\ \A i \in 1..Len(s) : Append(s, x)[i] = s[i]
         /\ Append(s, x)[Len(s) + 1] = x
OBVIOUS

\* What taking the first functor off a queue does.
LEMMA TailFacts ==
  ASSUME NEW S, NEW s \in Seq(S), s # << >>
  PROVE  /\ Tail(s) \in Seq(S) /\ Len(s) \in Nat \ {0} /\ Len(Tail(s)) = Len(s) - 1
         /\ \A i \in 1..(Len(s) - 1) : Tail(s)[i] = s[i + 1]
         /\ Head(s) = s[1] /\ Head(s) \in S
OBVIOUS

\* Queueing and running a functor keep the type of the queues.
LEMMA QueueType ==
  ASSUME NEW q \in [Loops -> Seq(Functors)], NEW l
  PROVE  /\ \A x \in Functors : [q EXCEPT ![l] = Append(@, x)] \in [Loops -> Seq(Functors)]
         /\ l \in Loops /\ q[l] # << >>
              => [q EXCEPT ![l] = Tail(@)] \in [Loops -> Seq(Functors)]
<1>1. ASSUME NEW x \in Functors
      PROVE  [q EXCEPT ![l] = Append(@, x)] \in [Loops -> Seq(Functors)]
  <2>1. CASE l \in Loops
    <3>1. Append(q[l], x) \in Seq(Functors)
      BY <2>1, AppendFacts
    <3> QED BY <3>1
  <2>2. CASE l \notin Loops
    BY <2>2
  <2> QED BY <2>1, <2>2
<1>2. ASSUME l \in Loops, q[l] # << >>
      PROVE  [q EXCEPT ![l] = Tail(@)] \in [Loops -> Seq(Functors)]
  <2>1. Tail(q[l]) \in Seq(Functors)
    BY <1>2, TailFacts
  <2> QED BY <2>1
<1> QED BY <1>1, <1>2

\* The descriptor table stays one when a descriptor is opened or closed.
LEMMA TableType ==
  ASSUME TypeOK
  PROVE  /\ \A o \in {Free, Idle, File} \cup Clients :
              FreeFds # {} => Opened(o) \in [Fds -> {Free, Idle, File} \cup Clients]
         /\ \A fd \in Fds \cup {0} : Closed(fd) \in [Fds -> {Free, Idle, File} \cup Clients]
BY MinFree DEF TypeOK, Opened, Closed

\* A load is a number of clients.
LEMMA Loads == \A l : Load(l) \in Nat
<1>1. IsFiniteSet(Clients)
  BY FS_Interval, ServerAssumption DEF Clients
<1> QED BY <1>1, FS_Subset, FS_CardinalityType DEF Load

\* So is the size of a connectSet_.
LEMMA Sizes == TypeOK => \A l \in Loops : Cardinality(connectSet_[l]) \in Nat
<1>1. IsFiniteSet(Clients)
  BY FS_Interval, ServerAssumption DEF Clients
<1> QED BY <1>1, FS_Subset, FS_CardinalityType DEF TypeOK

\* What min_element begins with has the right types.
LEMMA ScanType ==
  /\ 1 \in Loops /\ 2 \in 2..(numThreads_ + 1) /\ NoneRead \in [Loops -> Nat \cup {Unread}]
  /\ [l \in Loops |-> 0] \in [Loops -> Nat] /\ [l \in Loops |-> Load(l)] \in [Loops -> Nat]
  /\ [c \in Clients |-> 0] \in [Clients -> Loops \cup {0}]
<1>1. [l \in Loops |-> Load(l)] \in [Loops -> Nat]
  BY Loads
<1> QED BY <1>1, ServerAssumption DEF Loops, NoneRead

\* A message callback touches the table and its own file only.
LEMMA CallbackFrame ==
  ASSUME NEW l, OpenUrl(l) \/ CallbackStep(l)
  PROVE  UNCHANGED <<mainVars, scanVars, connVars, loopVars>>
BY DEF OpenUrl, CallbackStep, xopen, NotRegular, Open404, SentWhole, NotSent, SentPart, CloseAgain,
   Callback

\* A functor's step, as far as it is the same for all three.
LEMMA FunctorFrame ==
  ASSUME NEW l, LoopStep(l)
  PROVE  UNCHANGED <<mainVars, scanVars, owner, sockfd_, loop_, fileVars>>
BY DEF LoopStep, AddConnect, ConnectEstablished, ConnectDestroyed, RunFunctor

\* The types hold at the start.
LEMMA TypeInit == Init => TypeOK
<1> SUFFICES ASSUME Init PROVE TypeOK
  OBVIOUS
<1>1. idleFd_ \in Fds
  BY ServerAssumption DEF Init, Fds
<1>2. owner \in [Fds -> {Free, Idle, File} \cup Clients] /\ sockfd_ \in [Clients -> Fds \cup {0}]
  BY DEF Init
<1>3. conn \in [Clients -> ConnStates] /\ loop_ \in [Clients -> Loops \cup {0}]
  BY DEF Init, ConnStates
<1>4. /\ pendingFunctors_ \in [Loops -> Seq(Functors)]
      /\ connectSet_ \in [Loops -> SUBSET Clients] /\ backlog \in Seq(Clients)
  BY DEF Init
<1>5. /\ best \in Loops /\ next \in 2..(numThreads_ + 1) /\ seen \in [Loops -> Nat \cup {Unread}]
      /\ loadAt \in [Loops -> Nat] /\ queuedAt \in [Clients -> Loops \cup {0}]
  BY ScanType DEF Init
<1>6. /\ cpc \in [Loops -> {"idle", "opened", "notFound", "send", "again"}]
      /\ fd_ \in [Loops -> Fds \cup {0}] /\ stolen \in BOOLEAN
  BY DEF Init
<1> QED BY <1>1, <1>2, <1>3, <1>4, <1>5, <1>6 DEF Init, TypeOK

\* Every step keeps the types.
LEMMA TypeStep == TypeOK /\ ArrivalOrder /\ [Next]_vars => TypeOK'
<1> SUFFICES ASSUME TypeOK, ArrivalOrder, [Next]_vars PROVE TypeOK'
  OBVIOUS
<1> USE DEF TypeOK, mainVars, scanVars, history, connVars, loopVars, fileVars, ConnStates
<1>1. CASE Listen \/ EnableReading \/ HandleRead \/ AcceptNone \/ AcceptFull
  BY <1>1 DEF Listen, EnableReading, HandleRead, AcceptNone, AcceptFull
<1>2. CASE ClientConnects
  <2>1. PICK c \in Clients : /\ conn' = [conn EXCEPT ![c] = "backlog"]
                             /\ backlog' = Append(backlog, c)
    BY <1>2 DEF ClientConnects
  <2> QED BY <1>2, <2>1 DEF ClientConnects
<1>3. CASE Accept
  <2>1. Head(backlog) \in Clients /\ backlog' \in Seq(Clients)
    BY <1>3, TailFacts DEF Accept
  <2>2. /\ owner' \in [Fds -> {Free, Idle, File} \cup Clients]
        /\ sockfd_' \in [Clients -> Fds \cup {0}]
    BY <1>3, <2>1, TableType, MinFree DEF Accept
  <2>3. /\ best' \in Loops /\ next' \in 2..(numThreads_ + 1)
        /\ seen' \in [Loops -> Nat \cup {Unread}] /\ loadAt' \in [Loops -> Nat]
    BY <1>3, ScanType DEF Accept
  <2>4. queuedAt' \in [Clients -> Loops \cup {0}]
    BY <1>3 DEF Accept
  <2>5. /\ newConn' \in Clients /\ conn' \in [Clients -> ConnStates] /\ mpc' = "scan"
        /\ UNCHANGED <<edge, idleFd_, loop_, loopVars, fileVars>>
    BY <1>3, <2>1 DEF Accept
  <2> QED BY <2>1, <2>2, <2>3, <2>4, <2>5
<1>4. ASSUME NEW l \in Loops, ReadSize(l) PROVE TypeOK'
  <2>1. Cardinality(connectSet_[l]) \in Nat
    BY Sizes
  <2>2. seen' \in [Loops -> Nat \cup {Unread}]
    BY <1>4, <2>1 DEF ReadSize
  <2> QED BY <1>4, <2>2 DEF ReadSize
<1>5. CASE Compare
  <2>1. next \in Loops /\ next + 1 \in 2..(numThreads_ + 1)
    BY <1>5, ServerAssumption DEF Compare, Loops
  <2>2. /\ best' \in Loops /\ next' \in 2..(numThreads_ + 1)
        /\ seen' \in [Loops -> Nat \cup {Unread}]
    BY <1>5, <2>1, ScanType DEF Compare
  <2> QED BY <1>5, <2>2 DEF Compare
<1>n. mpc \in {"scan", "established"} => newConn \in Clients
  BY DEF ArrivalOrder
<1>6. CASE NewConnection
  <2>1. newConn \in Clients
    BY <1>6, <1>n DEF NewConnection
  <2>2. <<"addConnect", newConn>> \in Functors
    BY <2>1 DEF Functors
  <2>3. pendingFunctors_' \in [Loops -> Seq(Functors)]
    BY <1>6, <2>2, QueueType DEF NewConnection, Queue
  <2>4. /\ best' \in Loops /\ next' \in 2..(numThreads_ + 1)
        /\ seen' \in [Loops -> Nat \cup {Unread}] /\ loadAt' \in [Loops -> Nat]
        /\ queuedAt' \in [Clients -> Loops \cup {0}]
    BY <1>6, ScanType DEF NewConnection
  <2>5. conn' \in [Clients -> ConnStates] /\ loop_' \in [Clients -> Loops \cup {0}]
    BY <1>6, <2>1 DEF NewConnection
  <2>6. /\ mpc' = "established" /\ UNCHANGED <<backlog, edge, idleFd_, newConn, owner, sockfd_>>
        /\ UNCHANGED <<connectSet_, fileVars>>
    BY <1>6 DEF NewConnection
  <2> QED BY <2>3, <2>4, <2>5, <2>6
<1>7. CASE QueueEstablished
  <2>1. <<"connectEstablished", newConn>> \in Functors
    BY <1>7, <1>n DEF QueueEstablished, Functors
  <2>2. pendingFunctors_' \in [Loops -> Seq(Functors)]
    BY <1>7, <2>1, QueueType DEF QueueEstablished, Queue
  <2> QED BY <1>7, <2>2 DEF QueueEstablished
<1>8. CASE CloseIdle \/ CloseAccepted
  BY <1>8, TableType DEF CloseIdle, CloseAccepted
<1>9. CASE AcceptIdle
  <2>1. CASE FreeFds # {} /\ backlog # << >>
    <3>1. /\ owner' = Opened(Idle) /\ idleFd_' = Min(FreeFds)
          /\ conn' = [conn EXCEPT ![Head(backlog)] = "none"]
          /\ backlog' = Tail(backlog) /\ mpc' = "closeAccepted"
          /\ UNCHANGED <<edge, newConn, scanVars, sockfd_, loop_, loopVars, fileVars>>
      BY <1>9, <2>1 DEF AcceptIdle
    <3>2. owner' \in [Fds -> {Free, Idle, File} \cup Clients] /\ idleFd_' \in Fds
      BY <2>1, <3>1, TableType, MinFree
    <3>3. backlog' \in Seq(Clients)
      BY <2>1, <3>1, TailFacts
    <3> QED BY <3>1, <3>2, <3>3
  <2>2. CASE FreeFds = {} \/ backlog = << >>
    BY <1>9, <2>2 DEF AcceptIdle
  <2> QED BY <2>1, <2>2
<1>10. CASE OpenIdle
  BY <1>10, TableType, MinFree DEF OpenIdle
<1>11. ASSUME NEW l \in Loops, NEW c \in Clients,
              AddConnect(l, c) \/ ConnectEstablished(l, c) \/ ConnectDestroyed(l, c)
       PROVE  TypeOK'
  <2>1. PICK kind : RunFunctor(l, kind, c)
    BY <1>11 DEF AddConnect, ConnectEstablished, ConnectDestroyed
  <2>2. pendingFunctors_' \in [Loops -> Seq(Functors)]
    BY <2>1, QueueType DEF RunFunctor
  <2>3. UNCHANGED <<mainVars, scanVars, owner, sockfd_, loop_, fileVars>>
    BY <2>1 DEF RunFunctor
  <2>4. CASE AddConnect(l, c)
    <3>1. connectSet_' \in [Loops -> SUBSET Clients] /\ conn' = conn
      BY <2>4 DEF AddConnect
    <3> QED BY <2>2, <2>3, <3>1
  <2>5. CASE ConnectEstablished(l, c) \/ ConnectDestroyed(l, c)
    <3>1. conn' \in [Clients -> ConnStates] /\ connectSet_' = connectSet_
      BY <2>5 DEF ConnectEstablished, ConnectDestroyed
    <3> QED BY <2>2, <2>3, <3>1
  <2> QED BY <1>11, <2>4, <2>5
<1>12. ASSUME NEW c \in Clients, HandleClose(c) PROVE TypeOK'
  <2>1. <<"connectDestroyed", c>> \in Functors
    BY DEF Functors
  <2>2. pendingFunctors_' \in [Loops -> Seq(Functors)]
    BY <1>12, <2>1, QueueType DEF HandleClose, removeConnection, Queue
  <2>3. connectSet_' \in [Loops -> SUBSET Clients]
    BY <1>12 DEF HandleClose, removeConnection
  <2> QED BY <1>12, <2>2, <2>3 DEF HandleClose
<1>13. ASSUME NEW c \in Clients, Destruct(c) PROVE TypeOK'
  <2>1. owner' \in [Fds -> {Free, Idle, File} \cup Clients]
    BY <1>13, TableType DEF Destruct
  <2> QED BY <1>13, <2>1 DEF Destruct
<1>14. ASSUME NEW l \in Loops, OpenUrl(l) \/ CallbackStep(l) PROVE TypeOK'
  <2>1. UNCHANGED <<mainVars, scanVars, connVars, loopVars>>
    BY <1>14, CallbackFrame
  <2>2. owner' \in [Fds -> {Free, Idle, File} \cup Clients] /\ fd_' \in [Loops -> Fds \cup {0}]
    <3>1. \/ /\ FreeFds # {} /\ owner' = Opened(File)
             /\ fd_' = [fd_ EXCEPT ![l] = Min(FreeFds)]
          \/ owner' = owner /\ (fd_' = fd_ \/ fd_' = [fd_ EXCEPT ![l] = 0])
          \/ owner' = Closed(fd_[l]) /\ (fd_' = fd_ \/ fd_' = [fd_ EXCEPT ![l] = 0])
      BY <1>14 DEF OpenUrl, CallbackStep, xopen, NotRegular, Open404, SentWhole,
         NotSent, SentPart, CloseAgain
    <3>2. FreeFds # {} => Opened(File) \in [Fds -> {Free, Idle, File} \cup Clients]
      BY TableType
    <3>3. Closed(fd_[l]) \in [Fds -> {Free, Idle, File} \cup Clients]
      BY TableType
    <3>4. FreeFds # {} => [fd_ EXCEPT ![l] = Min(FreeFds)] \in [Loops -> Fds \cup {0}]
      BY MinFree
    <3>5. [fd_ EXCEPT ![l] = 0] \in [Loops -> Fds \cup {0}]
      OBVIOUS
    <3>6. owner \in [Fds -> {Free, Idle, File} \cup Clients] /\ fd_ \in [Loops -> Fds \cup {0}]
      OBVIOUS
    <3> HIDE DEF TypeOK
    <3> QED BY <3>1, <3>2, <3>3, <3>4, <3>5, <3>6
  <2>3. /\ cpc' \in [Loops -> {"idle", "opened", "notFound", "send", "again"}]
        /\ stolen' \in BOOLEAN
    BY <1>14 DEF OpenUrl, CallbackStep, xopen, NotRegular, Open404, SentWhole,
       NotSent, SentPart, CloseAgain, Callback
  <2> QED BY <2>1, <2>2, <2>3
<1>15. CASE UNCHANGED vars
  BY <1>15 DEF vars
<1> QED
  BY <1>1, <1>2, <1>3, <1>4, <1>5, <1>6, <1>7, <1>8, <1>9, <1>10, <1>11, <1>12, <1>13, <1>14,
     <1>15
  DEF Next, MainStep, LoopStep

-----------------------------------------------------------------------------
\* Edge-triggered epoll: every client that arrives while the main thread is in
\* epoll_wait raises an edge, and handleRead leaves only with an empty queue.
LEMMA EdgeStep == TypeOK /\ NoMissedClient /\ [Next]_vars => NoMissedClient'
<1> SUFFICES ASSUME TypeOK, NoMissedClient, [Next]_vars PROVE NoMissedClient'
  OBVIOUS
<1> USE DEF NoMissedClient
<1>1. CASE ClientConnects
  BY <1>1 DEF ClientConnects
<1>2. CASE MainStep
  BY <1>2 DEF MainStep, Listen, EnableReading, HandleRead, Accept, ReadSize, Compare,
     NewConnection, QueueEstablished, AcceptNone, AcceptFull, CloseIdle, AcceptIdle,
     CloseAccepted, OpenIdle, mainVars
<1>3. ASSUME NEW l \in Loops, LoopStep(l) \/ OpenUrl(l) \/ CallbackStep(l)
      PROVE  UNCHANGED <<mpc, backlog, edge>>
  BY <1>3, FunctorFrame, CallbackFrame DEF mainVars
<1>4. ASSUME NEW c \in Clients, HandleClose(c) \/ Destruct(c)
      PROVE  UNCHANGED <<mpc, backlog, edge>>
  BY <1>4 DEF HandleClose, Destruct, mainVars
<1>5. ASSUME UNCHANGED vars PROVE UNCHANGED <<mpc, backlog, edge>>
  BY <1>5 DEF vars, mainVars
<1>6. CASE UNCHANGED <<mpc, backlog, edge>>
  BY <1>6
<1> QED BY <1>1, <1>2, <1>3, <1>4, <1>5, <1>6 DEF Next

-----------------------------------------------------------------------------
\* The steps that touch neither connections nor queues.
Quiet ==
  /\ UNCHANGED <<backlog, newConn, conn, loop_, pendingFunctors_, connectSet_>>
  /\ mpc' = mpc \/ (mpc \notin {"scan", "established"} /\ mpc' \notin {"scan", "established"})

\* The steps that neither move a connection nor queue or run a functor.
LEMMA QuietSteps ==
  ASSUME \/ Listen \/ EnableReading \/ HandleRead \/ Compare \/ AcceptNone \/ AcceptFull
         \/ CloseIdle \/ CloseAccepted \/ OpenIdle
         \/ \E l \in Loops : ReadSize(l) \/ OpenUrl(l) \/ CallbackStep(l)
         \/ AcceptIdle /\ (FreeFds = {} \/ backlog = << >>)
         \/ UNCHANGED vars
  PROVE  Quiet
<1>1. CASE \/ Listen \/ EnableReading \/ HandleRead \/ AcceptNone \/ AcceptFull
           \/ CloseIdle \/ CloseAccepted \/ OpenIdle
           \/ AcceptIdle /\ (FreeFds = {} \/ backlog = << >>)
  BY <1>1 DEF Listen, EnableReading, HandleRead, AcceptNone, AcceptFull, CloseIdle,
     CloseAccepted, OpenIdle, AcceptIdle, connVars, loopVars, Quiet
<1>2. ASSUME Compare \/ UNCHANGED vars \/ \E l \in Loops : ReadSize(l)
      PROVE  Quiet
  BY <1>2 DEF Compare, ReadSize, vars, mainVars, connVars, loopVars, Quiet
<1>3. ASSUME NEW l \in Loops, OpenUrl(l) \/ CallbackStep(l) PROVE Quiet
  BY <1>3, CallbackFrame DEF mainVars, connVars, loopVars, Quiet
<1> QED BY <1>1, <1>2, <1>3

\* The functors of a queue are pairs of a kind and a client.
LEMMA FunctorType ==
  ASSUME TypeOK, NEW l \in Loops, NEW i \in 1..Len(pendingFunctors_[l])
  PROVE  /\ pendingFunctors_[l] \in Seq(Functors)
         /\ pendingFunctors_[l][i] \in Functors
         /\ pendingFunctors_[l][i][2] \in Clients
         /\ pendingFunctors_[l][i][1] \in {"addConnect", "connectEstablished", "connectDestroyed"}
         /\ pendingFunctors_[l][i] = <<pendingFunctors_[l][i][1], pendingFunctors_[l][i][2]>>
<1>1. pendingFunctors_[l] \in Seq(Functors)
  BY DEF TypeOK
<1>2. pendingFunctors_[l][i] \in Functors
  BY <1>1
<1> QED BY <1>1, <1>2 DEF Functors

\* What FunctorsInOrder says of one functor.
Entry(l, i) ==
  LET functor == pendingFunctors_[l][i]
      c       == functor[2]
  IN  /\ loop_[c] = l
      /\ conn[c] = IF functor[1] = "connectDestroyed" THEN "kDisconnected" ELSE "kConnecting"
      /\ \A j \in 1..(i - 1) : /\ pendingFunctors_[l][j] # functor
                               /\ functor[1] = "addConnect" =>
                                    pendingFunctors_[l][j] # <<"connectEstablished", c>>

\* FunctorsInOrder is a statement on every single entry of every queue.
LEMMA Entries ==
  FunctorsInOrder <=> \A l \in Loops : \A i \in 1..Len(pendingFunctors_[l]) : Entry(l, i)
BY DEF FunctorsInOrder, Entry

\* A new functor at the end of a queue, and no other change to the connections of
\* the functors that were there.
LEMMA EntriesQueue ==
  ASSUME TypeOK, FunctorsInOrder, NEW k \in Loops, NEW kind, NEW c \in Clients,
         <<kind, c>> \in Functors, Queue(k, <<kind, c>>),
         \A l \in Loops : \A i \in 1..Len(pendingFunctors_[l]) :
           LET d == pendingFunctors_[l][i][2]
           IN  conn'[d] = conn[d] /\ loop_'[d] = loop_[d],
         loop_'[c] = k,
         conn'[c] = IF kind = "connectDestroyed" THEN "kDisconnected" ELSE "kConnecting",
         \A i \in 1..Len(pendingFunctors_[k]) :
           /\ pendingFunctors_[k][i] # <<kind, c>>
           /\ kind = "addConnect" => pendingFunctors_[k][i] # <<"connectEstablished", c>>
  PROVE  FunctorsInOrder'
<1>1. /\ pendingFunctors_'[k] = Append(pendingFunctors_[k], <<kind, c>>)
      /\ \A l \in Loops : l # k => pendingFunctors_'[l] = pendingFunctors_[l]
  BY DEF Queue, TypeOK
<1>2. pendingFunctors_[k] \in Seq(Functors)
  BY DEF TypeOK
<1>3. /\ Len(pendingFunctors_[k]) \in Nat
      /\ Len(pendingFunctors_'[k]) = Len(pendingFunctors_[k]) + 1
      /\ \A i \in 1..Len(pendingFunctors_[k]) : pendingFunctors_'[k][i] = pendingFunctors_[k][i]
      /\ pendingFunctors_'[k][Len(pendingFunctors_[k]) + 1] = <<kind, c>>
  BY <1>1, <1>2, AppendFacts
<1>4. ASSUME NEW l \in Loops, NEW i \in 1..Len(pendingFunctors_'[l]) PROVE Entry(l, i)'
  <2>1. CASE l # k
    <3>1. pendingFunctors_'[l] = pendingFunctors_[l]
      BY <1>1, <2>1
    <3>2. Entry(l, i)
      BY <3>1, Entries
    <3> QED BY <3>1, <3>2 DEF Entry
  <2>2. CASE l = k /\ i # Len(pendingFunctors_[k]) + 1
    <3>1. i \in 1..Len(pendingFunctors_[k])
      BY <1>3, <2>2
    <3>2. /\ pendingFunctors_'[k][i] = pendingFunctors_[k][i]
          /\ \A j \in 1..(i - 1) : pendingFunctors_'[k][j] = pendingFunctors_[k][j]
      BY <1>3, <3>1
    <3>3. Entry(k, i)
      BY <3>1, Entries
    <3> QED BY <2>2, <3>1, <3>2, <3>3, SMTT(30) DEF Entry
  <2>3. CASE l = k /\ i = Len(pendingFunctors_[k]) + 1
    <3>1. pendingFunctors_'[l][i] = <<kind, c>>
      BY <1>3, <2>3
    <3>2. \A j \in 1..(i - 1) : pendingFunctors_'[l][j] = pendingFunctors_[k][j]
                                /\ j \in 1..Len(pendingFunctors_[k])
      BY <1>3, <2>3
    <3> QED BY <2>3, <3>1, <3>2 DEF Entry
  <2> QED BY <2>1, <2>2, <2>3
<1>5. (\A l \in Loops : \A i \in 1..Len(pendingFunctors_[l]) : Entry(l, i))'
  BY <1>4
<1> QED BY <1>5, Entries, PTL

\* The first functor of a queue is run, and the connections of the others are left
\* alone.
LEMMA EntriesRun ==
  ASSUME TypeOK, FunctorsInOrder, NEW k \in Loops, NEW kind, NEW c \in Clients,
         RunFunctor(k, kind, c),
         \A l \in Loops : \A i \in 1..Len(pendingFunctors_[l]) :
           LET d == pendingFunctors_[l][i][2]
           IN  l # k \/ i # 1 => conn'[d] = conn[d] /\ loop_'[d] = loop_[d]
  PROVE  FunctorsInOrder'
<1>1. /\ pendingFunctors_[k] # << >>
      /\ pendingFunctors_'[k] = Tail(pendingFunctors_[k])
      /\ \A l \in Loops : l # k => pendingFunctors_'[l] = pendingFunctors_[l]
  BY DEF RunFunctor, TypeOK
<1>2. pendingFunctors_[k] \in Seq(Functors)
  BY DEF TypeOK
<1>3. /\ Len(pendingFunctors_[k]) \in Nat \ {0}
      /\ Len(pendingFunctors_'[k]) = Len(pendingFunctors_[k]) - 1
      /\ \A i \in 1..(Len(pendingFunctors_[k]) - 1) :
           pendingFunctors_'[k][i] = pendingFunctors_[k][i + 1]
  BY <1>1, <1>2, TailFacts
<1>4. ASSUME NEW l \in Loops, NEW i \in 1..Len(pendingFunctors_'[l]) PROVE Entry(l, i)'
  <2>1. CASE l # k
    <3>1. pendingFunctors_'[l] = pendingFunctors_[l]
      BY <1>1, <2>1
    <3>2. Entry(l, i)
      BY <3>1, Entries
    <3> QED BY <2>1, <3>1, <3>2 DEF Entry
  <2>2. CASE l = k
    <3>1. i + 1 \in 1..Len(pendingFunctors_[k]) /\ i + 1 # 1 /\ i \in Nat
      BY <1>3, <2>2
    <3>2. /\ pendingFunctors_'[k][i] = pendingFunctors_[k][i + 1]
          /\ \A j \in 1..(i - 1) : /\ pendingFunctors_'[k][j] = pendingFunctors_[k][j + 1]
                                   /\ j + 1 \in 1..((i + 1) - 1)
      BY <1>3, <2>2, <3>1
    <3>3. Entry(k, i + 1)
      BY <3>1, Entries
    <3>4. conn'[pendingFunctors_[k][i + 1][2]] = conn[pendingFunctors_[k][i + 1][2]]
          /\ loop_'[pendingFunctors_[k][i + 1][2]] = loop_[pendingFunctors_[k][i + 1][2]]
      BY <3>1
    <3> QED BY <2>2, <3>2, <3>3, <3>4 DEF Entry
  <2> QED BY <2>1, <2>2
<1>5. (\A l \in Loops : \A i \in 1..Len(pendingFunctors_[l]) : Entry(l, i))'
  BY <1>4
<1> QED BY <1>5, Entries, PTL

\* After the first functor of a queue has been run, connectEstablished and
\* connectDestroyed being what it was, nothing is queued for its connection.
LEMMA LastFunctor ==
  ASSUME TypeOK, FunctorsInOrder, NEW k \in Loops, NEW c \in Clients,
         NEW kind \in {"connectEstablished", "connectDestroyed"}, RunFunctor(k, kind, c)
  PROVE  /\ loop_[c] = k
         /\ conn[c] = IF kind = "connectDestroyed" THEN "kDisconnected" ELSE "kConnecting"
         /\ \A l \in Loops : \A i \in 1..Len(pendingFunctors_[l]) :
              l # k \/ i # 1 => pendingFunctors_[l][i][2] # c
<1>1. 1 \in 1..Len(pendingFunctors_[k]) /\ pendingFunctors_[k][1] = <<kind, c>>
  BY TailFacts DEF RunFunctor, TypeOK
<1>2. Entry(k, 1)
  BY <1>1, Entries
<1>3. /\ loop_[c] = k
      /\ conn[c] = IF kind = "connectDestroyed" THEN "kDisconnected" ELSE "kConnecting"
  BY <1>1, <1>2 DEF Entry
<1>4. ASSUME NEW l \in Loops, NEW i \in 1..Len(pendingFunctors_[l]),
             l # k \/ i # 1, pendingFunctors_[l][i][2] = c
      PROVE  FALSE
  <2>1. Entry(l, i)
    BY Entries
  <2>2. l = k /\ i # 1
    BY <1>3, <1>4, <2>1 DEF Entry
  <2>3. 1 \in 1..(i - 1)
    BY <2>2
  <2>4. /\ pendingFunctors_[l][i][1] \in {"addConnect", "connectEstablished", "connectDestroyed"}
        /\ pendingFunctors_[l][i] = <<pendingFunctors_[l][i][1], c>>
    BY <1>4, FunctorType
  <2>5. <<kind, c>> # pendingFunctors_[l][i]
    BY <1>1, <2>1, <2>2, <2>3 DEF Entry
  <2>6. pendingFunctors_[l][i][1] = "addConnect" => <<kind, c>> # <<"connectEstablished", c>>
    BY <1>1, <1>4, <2>1, <2>2, <2>3 DEF Entry
  <2>7. conn[c] = IF pendingFunctors_[l][i][1] = "connectDestroyed"
                    THEN "kDisconnected" ELSE "kConnecting"
    BY <1>4, <2>1 DEF Entry
  <2>8. CASE pendingFunctors_[l][i][1] = "addConnect"
    BY <1>3, <2>6, <2>7, <2>8
  <2>9. CASE pendingFunctors_[l][i][1] \in {"connectEstablished", "connectDestroyed"}
    <3>1. pendingFunctors_[l][i][1] = kind
      BY <1>3, <2>7, <2>9
    <3> QED BY <2>4, <2>5, <3>1
  <2> QED BY <2>4, <2>8, <2>9
<1> QED BY <1>3, <1>4

\* A connection that is neither connecting nor disconnected has no functor queued.
LEMMA NoFunctor ==
  ASSUME FunctorsInOrder, NEW c \in Clients, conn[c] \notin {"kConnecting", "kDisconnected"}
  PROVE  \A l \in Loops : \A i \in 1..Len(pendingFunctors_[l]) : pendingFunctors_[l][i][2] # c
<1> SUFFICES ASSUME NEW l \in Loops, NEW i \in 1..Len(pendingFunctors_[l]),
                    pendingFunctors_[l][i][2] = c
             PROVE  FALSE
  OBVIOUS
<1>1. Entry(l, i)
  BY Entries
<1> QED BY <1>1 DEF Entry

\* The queues stay in order: the main thread appends addConnect and then, once,
\* connectEstablished; the loop itself appends connectDestroyed when both have run.
LEMMA FunctorStep ==
  TypeOK /\ FunctorsInOrder /\ ArrivalOrder /\ [Next]_vars => FunctorsInOrder'
<1> SUFFICES ASSUME TypeOK, FunctorsInOrder, ArrivalOrder, [Next]_vars
             PROVE  FunctorsInOrder'
  OBVIOUS
<1>1. CASE Quiet
  BY <1>1 DEF Quiet, FunctorsInOrder
<1>2. CASE ClientConnects
  <2>1. PICK c \in Clients : conn[c] = "none" /\ conn' = [conn EXCEPT ![c] = "backlog"]
    BY <1>2 DEF ClientConnects
  <2>2. UNCHANGED <<loop_, pendingFunctors_>>
    BY <1>2 DEF ClientConnects, loopVars
  <2>3. \A l \in Loops : \A i \in 1..Len(pendingFunctors_[l]) :
          conn'[pendingFunctors_[l][i][2]] = conn[pendingFunctors_[l][i][2]]
    BY <2>1, NoFunctor, FunctorType DEF TypeOK
  <2> QED BY <2>2, <2>3 DEF FunctorsInOrder
<1>3. CASE NewConnection
  <2>0. PICK c : c = newConn
    OBVIOUS
  <2>k. PICK k \in Loops : k = best
    BY DEF TypeOK
  <2>1. c \in Clients /\ conn[c] = "accepted"
    BY <1>3, <2>0 DEF NewConnection, ArrivalOrder, TypeOK
  <2>3. <<"addConnect", c>> \in Functors /\ Queue(k, <<"addConnect", c>>)
    BY <1>3, <2>0, <2>k, <2>1 DEF NewConnection, Functors
  <2>4. conn' = [conn EXCEPT ![c] = "kConnecting"] /\ loop_' = [loop_ EXCEPT ![c] = k]
    BY <1>3, <2>0, <2>k DEF NewConnection
  <2>5. \A l \in Loops : \A i \in 1..Len(pendingFunctors_[l]) : pendingFunctors_[l][i][2] # c
    BY <2>1, NoFunctor
  <2>6. \A l \in Loops : \A i \in 1..Len(pendingFunctors_[l]) :
          LET d == pendingFunctors_[l][i][2] IN conn'[d] = conn[d] /\ loop_'[d] = loop_[d]
    BY <2>4, <2>5, FunctorType DEF TypeOK
  <2>7. loop_'[c] = k /\ conn'[c] = "kConnecting"
    BY <2>1, <2>4 DEF TypeOK
  <2>8. \A i \in 1..Len(pendingFunctors_[k]) : /\ pendingFunctors_[k][i] # <<"addConnect", c>>
                                               /\ pendingFunctors_[k][i] # <<"connectEstablished", c>>
    BY <2>5
  <2> QED BY <2>1, <2>3, <2>6, <2>7, <2>8, EntriesQueue
<1>4. CASE QueueEstablished
  <2>0. PICK c : c = newConn
    OBVIOUS
  <2>1. /\ c \in Clients /\ conn[c] = "kConnecting" /\ ~Queued(loop_[c], <<"connectEstablished", c>>)
        /\ Queue(loop_[c], <<"connectEstablished", c>>) /\ UNCHANGED <<conn, loop_>>
    BY <1>4, <2>0 DEF QueueEstablished, ArrivalOrder, TypeOK, connVars
  <2>2. PICK k \in Loops : k = loop_[c]
    <3>1. loop_[c] # 0 /\ loop_[c] \in Loops \cup {0}
      BY <2>1 DEF ArrivalOrder, TypeOK
    <3> QED BY <3>1
  <2>3. <<"connectEstablished", c>> \in Functors
    BY <2>1 DEF Functors
  <2> QED BY <2>1, <2>2, <2>3, EntriesQueue DEF Queued
\* A client in the queue is accepted or refused: it has no functor yet.
<1>5. CASE Accept \/ (AcceptIdle /\ FreeFds # {} /\ backlog # << >>)
  <2>0. PICK c : c = Head(backlog)
    OBVIOUS
  <2>1. c \in Clients /\ c = backlog[1] /\ 1 \in 1..Len(backlog)
    BY <1>5, <2>0, TailFacts DEF Accept, TypeOK
  <2>2. conn[c] = "backlog"
    BY <2>1 DEF ArrivalOrder
  <2>3. UNCHANGED <<loop_, pendingFunctors_>> /\ \A d \in Clients : d # c => conn'[d] = conn[d]
    BY <1>5, <2>0 DEF Accept, AcceptIdle, loopVars, TypeOK
  <2>4. \A l \in Loops : \A i \in 1..Len(pendingFunctors_[l]) :
          conn'[pendingFunctors_[l][i][2]] = conn[pendingFunctors_[l][i][2]]
    BY <2>1, <2>2, <2>3, NoFunctor, FunctorType DEF TypeOK
  <2> QED BY <2>3, <2>4 DEF FunctorsInOrder
<1>6. ASSUME NEW l \in Loops, NEW c \in Clients, AddConnect(l, c) PROVE FunctorsInOrder'
  <2>1. RunFunctor(l, "addConnect", c) /\ UNCHANGED <<conn, loop_>>
    BY <1>6 DEF AddConnect, RunFunctor
  <2> QED BY <2>1, EntriesRun
<1>7. ASSUME NEW l \in Loops, NEW c \in Clients,
             NEW kind \in {"connectEstablished", "connectDestroyed"}, NEW s,
             RunFunctor(l, kind, c), conn' = [conn EXCEPT ![c] = s]
      PROVE  FunctorsInOrder'
  <2>1. UNCHANGED loop_
    BY <1>7 DEF RunFunctor
  <2>2. \A m \in Loops : \A i \in 1..Len(pendingFunctors_[m]) :
          m # l \/ i # 1 => pendingFunctors_[m][i][2] # c
    BY <1>7, LastFunctor
  <2>3. \A m \in Loops : \A i \in 1..Len(pendingFunctors_[m]) :
          LET d == pendingFunctors_[m][i][2]
          IN  m # l \/ i # 1 => conn'[d] = conn[d] /\ loop_'[d] = loop_[d]
    BY <1>7, <2>1, <2>2, FunctorType DEF TypeOK
  <2> QED BY <1>7, <2>3, EntriesRun
<1>8. ASSUME NEW l \in Loops, NEW c \in Clients,
             ConnectEstablished(l, c) \/ ConnectDestroyed(l, c)
      PROVE  FunctorsInOrder'
  BY <1>7, <1>8 DEF ConnectEstablished, ConnectDestroyed
<1>9. ASSUME NEW c \in Clients, HandleClose(c) PROVE FunctorsInOrder'
  <2>1. /\ conn[c] = "kConnected" /\ conn' = [conn EXCEPT ![c] = "kDisconnected"]
        /\ Queue(loop_[c], <<"connectDestroyed", c>>) /\ UNCHANGED loop_
    BY <1>9 DEF HandleClose, removeConnection
  <2>2. \A l \in Loops : \A i \in 1..Len(pendingFunctors_[l]) : pendingFunctors_[l][i][2] # c
    BY <2>1, NoFunctor
  <2>3. loop_[c] \in Loops
    <3>1. loop_[c] \in Loops \cup {0}
      BY DEF TypeOK
    <3>2. conn[c] \notin {"none", "backlog", "accepted"}
      BY <2>1
    <3>3. loop_[c] # 0
      BY <3>2 DEF ArrivalOrder
    <3> QED BY <3>1, <3>3
  <2>4. <<"connectDestroyed", c>> \in Functors
    BY DEF Functors
  <2>5. \A l \in Loops : \A i \in 1..Len(pendingFunctors_[l]) :
          LET d == pendingFunctors_[l][i][2] IN conn'[d] = conn[d] /\ loop_'[d] = loop_[d]
    BY <2>1, <2>2, FunctorType DEF TypeOK
  <2>6. conn'[c] = "kDisconnected"
    BY <2>1 DEF TypeOK
  <2>7. \A i \in 1..Len(pendingFunctors_[loop_[c]]) :
          pendingFunctors_[loop_[c]][i] # <<"connectDestroyed", c>>
    BY <2>2, <2>3
  <2>8. PICK k : k = loop_[c]
    OBVIOUS
  <2> QED BY <2>1, <2>3, <2>4, <2>5, <2>6, <2>7, <2>8, EntriesQueue
<1>10. ASSUME NEW c \in Clients, Destruct(c) PROVE FunctorsInOrder'
  <2>1. /\ conn[c] = "destroyed" /\ conn' = [conn EXCEPT ![c] = "none"]
        /\ loop_' = [loop_ EXCEPT ![c] = 0] /\ UNCHANGED pendingFunctors_
    BY <1>10 DEF Destruct, loopVars
  <2>2. \A l \in Loops : \A i \in 1..Len(pendingFunctors_[l]) :
          /\ conn'[pendingFunctors_[l][i][2]] = conn[pendingFunctors_[l][i][2]]
          /\ loop_'[pendingFunctors_[l][i][2]] = loop_[pendingFunctors_[l][i][2]]
    BY <2>1, NoFunctor, FunctorType DEF TypeOK
  <2> QED BY <2>1, <2>2 DEF FunctorsInOrder
<1> QED
  BY <1>1, <1>2, <1>3, <1>4, <1>5, <1>6, <1>8, <1>9, <1>10, QuietSteps
  DEF Next, MainStep, LoopStep

-----------------------------------------------------------------------------
\* What is queued after a functor has been appended, and after one has been run.
LEMMA QueuedAppend ==
  ASSUME TypeOK, NEW k \in Loops, NEW x \in Functors, Queue(k, x),
         NEW l \in Loops, NEW y
  PROVE  Queued(l, y)' <=> Queued(l, y) \/ (l = k /\ y = x)
<1>1. /\ pendingFunctors_'[k] = Append(pendingFunctors_[k], x)
      /\ l # k => pendingFunctors_'[l] = pendingFunctors_[l]
  BY DEF Queue, TypeOK
<1>2. pendingFunctors_[k] \in Seq(Functors)
  BY DEF TypeOK
<1>3. /\ Len(pendingFunctors_[k]) \in Nat
      /\ Len(pendingFunctors_'[k]) = Len(pendingFunctors_[k]) + 1
      /\ \A i \in 1..Len(pendingFunctors_[k]) : pendingFunctors_'[k][i] = pendingFunctors_[k][i]
      /\ pendingFunctors_'[k][Len(pendingFunctors_[k]) + 1] = x
  BY <1>1, <1>2, AppendFacts
<1>4. CASE l # k
  BY <1>1, <1>4 DEF Queued
<1>5. CASE l = k
  <2> DEFINE n == Len(pendingFunctors_[k])
  <2>1. \A i \in 1..n : i \in 1..(n + 1)
    BY <1>3
  <2>2. n + 1 \in 1..(n + 1) /\ \A i \in 1..(n + 1) : i \in 1..n \/ i = n + 1
    BY <1>3
  <2> QED BY <1>3, <1>5, <2>1, <2>2, Zenon DEF Queued
<1> QED BY <1>4, <1>5

\* Running a functor takes that one off its queue and no other.
LEMMA QueuedRun ==
  ASSUME TypeOK, NEW k \in Loops, NEW kind, NEW c \in Clients, RunFunctor(k, kind, c),
         NEW l \in Loops, NEW y
  PROVE  /\ Queued(l, y)' => Queued(l, y)
         /\ Queued(l, y) => Queued(l, y)' \/ (l = k /\ y = <<kind, c>>)
<1>1. /\ pendingFunctors_[k] # << >> /\ Head(pendingFunctors_[k]) = <<kind, c>>
      /\ pendingFunctors_'[k] = Tail(pendingFunctors_[k])
      /\ l # k => pendingFunctors_'[l] = pendingFunctors_[l]
  BY DEF RunFunctor, TypeOK
<1>2. pendingFunctors_[k] \in Seq(Functors)
  BY DEF TypeOK
<1>3. /\ Len(pendingFunctors_[k]) \in Nat \ {0}
      /\ Len(pendingFunctors_'[k]) = Len(pendingFunctors_[k]) - 1
      /\ \A i \in 1..(Len(pendingFunctors_[k]) - 1) :
           pendingFunctors_'[k][i] = pendingFunctors_[k][i + 1]
      /\ pendingFunctors_[k][1] = <<kind, c>>
  BY <1>1, <1>2, TailFacts
<1>4. CASE l # k
  BY <1>1, <1>4 DEF Queued
<1>5. CASE l = k
  <2>1. Queued(l, y)' => Queued(l, y)
    <3> SUFFICES ASSUME NEW i \in 1..Len(pendingFunctors_'[k]), pendingFunctors_'[k][i] = y
                 PROVE  Queued(k, y)
      BY <1>5 DEF Queued
    <3>1. i + 1 \in 1..Len(pendingFunctors_[k]) /\ pendingFunctors_[k][i + 1] = y
      BY <1>3
    <3> QED BY <3>1 DEF Queued
  <2>2. ASSUME Queued(l, y), y # <<kind, c>> PROVE Queued(l, y)'
    <3>1. PICK i \in 1..Len(pendingFunctors_[k]) : pendingFunctors_[k][i] = y
      BY <1>5, <2>2 DEF Queued
    <3>2. i # 1
      BY <1>3, <2>2, <3>1
    <3>3. /\ i - 1 \in 1..Len(pendingFunctors_'[k])
          /\ pendingFunctors_'[k][i - 1] = y
      <4>1. i - 1 \in 1..(Len(pendingFunctors_[k]) - 1) /\ (i - 1) + 1 = i
        BY <1>3, <3>1, <3>2
      <4> QED BY <1>3, <3>1, <4>1
    <3> QED BY <1>5, <3>3 DEF Queued
  <2> QED BY <1>5, <2>1, <2>2
<1> QED BY <1>4, <1>5

\* The client at the head of the queue, and what taking it off does.
LEMMA HeadOfQueue ==
  ASSUME TypeOK, ArrivalOrder, backlog # << >>, backlog' = Tail(backlog), NEW c, c = Head(backlog)
  PROVE  /\ c \in Clients /\ conn[c] = "backlog" /\ loop_[c] = 0 /\ c # newConn
         /\ \A i \in 1..Len(backlog') :
              /\ backlog'[i] \in Clients /\ backlog'[i] # c /\ conn[backlog'[i]] = "backlog"
              /\ \A j \in (i + 1)..Len(backlog') : backlog'[i] # backlog'[j]
<1>1. /\ c \in Clients /\ c = backlog[1] /\ Len(backlog) \in Nat \ {0}
      /\ Len(backlog') = Len(backlog) - 1
      /\ \A i \in 1..(Len(backlog) - 1) : backlog'[i] = backlog[i + 1]
  BY TailFacts DEF TypeOK
<1>2. /\ conn[c] = "backlog" /\ loop_[c] = 0
      /\ \A j \in 2..Len(backlog) : c # backlog[j]
  BY <1>1 DEF ArrivalOrder
<1>3. c # newConn
  <2>1. CASE mpc = "scan"
    BY <1>1, <1>2, <2>1 DEF ArrivalOrder
  <2>2. CASE mpc = "established"
    BY <1>1, <1>2, <2>2 DEF ArrivalOrder
  <2>3. CASE mpc \notin {"scan", "established"}
    <3>1. newConn = 0 /\ 0 \notin Clients
      BY <2>3 DEF ArrivalOrder, Clients
    <3> QED BY <1>1, <3>1
  <2> QED BY <2>1, <2>2, <2>3
<1>4. ASSUME NEW i \in 1..Len(backlog')
      PROVE  /\ backlog'[i] \in Clients /\ backlog'[i] # c /\ conn[backlog'[i]] = "backlog"
             /\ \A j \in (i + 1)..Len(backlog') : backlog'[i] # backlog'[j]
  <2>1. /\ i + 1 \in 2..Len(backlog) /\ i + 1 \in 1..Len(backlog)
        /\ backlog'[i] = backlog[i + 1] /\ backlog[i + 1] \in Clients
    BY <1>1 DEF TypeOK
  <2>2. ASSUME NEW j \in (i + 1)..Len(backlog') PROVE backlog'[i] # backlog'[j]
    <3>1. j + 1 \in ((i + 1) + 1)..Len(backlog) /\ backlog'[j] = backlog[j + 1]
      BY <1>1
    <3> QED BY <2>1, <3>1 DEF ArrivalOrder
  <2> QED BY <1>2, <2>1, <2>2 DEF ArrivalOrder
<1> QED BY <1>1, <1>2, <1>3, <1>4

\* Clients go through the queue, newConnection and a sub loop in this order.
LEMMA ArrivalStep ==
  TypeOK /\ FunctorsInOrder /\ ArrivalOrder /\ [Next]_vars => ArrivalOrder'
<1> SUFFICES ASSUME TypeOK, FunctorsInOrder, ArrivalOrder, [Next]_vars
             PROVE  ArrivalOrder'
  OBVIOUS
<1>z. 0 \notin Clients
  BY DEF Clients
<1>1. CASE Quiet
  <2>1. CASE mpc' = mpc
    BY <1>1, <2>1 DEF Quiet, ArrivalOrder, Queued
  <2>2. CASE mpc' # mpc
    <3>1. mpc \notin {"scan", "established"} /\ mpc' \notin {"scan", "established"}
      BY <1>1, <2>2 DEF Quiet
    <3> QED BY <1>1, <3>1 DEF Quiet, ArrivalOrder
  <2> QED BY <2>1, <2>2
<1>2. CASE ClientConnects
  <2>1. PICK c \in Clients : /\ conn[c] = "none" /\ conn' = [conn EXCEPT ![c] = "backlog"]
                             /\ backlog' = Append(backlog, c)
    BY <1>2 DEF ClientConnects
  <2>2. UNCHANGED <<mpc, newConn, loop_, pendingFunctors_>>
    BY <1>2 DEF ClientConnects, loopVars
  <2>3. conn'[c] = "backlog" /\ \A d \in Clients : d # c => conn'[d] = conn[d]
    BY <2>1 DEF TypeOK
  <2>4. \A d \in Clients : loop_'[d] = 0 <=> conn'[d] \in {"none", "backlog", "accepted"}
    BY <2>1, <2>2, <2>3 DEF ArrivalOrder
  <2>5. /\ Len(backlog) \in Nat /\ Len(backlog') = Len(backlog) + 1
        /\ \A i \in 1..Len(backlog) : backlog'[i] = backlog[i] /\ backlog[i] \in Clients
        /\ backlog'[Len(backlog) + 1] = c
    BY <2>1, AppendFacts DEF TypeOK
  <2>6. \A i \in 1..Len(backlog) : conn[backlog[i]] = "backlog" /\ backlog[i] # c
    BY <2>1, <2>5 DEF ArrivalOrder
  <2>7. ASSUME NEW i \in 1..Len(backlog')
        PROVE  /\ conn'[backlog'[i]] = "backlog"
               /\ \A j \in (i + 1)..Len(backlog') : backlog'[i] # backlog'[j]
    <3>1. CASE i \in 1..Len(backlog)
      <4>1. conn'[backlog'[i]] = "backlog"
        BY <2>3, <2>5, <2>6, <3>1
      <4>2. ASSUME NEW j \in (i + 1)..Len(backlog') PROVE backlog'[i] # backlog'[j]
        <5>1. CASE j \in (i + 1)..Len(backlog)
          BY <2>5, <3>1, <5>1 DEF ArrivalOrder
        <5>2. CASE j = Len(backlog) + 1
          BY <2>5, <2>6, <3>1, <5>2
        <5> QED BY <2>5, <5>1, <5>2
      <4> QED BY <4>1, <4>2
    <3>2. CASE i = Len(backlog) + 1
      BY <2>3, <2>5, <3>2
    <3> QED BY <2>5, <3>1, <3>2
  <2>8. \A d \in Clients : conn'[d] = "accepted" <=> d = newConn' /\ mpc' = "scan"
    BY <2>1, <2>2, <2>3 DEF ArrivalOrder
  <2>9. mpc' = "established" =>
          /\ conn'[newConn'] = "kConnecting"
          /\ ~Queued(loop_[newConn], <<"connectEstablished", newConn>>)'
    <3> SUFFICES ASSUME mpc = "established"
                 PROVE  /\ conn'[newConn] = "kConnecting"
                        /\ ~Queued(loop_[newConn], <<"connectEstablished", newConn>>)'
      BY <2>2
    <3>1. newConn \in Clients /\ conn[newConn] = "kConnecting"
      BY DEF ArrivalOrder, TypeOK
    <3>2. ~Queued(loop_[newConn], <<"connectEstablished", newConn>>)
      BY DEF ArrivalOrder
    <3> QED BY <2>1, <2>2, <2>3, <3>1, <3>2 DEF Queued
  <2>10. newConn' # 0 <=> mpc' \in {"scan", "established"}
    BY <2>2 DEF ArrivalOrder
  <2> QED BY <2>4, <2>7, <2>8, <2>9, <2>10 DEF ArrivalOrder
<1>3. CASE Accept
  <2>0. PICK c : c = Head(backlog)
    OBVIOUS
  <2>1. /\ c \in Clients /\ conn[c] = "backlog" /\ loop_[c] = 0
        /\ \A i \in 1..Len(backlog') :
             /\ backlog'[i] \in Clients /\ backlog'[i] # c /\ conn[backlog'[i]] = "backlog"
             /\ \A j \in (i + 1)..Len(backlog') : backlog'[i] # backlog'[j]
    BY <1>3, <2>0, HeadOfQueue DEF Accept
  <2>2. /\ conn' = [conn EXCEPT ![c] = "accepted"] /\ newConn' = c /\ mpc' = "scan"
        /\ mpc = "accept" /\ UNCHANGED loop_
    BY <1>3, <2>0 DEF Accept
  <2>3. conn'[c] = "accepted" /\ \A d \in Clients : d # c => conn'[d] = conn[d]
    BY <2>1, <2>2 DEF TypeOK
  <2>4. \A d \in Clients : conn[d] # "accepted"
    BY <2>2 DEF ArrivalOrder
  <2>5. \A d \in Clients : loop_'[d] = 0 <=> conn'[d] \in {"none", "backlog", "accepted"}
    BY <2>1, <2>2, <2>3 DEF ArrivalOrder
  <2> QED BY <1>z, <2>1, <2>2, <2>3, <2>4, <2>5 DEF ArrivalOrder
<1>4. CASE NewConnection
  <2>0. PICK c : c = newConn
    OBVIOUS
  <2>1. c \in Clients /\ conn[c] = "accepted" /\ mpc = "scan"
    BY <1>4, <2>0 DEF NewConnection, ArrivalOrder, TypeOK
  <2>2. /\ conn' = [conn EXCEPT ![c] = "kConnecting"] /\ loop_' = [loop_ EXCEPT ![c] = best]
        /\ UNCHANGED <<newConn, backlog>> /\ mpc' = "established"
    BY <1>4, <2>0 DEF NewConnection
  <2>3. best \in Loops /\ best # 0
    BY DEF TypeOK, Loops
  <2>4. /\ conn'[c] = "kConnecting" /\ loop_'[c] = best
        /\ \A d \in Clients : d # c => conn'[d] = conn[d] /\ loop_'[d] = loop_[d]
    BY <2>1, <2>2 DEF TypeOK
  <2>5. \A d \in Clients : loop_'[d] = 0 <=> conn'[d] \in {"none", "backlog", "accepted"}
    BY <2>3, <2>4 DEF ArrivalOrder
  <2>6. \A i \in 1..Len(backlog) :
          /\ conn'[backlog[i]] = "backlog"
          /\ \A j \in (i + 1)..Len(backlog) : backlog[i] # backlog[j]
    <3>1. \A i \in 1..Len(backlog) : backlog[i] \in Clients
      BY DEF TypeOK
    <3> QED BY <2>1, <2>4, <3>1 DEF ArrivalOrder
  <2>7. ~Queued(loop_[newConn], <<"connectEstablished", newConn>>)'
    <3>1. PICK k \in Loops : k = best
      BY <2>3
    <3>2. <<"addConnect", c>> \in Functors /\ Queue(k, <<"addConnect", c>>)
      BY <1>4, <2>0, <2>1, <3>1 DEF NewConnection, Functors
    <3>3. \A i \in 1..Len(pendingFunctors_[k]) : pendingFunctors_[k][i][2] # c
      BY <2>1, NoFunctor
    <3>4. ~Queued(k, <<"connectEstablished", c>>)
      BY <3>3 DEF Queued
    <3>5. ~Queued(k, <<"connectEstablished", c>>)'
      BY <3>2, <3>4, QueuedAppend
    <3>6. loop_'[newConn'] = k /\ newConn' = c
      BY <2>0, <2>2, <2>4, <3>1
    <3> QED BY <3>5, <3>6 DEF Queued
  <2>8. \A d \in Clients : conn'[d] # "accepted"
    BY <2>0, <2>4 DEF ArrivalOrder
  <2>9. newConn' # 0 /\ conn'[newConn'] = "kConnecting"
    BY <1>z, <2>0, <2>1, <2>2, <2>4
  <2> QED BY <2>2, <2>5, <2>6, <2>7, <2>8, <2>9 DEF ArrivalOrder
<1>5. CASE QueueEstablished
  BY <1>5, <1>z DEF QueueEstablished, ArrivalOrder, connVars
<1>6. CASE AcceptIdle /\ FreeFds # {} /\ backlog # << >>
  <2>0. PICK c : c = Head(backlog)
    OBVIOUS
  <2>1. /\ mpc = "acceptIdle" /\ mpc' = "closeAccepted" /\ backlog' = Tail(backlog)
        /\ conn' = [conn EXCEPT ![c] = "none"] /\ UNCHANGED <<newConn, loop_>>
    BY <1>6, <2>0 DEF AcceptIdle
  <2>2. /\ c \in Clients /\ conn[c] = "backlog" /\ loop_[c] = 0
        /\ \A i \in 1..Len(backlog') :
             /\ backlog'[i] \in Clients /\ backlog'[i] # c /\ conn[backlog'[i]] = "backlog"
             /\ \A j \in (i + 1)..Len(backlog') : backlog'[i] # backlog'[j]
    BY <1>6, <2>0, <2>1, HeadOfQueue
  <2>3. conn'[c] = "none" /\ \A d \in Clients : d # c => conn'[d] = conn[d]
    BY <2>1, <2>2 DEF TypeOK
  <2>4. \A d \in Clients : loop_'[d] = 0 <=> conn'[d] \in {"none", "backlog", "accepted"}
    BY <2>1, <2>2, <2>3 DEF ArrivalOrder
  <2>5. \A d \in Clients : conn'[d] # "accepted"
    BY <2>1, <2>3 DEF ArrivalOrder
  <2>6. newConn' = 0
    BY <2>1 DEF ArrivalOrder
  <2> QED BY <2>1, <2>2, <2>3, <2>4, <2>5, <2>6 DEF ArrivalOrder
\* A step of a sub loop moves an established connection on, and only takes functors
\* from its queue or puts connectDestroyed there.
<1>7. ASSUME NEW c \in Clients, NEW s \in {"none", "kConnected", "kDisconnected", "destroyed"},
             conn[c] \in {"kConnecting", "kConnected", "kDisconnected", "destroyed"},
             \/ UNCHANGED <<conn, loop_>>
             \/ /\ conn' = [conn EXCEPT ![c] = s] /\ (mpc = "established" => c # newConn)
                /\ loop_' = IF s = "none" THEN [loop_ EXCEPT ![c] = 0] ELSE loop_,
             UNCHANGED <<mpc, backlog, newConn>>,
             \A l \in Loops, d \in Clients : Queued(l, <<"connectEstablished", d>>)'
                                               => Queued(l, <<"connectEstablished", d>>)
      PROVE  ArrivalOrder'
  <2>1. /\ conn'[c] \in {conn[c], s}
        /\ \A d \in Clients : d # c => conn'[d] = conn[d] /\ loop_'[d] = loop_[d]
    BY <1>7 DEF TypeOK
  <2>2. \A d \in Clients : loop_'[d] = 0 <=> conn'[d] \in {"none", "backlog", "accepted"}
    <3>1. loop_'[c] = 0 <=> conn'[c] \in {"none", "backlog", "accepted"}
      BY <1>7 DEF ArrivalOrder, TypeOK
    <3> QED BY <2>1, <3>1 DEF ArrivalOrder
  <2>3. \A i \in 1..Len(backlog) : backlog[i] \in Clients
    BY DEF TypeOK
  <2>4. \A i \in 1..Len(backlog) :
          /\ conn'[backlog[i]] = "backlog"
          /\ \A j \in (i + 1)..Len(backlog) : backlog[i] # backlog[j]
    BY <1>7, <2>1, <2>3 DEF ArrivalOrder
  <2>5. \A d \in Clients : conn'[d] = "accepted" <=> d = newConn /\ mpc = "scan"
    BY <1>7, <2>1 DEF ArrivalOrder
  <2>6. ASSUME mpc = "established"
        PROVE  /\ conn'[newConn] = "kConnecting"
               /\ ~Queued(loop_[newConn], <<"connectEstablished", newConn>>)'
    <3>1. newConn \in Clients /\ conn[newConn] = "kConnecting"
      BY <2>6 DEF ArrivalOrder, TypeOK
    <3>2. conn'[newConn] = conn[newConn] /\ loop_'[newConn] = loop_[newConn]
      BY <1>7, <2>1, <2>6, <3>1
    <3>3. PICK l \in Loops : l = loop_[newConn]
      <4>1. loop_[newConn] # 0 /\ loop_[newConn] \in Loops \cup {0}
        BY <3>1 DEF ArrivalOrder, TypeOK
      <4> QED BY <4>1
    <3>4. ~Queued(l, <<"connectEstablished", newConn>>)'
      <4>1. PICK d \in Clients : d = newConn
        BY <3>1
      <4>2. ~Queued(l, <<"connectEstablished", d>>)
        BY <2>6, <3>3, <4>1 DEF ArrivalOrder
      <4>3. ~Queued(l, <<"connectEstablished", d>>)'
        BY <1>7, <4>2
      <4> QED BY <1>7, <4>1, <4>3 DEF Queued
    <3>5. loop_'[newConn'] = l
      BY <1>7, <3>2, <3>3
    <3> QED BY <3>1, <3>2, <3>4, <3>5 DEF Queued
  <2>7. newConn # 0 <=> mpc \in {"scan", "established"}
    BY DEF ArrivalOrder
  <2>8. newConn' = newConn /\ mpc' = mpc /\ backlog' = backlog
    BY <1>7
  <2> QED BY <2>2, <2>4, <2>5, <2>6, <2>7, <2>8 DEF ArrivalOrder
<1>8. ASSUME NEW l \in Loops, NEW c \in Clients,
             AddConnect(l, c) \/ ConnectEstablished(l, c) \/ ConnectDestroyed(l, c)
      PROVE  ArrivalOrder'
  <2>1. PICK kind : RunFunctor(l, kind, c)
    BY <1>8 DEF AddConnect, ConnectEstablished, ConnectDestroyed
  <2>2. 1 \in 1..Len(pendingFunctors_[l]) /\ pendingFunctors_[l][1] = <<kind, c>>
    BY <2>1, TailFacts DEF RunFunctor, TypeOK
  <2>3. /\ loop_[c] = l
        /\ conn[c] = IF kind = "connectDestroyed" THEN "kDisconnected" ELSE "kConnecting"
    BY <2>2, Entries DEF Entry
  <2>4. UNCHANGED <<mpc, backlog, newConn, loop_>>
    BY <2>1 DEF RunFunctor, mainVars
  <2>5. \A m \in Loops, d \in Clients : Queued(m, <<"connectEstablished", d>>)'
                                          => Queued(m, <<"connectEstablished", d>>)
    BY <2>1, QueuedRun
  <2>6. CASE AddConnect(l, c)
    BY <1>7, <2>3, <2>4, <2>5, <2>6 DEF AddConnect
  <2>7. CASE ConnectEstablished(l, c)
    <3>1. conn' = [conn EXCEPT ![c] = "kConnected"] /\ kind = "connectEstablished"
      BY <2>1, <2>7 DEF ConnectEstablished, RunFunctor
    <3>2. Queued(loop_[c], <<"connectEstablished", c>>)
      BY <2>2, <2>3, <3>1 DEF Queued
    <3>3. mpc = "established" => c # newConn
      BY <3>2 DEF ArrivalOrder
    <3> QED BY <1>7, <2>3, <2>4, <2>5, <3>1, <3>3
  <2>8. CASE ConnectDestroyed(l, c)
    <3>1. conn' = [conn EXCEPT ![c] = "destroyed"] /\ kind = "connectDestroyed"
      BY <2>1, <2>8 DEF ConnectDestroyed, RunFunctor
    <3>2. mpc = "established" => c # newConn
      BY <2>3, <3>1 DEF ArrivalOrder
    <3> QED BY <1>7, <2>3, <2>4, <2>5, <3>1, <3>2
  <2> QED BY <1>8, <2>6, <2>7, <2>8
<1>9. ASSUME NEW c \in Clients, HandleClose(c) PROVE ArrivalOrder'
  <2>1. /\ conn[c] = "kConnected" /\ conn' = [conn EXCEPT ![c] = "kDisconnected"]
        /\ UNCHANGED <<mpc, backlog, newConn, loop_>>
    BY <1>9 DEF HandleClose, mainVars
  <2>2. PICK k \in Loops : k = loop_[c]
    <3>1. loop_[c] # 0 /\ loop_[c] \in Loops \cup {0}
      BY <2>1 DEF TypeOK, ArrivalOrder
    <3> QED BY <3>1
  <2>3. <<"connectDestroyed", c>> \in Functors /\ Queue(k, <<"connectDestroyed", c>>)
    BY <1>9, <2>2 DEF HandleClose, removeConnection, Functors
  <2>4. \A m \in Loops, d \in Clients : Queued(m, <<"connectEstablished", d>>)'
                                          => Queued(m, <<"connectEstablished", d>>)
    BY <2>3, QueuedAppend
  <2>5. mpc = "established" => c # newConn
    BY <2>1 DEF ArrivalOrder
  <2> QED BY <1>7, <2>1, <2>4, <2>5
<1>10. ASSUME NEW c \in Clients, Destruct(c) PROVE ArrivalOrder'
  <2>1. /\ conn[c] = "destroyed" /\ conn' = [conn EXCEPT ![c] = "none"]
        /\ loop_' = [loop_ EXCEPT ![c] = 0]
        /\ UNCHANGED <<mpc, backlog, newConn, pendingFunctors_>>
    BY <1>10 DEF Destruct, mainVars, loopVars
  <2>2. \A m \in Loops, d \in Clients : Queued(m, <<"connectEstablished", d>>)'
                                          => Queued(m, <<"connectEstablished", d>>)
    BY <2>1 DEF Queued
  <2>3. mpc = "established" => c # newConn
    BY <2>1 DEF ArrivalOrder
  <2> QED BY <1>7, <2>1, <2>2, <2>3
<1> QED
  BY <1>1, <1>2, <1>3, <1>4, <1>5, <1>6, <1>8, <1>9, <1>10, QuietSteps
  DEF Next, MainStep, LoopStep

-----------------------------------------------------------------------------
\* A connection that is not open stays out of every connectSet_, and an open one
\* comes in with its addConnect.
LEMMA ConnectSetStep ==
  TypeOK /\ FunctorsInOrder /\ ArrivalOrder /\ ConnectSets /\ [Next]_vars => ConnectSets'
<1> SUFFICES ASSUME TypeOK, FunctorsInOrder, ArrivalOrder, ConnectSets, [Next]_vars
             PROVE  ConnectSets'
  OBVIOUS
<1>o. \A c \in Clients : Open(c) => loop_[c] \in Loops
  <2>1. \A c \in Clients : Open(c) => loop_[c] # 0
    BY DEF Open, ArrivalOrder
  <2>2. \A c \in Clients : loop_[c] # 0 => loop_[c] \in Loops
    BY DEF TypeOK
  <2> QED BY <2>1, <2>2
<1>s. \A l \in Loops : connectSet_[l] \subseteq Clients
  BY DEF TypeOK
<1>1. CASE Quiet
  BY <1>1 DEF Quiet, ConnectSets, Open, Queued
\* A client that connects, is accepted or refused or goes was not open and does not
\* become so.
<1>2. ASSUME NEW c \in Clients, NEW s \in {"none", "backlog", "accepted"},
             ~Open(c), conn' = [conn EXCEPT ![c] = s],
             loop_' \in {loop_, [loop_ EXCEPT ![c] = 0]},
             UNCHANGED <<pendingFunctors_, connectSet_>>
      PROVE  ConnectSets'
  <2>1. /\ \A d \in Clients : Open(d)' <=> Open(d)
        /\ \A d \in Clients : d # c => loop_'[d] = loop_[d]
    BY <1>2 DEF Open, TypeOK
  <2>2. \A l \in Loops : \A d \in connectSet_[l] : loop_'[d] = l /\ Open(d)'
    BY <1>2, <1>s, <2>1 DEF ConnectSets
  <2>3. ASSUME NEW d \in Clients, Open(d)'
        PROVE  d \in connectSet_[loop_'[d]] \/ Queued(loop_[d], <<"addConnect", d>>)'
    BY <1>2, <2>1, <2>3 DEF ConnectSets, Queued
  <2> QED BY <1>2, <2>2, <2>3 DEF ConnectSets
<1>3. CASE ClientConnects
  <2>1. PICK c \in Clients : conn[c] = "none" /\ conn' = [conn EXCEPT ![c] = "backlog"]
    BY <1>3 DEF ClientConnects
  <2>2. UNCHANGED <<loop_, pendingFunctors_, connectSet_>>
    BY <1>3 DEF ClientConnects, loopVars
  <2> QED BY <1>2, <2>1, <2>2 DEF Open
<1>4. CASE Accept \/ (AcceptIdle /\ FreeFds # {} /\ backlog # << >>)
  <2>0. PICK c : c = Head(backlog)
    OBVIOUS
  <2>1. c \in Clients /\ conn[c] = "backlog"
    BY <1>4, <2>0, HeadOfQueue DEF Accept, AcceptIdle
  <2>2. ~Open(c)
    BY <2>1 DEF Open
  <2>3. PICK s \in {"none", "accepted"} :
          conn' = [conn EXCEPT ![c] = s] /\ UNCHANGED <<loop_, pendingFunctors_, connectSet_>>
    BY <1>4, <2>0 DEF Accept, AcceptIdle, loopVars
  <2> QED BY <1>2, <2>1, <2>2, <2>3
<1>5. ASSUME NEW c \in Clients, Destruct(c) PROVE ConnectSets'
  <2>1. /\ conn[c] = "destroyed" /\ conn' = [conn EXCEPT ![c] = "none"]
        /\ loop_' = [loop_ EXCEPT ![c] = 0] /\ UNCHANGED <<pendingFunctors_, connectSet_>>
    BY <1>5 DEF Destruct, loopVars
  <2> QED BY <1>2, <2>1 DEF Open
<1>6. CASE NewConnection
  <2>0. PICK c : c = newConn
    OBVIOUS
  <2>k. PICK k \in Loops : k = best
    BY DEF TypeOK
  <2>1. c \in Clients /\ conn[c] = "accepted"
    BY <1>6, <2>0 DEF NewConnection, ArrivalOrder, TypeOK
  <2>2. loop_[c] = 0 /\ ~Open(c)
    BY <2>1 DEF ArrivalOrder, Open
  <2>3. /\ conn' = [conn EXCEPT ![c] = "kConnecting"] /\ loop_' = [loop_ EXCEPT ![c] = k]
        /\ Queue(k, <<"addConnect", c>>) /\ UNCHANGED connectSet_
    BY <1>6, <2>0, <2>k DEF NewConnection
  <2>4. <<"addConnect", c>> \in Functors
    BY <2>1 DEF Functors
  <2>5. /\ loop_'[c] = k
        /\ \A d \in Clients : d # c => loop_'[d] = loop_[d] /\ (Open(d)' <=> Open(d))
    BY <2>1, <2>3 DEF TypeOK, Open
  <2>6. \A l \in Loops : \A d \in connectSet_[l] : d # c
    BY <2>2 DEF ConnectSets
  <2>7. \A l \in Loops : \A d \in connectSet_'[l] : loop_'[d] = l /\ Open(d)'
    BY <1>s, <2>3, <2>5, <2>6 DEF ConnectSets
  <2>8. ASSUME NEW d \in Clients, Open(d)'
        PROVE  d \in connectSet_'[loop_'[d]] \/ Queued(loop_[d], <<"addConnect", d>>)'
    <3>1. CASE d = c
      <4>1. Queued(k, <<"addConnect", c>>)'
        BY <2>3, <2>4, QueuedAppend
      <4> QED BY <2>5, <3>1, <4>1 DEF Queued
    <3>2. CASE d # c
      <4>1. PICK l \in Loops : l = loop_[d]
        BY <1>o, <2>5, <2>8, <3>2
      <4>2. d \in connectSet_[l] \/ Queued(l, <<"addConnect", d>>)
        BY <2>5, <2>8, <3>2, <4>1 DEF ConnectSets
      <4>3. d \in connectSet_'[l] \/ Queued(l, <<"addConnect", d>>)'
        BY <2>3, <2>4, <4>2, QueuedAppend
      <4>4. loop_'[d] = l
        BY <2>5, <3>2, <4>1
      <4> QED BY <4>3, <4>4 DEF Queued
    <3> QED BY <3>1, <3>2
  <2> QED BY <2>7, <2>8 DEF ConnectSets
<1>7. CASE QueueEstablished
  <2>1. PICK c \in Clients : conn[c] = "kConnecting" /\ Queue(loop_[c], <<"connectEstablished", c>>)
    BY <1>7 DEF QueueEstablished, ArrivalOrder, TypeOK
  <2>2. UNCHANGED <<conn, loop_, connectSet_>>
    BY <1>7 DEF QueueEstablished, connVars
  <2>3. PICK k \in Loops : k = loop_[c]
    BY <1>o, <2>1 DEF Open
  <2>4. <<"connectEstablished", c>> \in Functors
    BY DEF Functors
  <2>5. \A l \in Loops, d \in Clients :
          Queued(l, <<"addConnect", d>>) => Queued(l, <<"addConnect", d>>)'
    BY <2>1, <2>3, <2>4, QueuedAppend
  <2>6. ASSUME NEW d \in Clients, Open(d)'
        PROVE  d \in connectSet_'[loop_'[d]] \/ Queued(loop_[d], <<"addConnect", d>>)'
    <3>1. PICK l \in Loops : l = loop_[d]
      BY <1>o, <2>2, <2>6 DEF Open
    <3>2. d \in connectSet_[l] \/ Queued(l, <<"addConnect", d>>)
      BY <2>2, <2>6, <3>1 DEF ConnectSets, Open
    <3>3. d \in connectSet_'[l] \/ Queued(l, <<"addConnect", d>>)'
      BY <2>2, <2>5, <3>2
    <3>4. loop_'[d] = l
      BY <2>2, <3>1
    <3> QED BY <3>3, <3>4 DEF Queued
  <2>7. \A l \in Loops : \A d \in connectSet_'[l] : loop_'[d] = l /\ Open(d)'
    BY <2>2 DEF ConnectSets, Open
  <2> QED BY <2>6, <2>7 DEF ConnectSets
<1>8. ASSUME NEW l \in Loops, NEW c \in Clients, AddConnect(l, c) PROVE ConnectSets'
  <2>1. /\ RunFunctor(l, "addConnect", c) /\ UNCHANGED <<conn, loop_>>
        /\ connectSet_' = [connectSet_ EXCEPT ![l] = @ \cup {c}]
    BY <1>8 DEF AddConnect, RunFunctor
  <2>2. 1 \in 1..Len(pendingFunctors_[l]) /\ pendingFunctors_[l][1] = <<"addConnect", c>>
    BY <2>1, TailFacts DEF RunFunctor, TypeOK
  <2>3. loop_[c] = l /\ Open(c)
    BY <2>2, Entries DEF Entry, Open
  <2>4. \A d \in Clients : Open(d)' <=> Open(d)
    BY <2>1 DEF Open
  <2>5. /\ connectSet_'[l] = connectSet_[l] \cup {c}
        /\ \A m \in Loops : m # l => connectSet_'[m] = connectSet_[m]
    BY <2>1 DEF TypeOK
  <2>6. \A m \in Loops : \A d \in connectSet_'[m] : loop_'[d] = m /\ Open(d)'
    BY <1>s, <2>1, <2>3, <2>4, <2>5 DEF ConnectSets
  <2>7. ASSUME NEW d \in Clients, Open(d)'
        PROVE  d \in connectSet_'[loop_'[d]] \/ Queued(loop_[d], <<"addConnect", d>>)'
    <3>1. CASE d = c
      BY <2>1, <2>3, <2>5, <3>1
    <3>2. CASE d # c
      <4>1. PICK m \in Loops : m = loop_[d]
        BY <1>o, <2>4, <2>7
      <4>2. d \in connectSet_[m] \/ Queued(m, <<"addConnect", d>>)
        BY <2>4, <2>7, <4>1 DEF ConnectSets
      <4>3. <<"addConnect", d>> # <<"addConnect", c>>
        BY <3>2
      <4>4. d \in connectSet_'[m] \/ Queued(m, <<"addConnect", d>>)'
        BY <2>1, <2>5, <4>2, <4>3, QueuedRun
      <4>5. loop_'[d] = m
        BY <2>1, <4>1
      <4> QED BY <4>4, <4>5 DEF Queued
    <3> QED BY <3>1, <3>2
  <2> QED BY <2>6, <2>7 DEF ConnectSets
\* connectEstablished leaves the connection open; connectDestroyed finds it closed.
<1>9. ASSUME NEW l \in Loops, NEW c \in Clients,
             ConnectEstablished(l, c) \/ ConnectDestroyed(l, c)
      PROVE  ConnectSets'
  <2>1. PICK kind \in {"connectEstablished", "connectDestroyed"} : RunFunctor(l, kind, c)
    BY <1>9 DEF ConnectEstablished, ConnectDestroyed
  <2>2. UNCHANGED <<loop_, connectSet_>>
    BY <1>9, <2>1 DEF ConnectEstablished, ConnectDestroyed, RunFunctor
  <2>3. \A d \in Clients : Open(d)' <=> Open(d)
    <3>1. CASE ConnectEstablished(l, c)
      <4>1. conn[c] = "kConnecting"
        BY <3>1, LastFunctor DEF ConnectEstablished
      <4> QED BY <3>1, <4>1 DEF ConnectEstablished, Open, TypeOK
    <3>2. CASE ConnectDestroyed(l, c)
      <4>1. conn[c] = "kDisconnected"
        BY <3>2, LastFunctor DEF ConnectDestroyed
      <4> QED BY <3>2, <4>1 DEF ConnectDestroyed, Open, TypeOK
    <3> QED BY <1>9, <3>1, <3>2
  <2>4. \A m \in Loops, d \in Clients :
          Queued(m, <<"addConnect", d>>) => Queued(m, <<"addConnect", d>>)'
    <3>1. ASSUME NEW d \in Clients PROVE <<"addConnect", d>> # <<kind, c>>
      OBVIOUS
    <3> QED BY <2>1, <3>1, QueuedRun
  <2>5. \A m \in Loops : \A d \in connectSet_'[m] : loop_'[d] = m /\ Open(d)'
    BY <1>s, <2>2, <2>3 DEF ConnectSets
  <2>6. ASSUME NEW d \in Clients, Open(d)'
        PROVE  d \in connectSet_'[loop_'[d]] \/ Queued(loop_[d], <<"addConnect", d>>)'
    <3>1. PICK m \in Loops : m = loop_[d]
      BY <1>o, <2>3, <2>6
    <3>2. d \in connectSet_'[m] \/ Queued(m, <<"addConnect", d>>)'
      BY <2>2, <2>3, <2>4, <2>6, <3>1 DEF ConnectSets
    <3>3. loop_'[d] = m
      BY <2>2, <3>1
    <3> QED BY <3>2, <3>3 DEF Queued
  <2> QED BY <2>5, <2>6 DEF ConnectSets
<1>10. ASSUME NEW c \in Clients, HandleClose(c) PROVE ConnectSets'
  <2>1. /\ conn[c] = "kConnected" /\ conn' = [conn EXCEPT ![c] = "kDisconnected"]
        /\ UNCHANGED loop_
    BY <1>10 DEF HandleClose
  <2>2. PICK k \in Loops : k = loop_[c]
    BY <1>o, <2>1 DEF Open
  <2>3. /\ <<"connectDestroyed", c>> \in Functors /\ Queue(k, <<"connectDestroyed", c>>)
        /\ connectSet_' = [connectSet_ EXCEPT ![k] = @ \ {c}]
    BY <1>10, <2>2 DEF HandleClose, removeConnection, Functors
  <2>4. ~Open(c)' /\ \A d \in Clients : d # c => (Open(d)' <=> Open(d))
    BY <2>1 DEF Open, TypeOK
  <2>5. \A m \in Loops : \A d \in Clients :
          /\ d \in connectSet_'[m] => d \in connectSet_[m] /\ d # c
          /\ d \in connectSet_[m] /\ d # c => d \in connectSet_'[m]
    <3>1. \A m \in Loops : connectSet_'[m] = IF m = k THEN connectSet_[m] \ {c} ELSE connectSet_[m]
      BY <2>3 DEF TypeOK
    <3>2. \A m \in Loops : c \in connectSet_[m] => m = k
      BY <2>2 DEF ConnectSets
    <3> QED BY <3>1, <3>2
  <2>6. \A m \in Loops : connectSet_'[m] \subseteq Clients
    BY <2>3, <1>s DEF TypeOK
  <2>7. \A m \in Loops : \A d \in connectSet_'[m] : loop_'[d] = m /\ Open(d)'
    BY <2>1, <2>4, <2>5, <2>6 DEF ConnectSets
  <2>8. ASSUME NEW d \in Clients, Open(d)'
        PROVE  d \in connectSet_'[loop_'[d]] \/ Queued(loop_[d], <<"addConnect", d>>)'
    <3>1. d # c /\ Open(d)
      BY <2>4, <2>8
    <3>2. PICK m \in Loops : m = loop_[d]
      BY <1>o, <3>1
    <3>3. d \in connectSet_[m] \/ Queued(m, <<"addConnect", d>>)
      BY <3>1, <3>2 DEF ConnectSets
    <3>4. d \in connectSet_'[m] \/ Queued(m, <<"addConnect", d>>)'
      BY <2>3, <2>5, <3>1, <3>3, QueuedAppend
    <3>5. loop_'[d] = m
      BY <2>1, <3>2
    <3> QED BY <3>4, <3>5 DEF Queued
  <2> QED BY <2>7, <2>8 DEF ConnectSets
<1> QED
  BY <1>1, <1>3, <1>4, <1>5, <1>6, <1>7, <1>8, <1>9, <1>10, QuietSteps
  DEF Next, MainStep, LoopStep

-----------------------------------------------------------------------------
\* The clients that were on their way, counted by sets of loops.
LEMMA OnWayFacts ==
  /\ \A L : OnWay(L) \in Nat
  /\ \A L, M : L \subseteq M => OnWay(L) <= OnWay(M)
  /\ \A L, M : L \cap M = {} => OnWay(L) + OnWay(M) = OnWay(L \cup M)
<1> DEFINE W(L) == {c \in Clients : queuedAt[c] \in L}
<1>1. IsFiniteSet(Clients)
  BY FS_Interval, ServerAssumption DEF Clients
<1>2. \A L : IsFiniteSet(W(L)) /\ Cardinality(W(L)) \in Nat
  BY <1>1, FS_Subset, FS_CardinalityType
<1>3. \A L, M : L \subseteq M => W(L) \subseteq W(M)
  OBVIOUS
<1>4. \A L, M : W(L \cup M) = W(L) \cup W(M) /\ (L \cap M = {} => W(L) \cap W(M) = {})
  OBVIOUS
<1>5. \A L : OnWay(L) = Cardinality(W(L))
  BY DEF OnWay
<1> HIDE DEF W
<1>6. ASSUME NEW L, NEW M, L \subseteq M PROVE Cardinality(W(L)) <= Cardinality(W(M))
  BY <1>2, <1>3, <1>6, FS_Subset
<1>7. ASSUME NEW L, NEW M, L \cap M = {}
      PROVE  Cardinality(W(L)) + Cardinality(W(M)) = Cardinality(W(L \cup M))
  <2>1. W(L) \cap W(M) = {} /\ W(L \cup M) = W(L) \cup W(M)
    BY <1>4, <1>7
  <2>2. Cardinality(W(L) \cap W(M)) = 0
    BY <2>1, FS_EmptySet
  <2>3. /\ IsFiniteSet(W(L) \cup W(M))
        /\ Cardinality(W(L) \cup W(M)) =
             Cardinality(W(L)) + Cardinality(W(M)) - Cardinality(W(L) \cap W(M))
    BY <1>2, FS_Union
  <2>4. PICK x \in Nat, y \in Nat, z \in Nat :
          x = Cardinality(W(L)) /\ y = Cardinality(W(M)) /\ z = Cardinality(W(L) \cap W(M))
    BY <1>2, <2>2
  <2>5. Cardinality(W(L) \cup W(M)) = x + y
    BY <2>2, <2>3, <2>4
  <2> QED BY <2>1, <2>4, <2>5
<1> QED BY <1>2, <1>5, <1>6, <1>7

\* connectSet_ is part of what a loop's load counts, and what it lacks is on its way.
LEMMA SizeAndLoad ==
  ASSUME TypeOK, ConnectSets, ScanInv, mpc = "scan", NEW l \in Loops
  PROVE  /\ Cardinality(connectSet_[l]) \in Nat
         /\ Cardinality(connectSet_[l]) <= Load(l)
         /\ Load(l) <= Cardinality(connectSet_[l]) + OnWay({l})
<1> DEFINE S == connectSet_[l]
           T == {c \in Clients : loop_[c] = l /\ Open(c)}
           W == {c \in Clients : queuedAt[c] \in {l}}
<1>1. IsFiniteSet(Clients)
  BY FS_Interval, ServerAssumption DEF Clients
<1>2. S \subseteq Clients /\ T \subseteq Clients /\ W \subseteq Clients
  BY DEF TypeOK
<1>3. S \subseteq T
  BY <1>2 DEF ConnectSets
<1>4. T \subseteq S \cup W
  <2> SUFFICES ASSUME NEW c \in Clients, loop_[c] = l, Open(c), c \notin connectSet_[l]
               PROVE  queuedAt[c] = l
    OBVIOUS
  <2>1. Queued(l, <<"addConnect", c>>)
    BY DEF ConnectSets
  <2> QED BY <2>1 DEF ScanInv
<1>5. /\ IsFiniteSet(S) /\ IsFiniteSet(T) /\ IsFiniteSet(W)
      /\ Cardinality(S) \in Nat /\ Cardinality(T) \in Nat /\ Cardinality(W) \in Nat
  BY <1>1, <1>2, FS_Subset, FS_CardinalityType
<1>6. Load(l) = Cardinality(T) /\ OnWay({l}) = Cardinality(W)
  BY DEF Load, OnWay
<1> HIDE DEF S, T, W
<1>7. Cardinality(S) <= Cardinality(T)
  BY <1>3, <1>5, FS_Subset
<1>8. /\ IsFiniteSet(S \cup W) /\ IsFiniteSet(S \cap W)
      /\ Cardinality(S \cup W) = Cardinality(S) + Cardinality(W) - Cardinality(S \cap W)
  BY <1>5, FS_Union, FS_Intersection
<1>9. Cardinality(S \cap W) \in Nat /\ Cardinality(S \cup W) \in Nat
  BY <1>8, FS_CardinalityType
<1>10. Cardinality(T) <= Cardinality(S \cup W)
  BY <1>4, <1>8, FS_Subset
<1>11. Cardinality(T) <= Cardinality(S) + Cardinality(W)
  BY <1>5, <1>8, <1>9, <1>10
<1>12. Cardinality(S) = Cardinality(connectSet_[l])
  BY DEF S
<1> QED BY <1>5, <1>6, <1>7, <1>11, <1>12

\* min_element's invariant in the next state, with its variables given names.
LEMMA ScanNext ==
  ASSUME NEW b, NEW n, b = best', n = next', b < n,
         \A l \in Loops : \A c \in Clients : Queued(l, <<"addConnect", c>>)' => queuedAt'[c] = l,
         \A l \in Loops : Load(l)' <= loadAt'[l],
         \A l \in 1..(n - 1) : Load(b)' <= loadAt'[l] + OnWay(1..(n - 1))',
         seen'[b] # Unread =>
           /\ Load(b)' <= seen'[b] + OnWay({b})'
           /\ \A l \in 1..(n - 1) : seen'[b] <= loadAt'[l] + OnWay(1..(n - 1))',
         n <= numThreads_ /\ seen'[n] # Unread =>
           Load(n)' <= seen'[n] + OnWay({n})' /\ seen'[n] <= loadAt'[n]
  PROVE  ScanInv'
BY DEF ScanInv, Load, OnWay

\* While min_element is at work nothing but closing changes a load.
LEMMA ScanKept ==
  ASSUME TypeOK, ScanInv, mpc = "scan", UNCHANGED scanVars,
         \A c \in Clients : Open(c)' => Open(c) /\ loop_'[c] = loop_[c],
         \A l \in Loops, c \in Clients :
           Queued(l, <<"addConnect", c>>)' => Queued(l, <<"addConnect", c>>)
  PROVE  ScanInv'
<1>1. IsFiniteSet(Clients)
  BY FS_Interval, ServerAssumption DEF Clients
<1>2. ASSUME NEW l PROVE Load(l)' <= Load(l)
  <2> DEFINE T == {c \in Clients : loop_[c] = l /\ Open(c)}
             U == {c \in Clients : loop_'[c] = l /\ Open(c)'}
  <2>1. U \subseteq T /\ T \subseteq Clients
    OBVIOUS
  <2>2. Load(l) = Cardinality(T) /\ Load(l)' = Cardinality(U)
    BY DEF Load
  <2> HIDE DEF T, U
  <2>3. IsFiniteSet(T)
    BY <1>1, <2>1, FS_Subset
  <2> QED BY <2>1, <2>2, <2>3, FS_Subset
<1>3. UNCHANGED <<best, next, seen, loadAt, queuedAt>>
  BY DEF scanVars, history
<1>4. \A L : OnWay(L)' = OnWay(L)
  BY <1>3 DEF OnWay
<1>5. \A l : Load(l) \in Nat /\ Load(l)' \in Nat
  <2>1. ASSUME NEW l PROVE IsFiniteSet({c \in Clients : loop_'[c] = l /\ Open(c)'})
    BY <1>1, FS_Subset
  <2>2. ASSUME NEW l PROVE Load(l)' \in Nat
    BY <2>1, FS_CardinalityType DEF Load
  <2> QED BY <2>2, Loads
<1>6. /\ \A l \in Loops : \A c \in Clients : Queued(l, <<"addConnect", c>>)' => queuedAt'[c] = l
      /\ best' < next'
  BY <1>3 DEF ScanInv
<1>7. \A l \in Loops : Load(l)' <= loadAt'[l]
  <2>1. \A l \in Loops : loadAt[l] \in Nat /\ Load(l) <= loadAt[l]
    BY DEF TypeOK, ScanInv
  <2> QED BY <1>2, <1>3, <1>5, <2>1
<1>7a. PICK b, n : b = best /\ n = next
  OBVIOUS
<1>8. \A l \in 1..(n - 1) : Load(b)' <= loadAt'[l] + OnWay(1..(n - 1))'
  <2>1. ASSUME NEW l \in 1..(n - 1) PROVE Load(b)' <= loadAt[l] + OnWay(1..(n - 1))
    <3>1. Load(b) <= loadAt[l] + OnWay(1..(n - 1)) /\ loadAt[l] \in Nat
      BY <1>7a, ServerAssumption DEF ScanInv, TypeOK, Loops
    <3>2. OnWay(1..(n - 1)) \in Nat
      BY OnWayFacts
    <3> QED BY <1>2, <1>5, <3>1, <3>2
  <2> QED BY <1>3, <1>4, <2>1
<1>9. seen'[b] # Unread =>
        /\ Load(b)' <= seen'[b] + OnWay({b})'
        /\ \A l \in 1..(n - 1) : seen'[b] <= loadAt'[l] + OnWay(1..(n - 1))'
  <2> SUFFICES ASSUME seen[b] # Unread
               PROVE  /\ Load(b)' <= seen[b] + OnWay({b})
                      /\ \A l \in 1..(n - 1) : seen[b] <= loadAt[l] + OnWay(1..(n - 1))
    BY <1>3, <1>4
  <2>1. seen[b] \in Nat /\ Load(b) <= seen[b] + OnWay({b})
    BY <1>7a DEF ScanInv, TypeOK
  <2>2. OnWay({b}) \in Nat
    BY OnWayFacts
  <2>3. Load(b)' <= seen[b] + OnWay({b})
    BY <1>2, <1>5, <2>1, <2>2
  <2>4. \A l \in 1..(n - 1) : seen[b] <= loadAt[l] + OnWay(1..(n - 1))
    BY <1>7a DEF ScanInv
  <2> QED BY <2>3, <2>4
<1>10. n <= numThreads_ /\ seen'[n] # Unread =>
         Load(n)' <= seen'[n] + OnWay({n})' /\ seen'[n] <= loadAt'[n]
  <2> SUFFICES ASSUME n <= numThreads_, seen[n] # Unread
               PROVE  Load(n)' <= seen[n] + OnWay({n}) /\ seen[n] <= loadAt[n]
    BY <1>3, <1>4
  <2>1. n \in Loops
    BY <1>7a, ServerAssumption DEF TypeOK, Loops
  <2>2. seen[n] \in Nat /\ Load(n) <= seen[n] + OnWay({n}) /\ seen[n] <= loadAt[n]
    BY <1>7a, <2>1 DEF ScanInv, TypeOK
  <2>3. OnWay({n}) \in Nat
    BY OnWayFacts
  <2> QED BY <1>2, <1>5, <2>2, <2>3
<1>11. b = best' /\ n = next' /\ b < n
  BY <1>3, <1>6, <1>7a
<1> HIDE DEF ScanInv
<1> QED BY <1>6, <1>7, <1>8, <1>9, <1>10, <1>11, ScanNext

\* What two sizes sb and sn, read of loops of loads lb and ln, say of the smaller one.
LEMMA CompareBounds ==
  \A w, wb, wn, W, lb, ln, sb, sn, an \in Nat :
    wb <= W /\ w <= W /\ w + wn = W /\ lb <= sb + wb /\ ln <= sn + wn /\ sn <= an /\ ln <= an =>
      /\ ln <= an + W /\ (~(sn < sb) => lb <= an + W)
      /\ \A ak \in Nat : lb <= ak + w /\ sb <= ak + w =>
           lb <= ak + W /\ (sn < sb => ln <= ak + W)
OBVIOUS

\* min_element's invariant: a size is read, two are compared, or a loop goes on.
LEMMA ScanStep ==
  ServerInv /\ [Next]_vars => ScanInv'
<1> SUFFICES ASSUME TypeOK, ConnectSets, FunctorsInOrder, ArrivalOrder, ScanInv, [Next]_vars,
                    mpc' = "scan"
             PROVE  ScanInv'
  BY DEF ServerInv, ScanInv
<1>0. /\ best \in Loops /\ best \in Nat /\ next \in Nat /\ next - 1 \in Nat /\ next >= 2
      /\ \A l \in Loops : l \in Nat /\ loadAt[l] \in Nat /\ (seen[l] # Unread => seen[l] \in Nat)
      /\ 1..(next - 1) \subseteq Loops /\ (next <= numThreads_ => next \in Loops)
  BY ServerAssumption DEF TypeOK, Loops
<1>1. CASE Accept
  <2>0. PICK c : c = Head(backlog)
    OBVIOUS
  <2>1. c \in Clients /\ conn[c] = "backlog"
    BY <1>1, <2>0, HeadOfQueue DEF Accept
  <2>2. /\ conn' = [conn EXCEPT ![c] = "accepted"] /\ UNCHANGED <<loop_, pendingFunctors_>>
        /\ best' = 1 /\ next' = 2 /\ seen' = NoneRead /\ loadAt' = [l \in Loops |-> Load(l)]
        /\ queuedAt' = [d \in Clients |->
                         IF \E l \in Loops : Queued(l, <<"addConnect", d>>) THEN loop_[d] ELSE 0]
    BY <1>1, <2>0 DEF Accept, loopVars
  <2>3. \A d \in Clients : Open(d)' <=> Open(d)
    BY <2>1, <2>2 DEF Open, TypeOK
  <2>4. \A l : Load(l)' = Load(l)
    BY <2>2, <2>3 DEF Load
  <2>5. ASSUME NEW l \in Loops, NEW d \in Clients, Queued(l, <<"addConnect", d>>)'
        PROVE  queuedAt'[d] = l
    <3>1. Queued(l, <<"addConnect", d>>)
      BY <2>2, <2>5 DEF Queued
    <3>2. loop_[d] = l
      BY <3>1 DEF Queued, FunctorsInOrder
    <3> QED BY <2>2, <3>1, <3>2
  <2>6. \A l \in Loops : loadAt'[l] = Load(l) /\ seen'[l] = Unread
    BY <2>2 DEF NoneRead
  <2>7. \A l \in Loops : Load(l)' <= loadAt'[l]
    BY <2>4, <2>6, Loads
  <2>8. PICK b, n : b = 1 /\ n = 2 /\ b = best' /\ n = next' /\ b < n
    BY <2>2
  <2>9. \A l \in 1..(n - 1) : Load(b)' <= loadAt'[l] + OnWay(1..(n - 1))'
    <3>1. OnWay(1..(n - 1))' \in Nat
      <4>1. IsFiniteSet(Clients)
        BY FS_Interval, ServerAssumption DEF Clients
      <4>2. IsFiniteSet({d \in Clients : queuedAt'[d] \in 1..(n - 1)})
        BY <4>1, FS_Subset
      <4> QED BY <4>2, FS_CardinalityType DEF OnWay
    <3>2. Load(b)' = loadAt'[b] /\ loadAt'[b] \in Nat
      BY <2>4, <2>6, <2>8, Loads, ScanType
    <3>3. \A l \in 1..(n - 1) : l = b
      BY <2>8
    <3> QED BY <3>1, <3>2, <3>3
  <2>10. seen'[b] = Unread /\ (n <= numThreads_ => seen'[n] = Unread)
    BY <2>6, <2>8, ServerAssumption DEF Loops
  <2> QED BY <2>8, <2>2, <2>5, <2>7, <2>9, <2>10, ScanNext
<1>2. ASSUME NEW l \in Loops, ReadSize(l) PROVE ScanInv'
  <2>1. /\ mpc = "scan" /\ next <= numThreads_ /\ l \in {best, next} /\ seen[l] = Unread
        /\ seen' = [seen EXCEPT ![l] = Cardinality(connectSet_[l])]
        /\ UNCHANGED <<best, next, loadAt, queuedAt, loop_, conn, pendingFunctors_>>
    BY <1>2 DEF ReadSize, history, connVars, loopVars
  <2>2. (\A k : Load(k)' = Load(k)) /\ \A L : OnWay(L)' = OnWay(L)
    BY <2>1 DEF Load, Open, OnWay
  <2>3. /\ Cardinality(connectSet_[l]) \in Nat /\ Cardinality(connectSet_[l]) <= Load(l)
        /\ Load(l) <= Cardinality(connectSet_[l]) + OnWay({l})
    BY <2>1, SizeAndLoad
  <2>4. \A k \in Loops : seen'[k] = IF k = l THEN Cardinality(connectSet_[l]) ELSE seen[k]
    BY <2>1 DEF TypeOK
  <2>5. PICK s \in Nat : s = Cardinality(connectSet_[l])
    BY <2>3
  <2>6. seen'[best] # Unread =>
          /\ Load(best) <= seen'[best] + OnWay({best})
          /\ \A k \in 1..(next - 1) : seen'[best] <= loadAt[k] + OnWay(1..(next - 1))
    <3>1. CASE l = best
      <4>1. seen'[best] = s /\ Load(best) <= s + OnWay({best}) /\ s <= Load(best)
        BY <1>0, <2>3, <2>4, <2>5, <3>1
      <4>2. ASSUME NEW k \in 1..(next - 1) PROVE s <= loadAt[k] + OnWay(1..(next - 1))
        <5>1. Load(best) <= loadAt[k] + OnWay(1..(next - 1))
          BY <2>1 DEF ScanInv
        <5>2. Load(best) \in Nat /\ OnWay(1..(next - 1)) \in Nat /\ loadAt[k] \in Nat
          BY <1>0, Loads, OnWayFacts
        <5> QED BY <4>1, <5>1, <5>2
      <4> QED BY <4>1, <4>2
    <3>2. CASE l # best
      BY <1>0, <2>1, <2>4, <3>2 DEF ScanInv
    <3> QED BY <3>1, <3>2
  <2>7. seen'[next] # Unread =>
          Load(next) <= seen'[next] + OnWay({next}) /\ seen'[next] <= loadAt[next]
    <3>1. CASE l = next
      <4>1. seen'[next] = s /\ Load(next) <= s + OnWay({next}) /\ s <= Load(next)
        BY <2>3, <2>4, <2>5, <3>1
      <4>2. Load(next) <= loadAt[next]
        BY <2>1, <3>1 DEF ScanInv
      <4>3. Load(next) \in Nat /\ loadAt[next] \in Nat
        BY <1>0, <3>1, Loads
      <4> QED BY <4>1, <4>2, <4>3
    <3>2. CASE l # next
      BY <1>0, <2>1, <2>4, <3>2 DEF ScanInv
    <3> QED BY <3>1, <3>2
  <2>8. \A k \in Loops, d \in Clients :
          Queued(k, <<"addConnect", d>>)' <=> Queued(k, <<"addConnect", d>>)
    BY <2>1 DEF Queued
  <2>9. /\ \A k \in Loops : \A d \in Clients : Queued(k, <<"addConnect", d>>)' => queuedAt'[d] = k
        /\ \A k \in Loops : Load(k)' <= loadAt'[k]
    BY <2>1, <2>2, <2>8 DEF ScanInv
  <2>10. PICK b, n : b = best /\ n = next
    OBVIOUS
  <2>11. b = best' /\ n = next' /\ b < n
    BY <2>1, <2>10 DEF ScanInv
  <2>12. \A k \in 1..(n - 1) : Load(b)' <= loadAt'[k] + OnWay(1..(n - 1))'
    <3>1. \A k \in 1..(n - 1) : Load(b) <= loadAt[k] + OnWay(1..(n - 1))
      BY <2>1, <2>10 DEF ScanInv
    <3> QED BY <2>1, <2>2, <3>1
  <2>13. seen'[b] # Unread =>
           /\ Load(b)' <= seen'[b] + OnWay({b})'
           /\ \A k \in 1..(n - 1) : seen'[b] <= loadAt'[k] + OnWay(1..(n - 1))'
    BY <2>1, <2>2, <2>6, <2>10
  <2>14. n <= numThreads_ /\ seen'[n] # Unread =>
           Load(n)' <= seen'[n] + OnWay({n})' /\ seen'[n] <= loadAt'[n]
    BY <2>1, <2>2, <2>7, <2>10
  <2> QED BY <2>9, <2>11, <2>12, <2>13, <2>14, ScanNext
<1>3. CASE Compare
  <2>1. /\ mpc = "scan" /\ next <= numThreads_ /\ seen[best] # Unread /\ seen[next] # Unread
        /\ best' = (IF seen[next] < seen[best] THEN next ELSE best)
        /\ next' = next + 1 /\ seen' = NoneRead
        /\ UNCHANGED <<loadAt, queuedAt, loop_, conn, pendingFunctors_>>
    BY <1>3 DEF Compare, history, connVars, loopVars
  <2>2. (\A k : Load(k)' = Load(k)) /\ \A L : OnWay(L)' = OnWay(L)
    BY <2>1 DEF Load, Open, OnWay
  <2>3. /\ next \in Loops /\ seen[best] \in Nat /\ seen[next] \in Nat /\ best < next
        /\ Load(best) \in Nat /\ Load(next) \in Nat
    BY <1>0, <2>1, Loads DEF ScanInv
  <2>4. PICK b, n : b = best' /\ n = next'
    OBVIOUS
  <2>5. /\ b \in Loops /\ n = next + 1 /\ b < n /\ seen'[b] = Unread
        /\ b = (IF seen[next] < seen[best] THEN next ELSE best)
        /\ (n <= numThreads_ => seen'[n] = Unread)
    BY <1>0, <2>1, <2>3, <2>4 DEF NoneRead, Loops
  <2>6. /\ OnWay({best}) \in Nat /\ OnWay({next}) \in Nat
        /\ OnWay(1..(next - 1)) \in Nat /\ OnWay(1..next) \in Nat
        /\ OnWay({best}) <= OnWay(1..next) /\ OnWay(1..(next - 1)) <= OnWay(1..next)
        /\ OnWay(1..(next - 1)) + OnWay({next}) = OnWay(1..next)
    <3>1. /\ {best} \subseteq 1..next /\ 1..(next - 1) \subseteq 1..next
          /\ (1..(next - 1)) \cap {next} = {} /\ (1..(next - 1)) \cup {next} = 1..next
      BY <1>0, <2>3 DEF Loops
    <3> QED BY <3>1, OnWayFacts
  <2>7. /\ Load(best) <= seen[best] + OnWay({best})
        /\ Load(next) <= seen[next] + OnWay({next}) /\ seen[next] <= loadAt[next]
        /\ Load(next) <= loadAt[next] /\ loadAt[next] \in Nat
    BY <1>0, <2>1, <2>3 DEF ScanInv
  <2>8. \A k \in 1..(next - 1) : /\ Load(best) <= loadAt[k] + OnWay(1..(next - 1))
                                 /\ seen[best] <= loadAt[k] + OnWay(1..(next - 1))
                                 /\ loadAt[k] \in Nat
    BY <1>0, <2>1 DEF ScanInv
  <2>9. ASSUME NEW k \in 1..next PROVE Load(b) <= loadAt[k] + OnWay(1..next)
    \* w: on the way to the loops compared; wb, wn: to best and next; W: to all of them.
    <3>1. PICK w \in Nat, wb \in Nat, wn \in Nat, W \in Nat :
            /\ w = OnWay(1..(next - 1)) /\ wb = OnWay({best}) /\ wn = OnWay({next})
            /\ W = OnWay(1..next) /\ wb <= W /\ w <= W /\ w + wn = W
      BY <2>6
    <3>2. PICK lb \in Nat, ln \in Nat, sb \in Nat, sn \in Nat, an \in Nat :
            /\ lb = Load(best) /\ ln = Load(next) /\ sb = seen[best] /\ sn = seen[next]
            /\ an = loadAt[next]
      BY <2>3, <2>7
    <3>3. /\ wb <= W /\ w <= W /\ w + wn = W
          /\ lb <= sb + wb /\ ln <= sn + wn /\ sn <= an /\ ln <= an
      BY <2>7, <3>1, <3>2
    <3>4. Load(b) = IF sn < sb THEN ln ELSE lb
      BY <2>5, <3>2
    <3>5. CASE k = next
      <4>1. ln <= an + W /\ (~(sn < sb) => lb <= an + W)
        BY <3>3, CompareBounds
      <4> QED BY <3>1, <3>2, <3>4, <3>5, <4>1
    <3>6. CASE k \in 1..(next - 1)
      <4>1. PICK ak \in Nat : ak = loadAt[k] /\ lb <= ak + w /\ sb <= ak + w
        BY <2>8, <3>1, <3>2, <3>6
      <4>2. lb <= ak + W /\ (sn < sb => ln <= ak + W)
        <5>1. lb <= ak + w /\ sb <= ak + w
          BY <4>1
        <5> QED BY <3>3, <5>1, CompareBounds
      <4> QED BY <3>1, <3>4, <4>1, <4>2
    <3>7. k \in 1..(next - 1) \/ k = next
      BY <1>0
    <3> QED BY <3>5, <3>6, <3>7
  <2>10. \A k \in 1..(n - 1) : Load(b)' <= loadAt'[k] + OnWay(1..(n - 1))'
    <3>1. n - 1 = next
      BY <1>0, <2>5
    <3>2. OnWay(1..(n - 1))' = OnWay(1..next)
      BY <2>2, <3>1
    <3> QED BY <2>1, <2>2, <2>9, <3>1, <3>2
  <2>11. /\ \A k \in Loops : \A d \in Clients : Queued(k, <<"addConnect", d>>)' => queuedAt'[d] = k
         /\ \A k \in Loops : Load(k)' <= loadAt'[k]
    BY <2>1, <2>2 DEF ScanInv, Queued
  <2> QED BY <2>4, <2>5, <2>10, <2>11, ScanNext
<1>4. ASSUME NEW c \in Clients, HandleClose(c) PROVE ScanInv'
  <2>1. /\ conn[c] = "kConnected" /\ conn' = [conn EXCEPT ![c] = "kDisconnected"]
        /\ UNCHANGED <<mpc, scanVars, loop_>>
    BY <1>4 DEF HandleClose, mainVars
  <2>2. \A d \in Clients : Open(d)' => Open(d) /\ loop_'[d] = loop_[d]
    BY <2>1 DEF Open, TypeOK
  <2>3. PICK k \in Loops : k = loop_[c]
    <3>1. loop_[c] # 0 /\ loop_[c] \in Loops \cup {0}
      BY <2>1 DEF TypeOK, ArrivalOrder
    <3> QED BY <3>1
  <2>4. <<"connectDestroyed", c>> \in Functors /\ Queue(k, <<"connectDestroyed", c>>)
    BY <1>4, <2>3 DEF HandleClose, removeConnection, Functors
  <2>5. \A l \in Loops, d \in Clients :
          Queued(l, <<"addConnect", d>>)' => Queued(l, <<"addConnect", d>>)
    BY <2>4, QueuedAppend
  <2> QED BY <2>1, <2>2, <2>5, ScanKept
<1>5. ASSUME NEW c \in Clients, Destruct(c) PROVE ScanInv'
  <2>1. /\ conn' = [conn EXCEPT ![c] = "none"] /\ loop_' = [loop_ EXCEPT ![c] = 0]
        /\ UNCHANGED <<mpc, scanVars, pendingFunctors_>>
    BY <1>5 DEF Destruct, mainVars, loopVars
  <2>2. \A d \in Clients : Open(d)' => Open(d) /\ loop_'[d] = loop_[d]
    BY <2>1 DEF Open, TypeOK
  <2> QED BY <2>1, <2>2, ScanKept DEF Queued
<1>6. ASSUME NEW l \in Loops, NEW c \in Clients,
             AddConnect(l, c) \/ ConnectEstablished(l, c) \/ ConnectDestroyed(l, c)
      PROVE  ScanInv'
  <2>1. PICK kind : RunFunctor(l, kind, c)
    BY <1>6 DEF AddConnect, ConnectEstablished, ConnectDestroyed
  <2>2. UNCHANGED <<mpc, scanVars, loop_>>
    BY <2>1 DEF RunFunctor, mainVars
  <2>3. \A m \in Loops, d \in Clients :
          Queued(m, <<"addConnect", d>>)' => Queued(m, <<"addConnect", d>>)
    BY <2>1, QueuedRun
  <2>4. \A d \in Clients : Open(d)' => Open(d)
    <3>1. CASE AddConnect(l, c)
      BY <3>1 DEF AddConnect, Open
    <3>2. CASE ConnectEstablished(l, c)
      <4>1. conn[c] = "kConnecting"
        BY <3>2, LastFunctor DEF ConnectEstablished
      <4> QED BY <3>2, <4>1 DEF ConnectEstablished, Open, TypeOK
    <3>3. CASE ConnectDestroyed(l, c)
      BY <3>3 DEF ConnectDestroyed, Open, TypeOK
    <3> QED BY <1>6, <3>1, <3>2, <3>3
  <2> QED BY <2>2, <2>3, <2>4, ScanKept
<1>7. CASE ClientConnects
  <2>1. PICK c \in Clients : conn' = [conn EXCEPT ![c] = "backlog"]
    BY <1>7 DEF ClientConnects
  <2>2. UNCHANGED <<mpc, scanVars, loop_, pendingFunctors_>>
    BY <1>7 DEF ClientConnects, loopVars
  <2>3. \A d \in Clients : Open(d)' => Open(d)
    BY <2>1 DEF Open, TypeOK
  <2> QED BY <2>2, <2>3, ScanKept DEF Queued
<1>8. ASSUME UNCHANGED vars \/ \E l \in Loops : OpenUrl(l) \/ CallbackStep(l) PROVE ScanInv'
  <2>1. UNCHANGED <<mainVars, scanVars, connVars, loopVars>>
    BY <1>8, CallbackFrame DEF vars
  <2>2. UNCHANGED <<mpc, scanVars, loop_, conn, pendingFunctors_>>
    BY <2>1 DEF mainVars, connVars, loopVars
  <2>3. \A d \in Clients : Open(d)' => Open(d)
    BY <2>2 DEF Open
  <2> QED BY <2>2, <2>3, ScanKept DEF Queued
<1>9. ASSUME \/ Listen \/ EnableReading \/ HandleRead \/ NewConnection \/ QueueEstablished
             \/ AcceptNone \/ AcceptFull \/ CloseIdle \/ AcceptIdle \/ CloseAccepted \/ OpenIdle
      PROVE  mpc' # "scan"
  BY <1>9 DEF Listen, EnableReading, HandleRead, NewConnection, QueueEstablished, AcceptNone,
     AcceptFull, CloseIdle, AcceptIdle, CloseAccepted, OpenIdle
<1> QED
  BY <1>1, <1>2, <1>3, <1>4, <1>5, <1>6, <1>7, <1>8, <1>9 DEF Next, MainStep, LoopStep

\* The invariant holds at the start.
LEMMA ServerInit == Init => ServerInv
<1> SUFFICES ASSUME Init PROVE ServerInv
  OBVIOUS
<1>1. /\ backlog = << >> /\ mpc = "start" /\ newConn = 0
      /\ \A c \in Clients : conn[c] = "none" /\ loop_[c] = 0
      /\ \A l \in Loops : pendingFunctors_[l] = << >> /\ connectSet_[l] = {}
  BY DEF Init
<1>2. NoMissedClient /\ ConnectSets /\ FunctorsInOrder /\ ArrivalOrder /\ ScanInv
  BY <1>1 DEF NoMissedClient, ConnectSets, Open, FunctorsInOrder, ArrivalOrder, ScanInv
<1> QED BY <1>2, TypeInit DEF ServerInv

\* For any number of sub loops, clients and descriptors: no client is forgotten in
\* the listen queue, the functors of a connection run once, in order and in the
\* state they assert, connectSet_ holds open connections of its own loop only, and
\* what min_element has read bounds the loads although they change meanwhile.
THEOREM ServerInvariant == Spec => []ServerInv
<1>1. ServerInv /\ [Next]_vars => ServerInv'
  BY TypeStep, EdgeStep, FunctorStep, ArrivalStep, ConnectSetStep, ScanStep DEF ServerInv
<1> QED BY <1>1, ServerInit, PTL DEF Spec

\* The loop that getNextLoop chooses has no more open connections than any loop had
\* when the client was accepted, but for those that were on their way then, with any
\* number of loops and however its reads fall between their steps.
THEOREM LeastLoadedAlways == Spec => []LeastLoaded
<1>1. ServerInv => LeastLoaded
  <2> SUFFICES ASSUME TypeOK, ScanInv, mpc = "scan", next > numThreads_, NEW l \in Loops
               PROVE  Load(best) <= loadAt[l] + OnWay(Loops)
    BY DEF ServerInv, LeastLoaded
  <2>1. 1..(next - 1) = Loops
    BY ServerAssumption DEF TypeOK, Loops
  <2> QED BY <2>1 DEF ScanInv
<1> QED BY <1>1, ServerInvariant, PTL

-----------------------------------------------------------------------------
\* The descriptor table one descriptor at a time: a connection that is alive owns the
\* one its socket will close, and nobody else's; the rest as in Descriptors.
HasFile(l) == cpc[l] \in {"opened", "send"}

OwnFile(l) ==
  HasFile(l) => /\ fd_[l] # 0 /\ owner[fd_[l]] = File
                /\ \A k \in Loops : k # l /\ HasFile(k) => fd_[k] # fd_[l]

Table ==
  /\ \A f \in Fds, c \in Clients : owner[f] = c <=> Alive(c) /\ f = sockfd_[c]
  /\ \A c \in Clients : Alive(c) => sockfd_[c] \in Fds
  /\ \A f \in Fds : owner[f] = Idle => f = idleFd_ /\ mpc \notin {"acceptIdle", "openIdle"}
  /\ mpc \notin {"acceptIdle", "openIdle"} /\ idleFd_ # 0 => owner[idleFd_] = Idle
  /\ \A l \in Loops : OwnFile(l)

\* That is what Descriptors says, until a second close has hit.
LEMMA TableDescriptors == (~stolen => Table) => Descriptors
<1> SUFFICES ASSUME Table PROVE Descriptors
  BY DEF Descriptors
<1>1. ASSUME NEW c \in Clients
      PROVE  {f \in Fds : owner[f] = c} = IF Alive(c) THEN {sockfd_[c]} ELSE {}
  <2>1. CASE Alive(c)
    <3>1. {f \in Fds : owner[f] = c} = {sockfd_[c]}
      BY <2>1 DEF Table
    <3> QED BY <2>1, <3>1
  <2>2. CASE ~Alive(c)
    <3>1. {f \in Fds : owner[f] = c} = {}
      BY <2>2 DEF Table
    <3> QED BY <2>2, <3>1
  <2> QED BY <2>1, <2>2
<1>2. \A l \in Loops : cpc[l] \in {"opened", "send"} =>
        /\ fd_[l] # 0 /\ owner[fd_[l]] = File
        /\ \A k \in Loops : k # l /\ cpc[k] \in {"opened", "send"} => fd_[k] # fd_[l]
  BY DEF Table, OwnFile, HasFile
<1>3. /\ \A f \in Fds : owner[f] = Idle => f = idleFd_ /\ mpc \notin {"acceptIdle", "openIdle"}
      /\ mpc \notin {"acceptIdle", "openIdle"} /\ idleFd_ # 0 => owner[idleFd_] = Idle
  BY DEF Table
<1> QED BY <1>1, <1>2, <1>3 DEF Descriptors

\* Clients are told apart from the other owners of a descriptor.
LEMMA Owners ==
  /\ Idle \notin Clients /\ File \notin Clients /\ Free \notin Clients
  /\ Idle # File /\ Idle # Free /\ File # Free /\ 0 \notin Fds
BY ServerAssumption DEF Idle, File, Free, Clients, Fds

\* Opening takes the lowest free descriptor and touches no other.
LEMMA OpenedFacts ==
  ASSUME TypeOK, FreeFds # {}, NEW o, owner' = Opened(o)
  PROVE  \E f \in Fds : /\ f = Min(FreeFds) /\ owner[f] = Free /\ owner'[f] = o
                        /\ \A g \in Fds : g # f => owner'[g] = owner[g]
<1>1. Min(FreeFds) \in Fds /\ owner[Min(FreeFds)] = Free
  BY MinFree DEF FreeFds
<1> QED BY <1>1 DEF Opened, TypeOK

\* At the start the listening socket's spare is the only descriptor.
LEMMA TableInit == Init => Table
<1> SUFFICES ASSUME Init PROVE Table
  OBVIOUS
<1>1. \A f \in Fds : owner[f] = IF f = 1 THEN Idle ELSE Free
  BY DEF Init
<1>2. 1 \in Fds
  BY ServerAssumption DEF Fds
<1>3. \A l \in Loops : OwnFile(l)
  BY DEF Init, OwnFile, HasFile
<1> QED BY <1>1, <1>2, <1>3, Owners DEF Init, Table, Alive

\* Files are where they were.
LEMMA FilesSame ==
  ASSUME UNCHANGED <<cpc, fd_>>, \A l \in Loops : OwnFile(l),
         \A l \in Loops : HasFile(l) => owner'[fd_[l]] = owner[fd_[l]]
  PROVE  \A l \in Loops : OwnFile(l)'
BY DEF OwnFile, HasFile

\* A step that leaves the table, idleFd_ and who is alive as they are.
LEMMA TableSame ==
  ASSUME Table, UNCHANGED <<owner, idleFd_, cpc, fd_>>,
         \A c \in Clients : (Alive(c)' <=> Alive(c)) /\ (Alive(c) => sockfd_'[c] = sockfd_[c]),
         mpc' \in {"acceptIdle", "openIdle"} <=> mpc \in {"acceptIdle", "openIdle"}
  PROVE  Table'
<1>1. \A l \in Loops : OwnFile(l)'
  BY FilesSame DEF Table
<1> QED BY <1>1 DEF Table

\* A message callback opens a file, closes its own, or forgets it.
LEMMA TableCallback ==
  ASSUME TypeOK, Table, ~stolen', NEW l \in Loops, OpenUrl(l) \/ CallbackStep(l)
  PROVE  Table'
<1>1. UNCHANGED <<mainVars, connVars>>
  BY CallbackFrame
<1>2. UNCHANGED <<mpc, idleFd_, sockfd_, conn>> /\ \A c : Alive(c)' <=> Alive(c)
  BY <1>1 DEF mainVars, connVars, Alive
<1>3. \A k \in Loops : k # l => (HasFile(k)' <=> HasFile(k)) /\ fd_'[k] = fd_[k]
  BY DEF OpenUrl, CallbackStep, xopen, NotRegular, Open404, SentWhole, NotSent, SentPart,
     CloseAgain, Callback, HasFile, TypeOK
\* Nobody but a callback has lost or got its descriptor.
<1>4. ASSUME \A f \in Fds, c \in Clients : owner'[f] = c <=> owner[f] = c,
             \A f \in Fds : owner'[f] = Idle <=> owner[f] = Idle,
             \A k \in Loops : OwnFile(k)'
      PROVE  Table'
  <2>1. idleFd_ # 0 => idleFd_ \in Fds
    BY DEF TypeOK
  <2> QED BY <1>2, <1>4, <2>1 DEF Table
<1>5. ASSUME FreeFds # {}, owner' = Opened(File), fd_'[l] = Min(FreeFds) PROVE Table'
  <2>1. PICK f \in Fds : /\ f = Min(FreeFds) /\ owner[f] = Free /\ owner'[f] = File
                         /\ \A g \in Fds : g # f => owner'[g] = owner[g]
    BY <1>5, OpenedFacts
  <2>2. \A k \in Loops : k # l /\ HasFile(k) => fd_[k] \in Fds /\ fd_[k] # f /\ owner[fd_[k]] = File
    BY <2>1, Owners DEF Table, OwnFile, TypeOK
  <2>3. \A k \in Loops : OwnFile(k)'
    <3>1. fd_'[l] = f /\ f # 0 /\ owner'[f] = File
      BY <1>5, <2>1, Owners
    <3>2. ASSUME NEW k \in Loops, k # l, HasFile(k)
          PROVE  /\ fd_'[k] # 0 /\ owner'[fd_'[k]] = File /\ fd_'[k] # f
                 /\ \A m \in Loops : m # k /\ m # l /\ HasFile(m) => fd_'[m] # fd_'[k]
      BY <1>3, <2>1, <2>2, <3>2, Owners DEF Table, OwnFile
    <3> QED BY <1>3, <3>1, <3>2 DEF OwnFile
  <2> QED BY <1>4, <2>1, <2>3, Owners
<1>6. ASSUME UNCHANGED owner, ~HasFile(l)' PROVE Table'
  <2>1. \A k \in Loops : OwnFile(k)'
    BY <1>3, <1>6 DEF Table, OwnFile
  <2> QED BY <1>4, <1>6, <2>1
<1>7. ASSUME HasFile(l), owner' = Closed(fd_[l]), ~HasFile(l)' PROVE Table'
  <2>1. PICK f \in Fds : f = fd_[l] /\ owner[f] = File
    BY <1>7 DEF Table, OwnFile, TypeOK
  <2>2. owner'[f] = Free /\ \A g \in Fds : g # f => owner'[g] = owner[g]
    BY <1>7, <2>1, Owners DEF Closed, TypeOK
  <2>3. ASSUME NEW k \in Loops, k # l, HasFile(k)
        PROVE  /\ fd_[k] \in Fds /\ fd_[k] # f /\ owner[fd_[k]] = File
               /\ \A m \in Loops : m # k /\ HasFile(m) => fd_[m] # fd_[k]
    BY <1>7, <2>1, <2>3 DEF Table, OwnFile, TypeOK
  <2>4. \A k \in Loops : OwnFile(k)'
    BY <1>3, <1>7, <2>2, <2>3, Owners DEF OwnFile
  <2> QED BY <1>4, <2>1, <2>2, <2>4, Owners
<1>8. CASE OpenUrl(l) \/ Open404(l)
  <2>1. \/ FreeFds # {} /\ owner' = Opened(File) /\ fd_' = [fd_ EXCEPT ![l] = Min(FreeFds)]
        \/ UNCHANGED owner /\ cpc' = [cpc EXCEPT ![l] = "notFound"]
        \/ UNCHANGED owner /\ cpc' = [cpc EXCEPT ![l] = "idle"]
    BY <1>8 DEF OpenUrl, Open404, xopen, Callback
  <2> QED BY <1>5, <1>6, <2>1 DEF TypeOK, HasFile
<1>9. CASE NotRegular(l) \/ NotSent(l)
  BY <1>6, <1>9 DEF NotRegular, NotSent, Callback, HasFile, TypeOK
<1>10. CASE SentWhole(l) \/ SentPart(l)
  BY <1>7, <1>10 DEF SentWhole, SentPart, Callback, HasFile, TypeOK
\* The second close hits a free number, or stolen is set.
<1>11. CASE CloseAgain(l)
  <2>1. owner[fd_[l]] = Free /\ owner' = Closed(fd_[l]) /\ ~HasFile(l)'
    BY <1>11 DEF CloseAgain, Callback, HasFile, TypeOK
  <2>2. owner' = owner
    BY <2>1 DEF Closed, TypeOK
  <2> QED BY <1>6, <2>1, <2>2
<1> QED BY <1>8, <1>9, <1>10, <1>11 DEF CallbackStep

\* accept4, open and close keep every number with one owner.
LEMMA TableStep ==
  ASSUME TypeOK, FunctorsInOrder, ArrivalOrder, Table, ~stolen', [Next]_vars
  PROVE  Table'
<1>1. CASE Listen \/ EnableReading \/ HandleRead \/ AcceptNone \/ AcceptFull
  <2>1. UNCHANGED <<owner, idleFd_, cpc, fd_, conn, sockfd_>>
    BY <1>1 DEF Listen, EnableReading, HandleRead, AcceptNone, AcceptFull, connVars, fileVars
  <2>2. mpc \notin {"acceptIdle", "openIdle"} /\ mpc' \notin {"acceptIdle", "openIdle"}
    BY <1>1 DEF Listen, EnableReading, HandleRead, AcceptNone, AcceptFull
  <2> QED BY <2>1, <2>2, TableSame DEF Alive
<1>2. CASE QueueEstablished \/ Compare \/ \E l \in Loops : ReadSize(l)
  <2>1. UNCHANGED <<owner, idleFd_, cpc, fd_, conn, sockfd_>>
    BY <1>2 DEF QueueEstablished, Compare, ReadSize, connVars, fileVars, mainVars
  <2>2. mpc \notin {"acceptIdle", "openIdle"} /\ mpc' \notin {"acceptIdle", "openIdle"}
    BY <1>2 DEF QueueEstablished, Compare, ReadSize, mainVars
  <2> QED BY <2>1, <2>2, TableSame DEF Alive
<1>3. CASE NewConnection
  <2>1. /\ newConn \in Clients /\ conn[newConn] = "accepted"
        /\ conn' = [conn EXCEPT ![newConn] = "kConnecting"]
        /\ UNCHANGED <<owner, idleFd_, cpc, fd_, sockfd_>>
    BY <1>3 DEF NewConnection, ArrivalOrder, TypeOK, fileVars
  <2>2. mpc \notin {"acceptIdle", "openIdle"} /\ mpc' \notin {"acceptIdle", "openIdle"}
    BY <1>3 DEF NewConnection
  <2>3. \A d \in Clients : Alive(d)' <=> Alive(d)
    BY <2>1 DEF Alive, TypeOK
  <2> QED BY <2>1, <2>2, <2>3, TableSame
<1>4. CASE ClientConnects
  <2>1. PICK c \in Clients : conn[c] = "none" /\ conn' = [conn EXCEPT ![c] = "backlog"]
    BY <1>4 DEF ClientConnects
  <2>2. UNCHANGED <<owner, idleFd_, cpc, fd_, sockfd_, mpc>>
    BY <1>4 DEF ClientConnects, fileVars
  <2>3. \A d \in Clients : Alive(d)' <=> Alive(d)
    BY <2>1 DEF Alive, TypeOK
  <2> QED BY <2>2, <2>3, TableSame
<1>5. CASE Accept
  <2>1. PICK c : c = Head(backlog)
    OBVIOUS
  <2>2. c \in Clients /\ conn[c] = "backlog"
    BY <1>5, <2>1, HeadOfQueue DEF Accept
  <2>3. /\ FreeFds # {} /\ owner' = Opened(c) /\ conn' = [conn EXCEPT ![c] = "accepted"]
        /\ sockfd_' = [sockfd_ EXCEPT ![c] = Min(FreeFds)]
        /\ mpc = "accept" /\ mpc' = "scan" /\ UNCHANGED <<idleFd_, cpc, fd_>>
    BY <1>5, <2>1 DEF Accept, fileVars
  <2>4. PICK f \in Fds : /\ f = Min(FreeFds) /\ owner[f] = Free /\ owner'[f] = c
                         /\ \A g \in Fds : g # f => owner'[g] = owner[g]
    BY <2>3, OpenedFacts
  <2>5. /\ Alive(c)' /\ ~Alive(c) /\ sockfd_'[c] = f
        /\ \A d \in Clients : d # c => (Alive(d)' <=> Alive(d)) /\ sockfd_'[d] = sockfd_[d]
    BY <2>2, <2>3, <2>4 DEF Alive, TypeOK
  <2>6. idleFd_ # 0 => idleFd_ # f /\ idleFd_ \in Fds
    BY <2>3, <2>4, Owners DEF Table, TypeOK
  <2>7. \A l \in Loops : HasFile(l) => fd_[l] \in Fds /\ fd_[l] # f
    BY <2>4, Owners DEF Table, OwnFile, TypeOK
  <2>8. \A l \in Loops : OwnFile(l)'
    BY <2>3, <2>4, <2>7, FilesSame DEF Table
  <2> QED BY <2>2, <2>3, <2>4, <2>5, <2>6, <2>8, Owners DEF Table
<1>6. CASE CloseIdle \/ CloseAccepted
  <2>1. /\ owner' = Closed(idleFd_) /\ UNCHANGED <<idleFd_, conn, sockfd_, cpc, fd_>>
        /\ mpc \notin {"acceptIdle", "openIdle"} /\ mpc' \in {"acceptIdle", "openIdle"}
    BY <1>6 DEF CloseIdle, CloseAccepted, connVars, fileVars
  <2>2. \A c \in Clients : Alive(c)' <=> Alive(c)
    BY <2>1 DEF Alive
  <2>3. CASE idleFd_ = 0
    <3>1. owner' = owner
      BY <2>1, <2>3 DEF Closed
    <3>2. \A l \in Loops : OwnFile(l)'
      BY <2>1, <3>1, FilesSame DEF Table
    <3>3. \A f \in Fds : owner[f] # Idle
      BY <2>3, Owners DEF Table
    <3> QED BY <2>1, <2>2, <3>1, <3>2, <3>3 DEF Table
  <2>4. CASE idleFd_ # 0
    <3>1. /\ idleFd_ \in Fds /\ owner[idleFd_] = Idle /\ owner'[idleFd_] = Free
          /\ \A g \in Fds : g # idleFd_ => owner'[g] = owner[g]
      BY <2>1, <2>4 DEF Table, Closed, TypeOK
    <3>2. \A l \in Loops : HasFile(l) => fd_[l] \in Fds /\ fd_[l] # idleFd_
      BY <3>1, Owners DEF Table, OwnFile, TypeOK
    <3>3. \A l \in Loops : OwnFile(l)'
      BY <2>1, <3>1, <3>2, FilesSame DEF Table
    <3> QED BY <2>1, <2>2, <3>1, <3>3, Owners DEF Table
  <2> QED BY <2>3, <2>4
\* Between its close and its next open idleFd_ has no descriptor.
<1>7. ASSUME mpc \in {"acceptIdle", "openIdle"}, mpc' \notin {"acceptIdle", "openIdle"},
             \A c \in Clients : Alive(c)' <=> Alive(c), UNCHANGED <<sockfd_, cpc, fd_>>,
             \/ FreeFds # {} /\ owner' = Opened(Idle) /\ idleFd_' = Min(FreeFds)
             \/ UNCHANGED owner /\ idleFd_' = 0
      PROVE  Table'
  <2>1. \A g \in Fds : owner[g] # Idle
    BY <1>7 DEF Table
  <2>2. CASE FreeFds # {} /\ owner' = Opened(Idle) /\ idleFd_' = Min(FreeFds)
    <3>1. PICK f \in Fds : /\ f = Min(FreeFds) /\ owner[f] = Free /\ owner'[f] = Idle
                           /\ \A g \in Fds : g # f => owner'[g] = owner[g]
      BY <2>2, OpenedFacts
    <3>2. \A l \in Loops : HasFile(l) => fd_[l] \in Fds /\ fd_[l] # f
      BY <3>1, Owners DEF Table, OwnFile, TypeOK
    <3>3. \A l \in Loops : OwnFile(l)'
      BY <1>7, <3>1, <3>2, FilesSame DEF Table
    <3> QED BY <1>7, <2>1, <2>2, <3>1, <3>3, Owners DEF Table
  <2>3. CASE UNCHANGED owner /\ idleFd_' = 0
    <3>1. \A l \in Loops : OwnFile(l)'
      BY <1>7, <2>3, FilesSame DEF Table
    <3> QED BY <1>7, <2>1, <2>3, <3>1 DEF Table
  <2> QED BY <1>7, <2>2, <2>3
<1>8. CASE AcceptIdle
  <2>1. mpc = "acceptIdle" /\ mpc' = "closeAccepted" /\ UNCHANGED <<sockfd_, cpc, fd_>>
    BY <1>8 DEF AcceptIdle, fileVars
  <2>2. CASE FreeFds # {} /\ backlog # << >>
    <3>1. PICK c : c = Head(backlog)
      OBVIOUS
    <3>2. /\ owner' = Opened(Idle) /\ idleFd_' = Min(FreeFds)
          /\ conn' = [conn EXCEPT ![c] = "none"] /\ backlog' = Tail(backlog)
      BY <1>8, <2>2, <3>1 DEF AcceptIdle
    <3>3. c \in Clients /\ conn[c] = "backlog"
      BY <2>2, <3>1, <3>2, HeadOfQueue
    <3>4. \A d \in Clients : Alive(d)' <=> Alive(d)
      BY <3>2, <3>3 DEF Alive, TypeOK
    <3> QED BY <1>7, <2>1, <2>2, <3>2, <3>4
  <2>3. CASE FreeFds = {} \/ backlog = << >>
    <3>1. idleFd_' = 0 /\ UNCHANGED <<owner, conn>>
      BY <1>8, <2>3 DEF AcceptIdle
    <3>2. \A d \in Clients : Alive(d)' <=> Alive(d)
      BY <3>1 DEF Alive
    <3> QED BY <1>7, <2>1, <3>1, <3>2
  <2> QED BY <2>2, <2>3
<1>9. CASE OpenIdle
  <2>1. /\ mpc = "openIdle" /\ mpc' = "accept" /\ UNCHANGED <<conn, sockfd_, cpc, fd_>>
        /\ \/ FreeFds # {} /\ owner' = Opened(Idle) /\ idleFd_' = Min(FreeFds)
           \/ UNCHANGED owner /\ idleFd_' = 0
    BY <1>9 DEF OpenIdle, connVars, fileVars
  <2>2. \A d \in Clients : Alive(d)' <=> Alive(d)
    BY <2>1 DEF Alive
  <2> QED BY <1>7, <2>1, <2>2
<1>10. ASSUME NEW l \in Loops, NEW c \in Clients,
              AddConnect(l, c) \/ ConnectEstablished(l, c) \/ ConnectDestroyed(l, c)
       PROVE  Table'
  <2>1. UNCHANGED <<owner, idleFd_, mpc, sockfd_, cpc, fd_>>
    BY <1>10 DEF AddConnect, ConnectEstablished, ConnectDestroyed, RunFunctor, mainVars, fileVars
  <2>2. \A d \in Clients : Alive(d)' <=> Alive(d)
    <3>1. CASE AddConnect(l, c)
      BY <3>1 DEF AddConnect, Alive
    <3>2. CASE ConnectEstablished(l, c)
      <4>1. conn[c] = "kConnecting"
        BY <3>2, LastFunctor DEF ConnectEstablished
      <4> QED BY <3>2, <4>1 DEF ConnectEstablished, Alive, TypeOK
    <3>3. CASE ConnectDestroyed(l, c)
      <4>1. conn[c] = "kDisconnected"
        BY <3>3, LastFunctor DEF ConnectDestroyed
      <4> QED BY <3>3, <4>1 DEF ConnectDestroyed, Alive, TypeOK
    <3> QED BY <1>10, <3>1, <3>2, <3>3
  <2> QED BY <2>1, <2>2, TableSame
<1>11. ASSUME NEW c \in Clients, HandleClose(c) PROVE Table'
  <2>1. /\ conn[c] = "kConnected" /\ conn' = [conn EXCEPT ![c] = "kDisconnected"]
        /\ UNCHANGED <<owner, idleFd_, mpc, sockfd_, cpc, fd_>>
    BY <1>11 DEF HandleClose, mainVars, fileVars
  <2>2. \A d \in Clients : Alive(d)' <=> Alive(d)
    BY <2>1 DEF Alive, TypeOK
  <2> QED BY <2>1, <2>2, TableSame
<1>12. ASSUME NEW c \in Clients, Destruct(c) PROVE Table'
  <2>1. /\ conn[c] = "destroyed" /\ conn' = [conn EXCEPT ![c] = "none"]
        /\ owner' = Closed(sockfd_[c]) /\ sockfd_' = [sockfd_ EXCEPT ![c] = 0]
        /\ UNCHANGED <<idleFd_, mpc, cpc, fd_>>
    BY <1>12 DEF Destruct, mainVars, fileVars
  <2>2. PICK f \in Fds : f = sockfd_[c] /\ owner[f] = c
    BY <2>1 DEF Table, Alive
  <2>3. owner'[f] = Free /\ \A g \in Fds : g # f => owner'[g] = owner[g]
    BY <2>1, <2>2, Owners DEF Closed, TypeOK
  <2>4. /\ ~Alive(c)'
        /\ \A d \in Clients : d # c => (Alive(d)' <=> Alive(d)) /\ sockfd_'[d] = sockfd_[d]
    BY <2>1 DEF Alive, TypeOK
  <2>5. \A g \in Fds : owner[g] = c => g = f
    BY <2>2 DEF Table
  <2>6. mpc \notin {"acceptIdle", "openIdle"} /\ idleFd_ # 0 => idleFd_ # f /\ idleFd_ \in Fds
    BY <2>2, Owners DEF Table, TypeOK
  <2>7. \A l \in Loops : HasFile(l) => fd_[l] \in Fds /\ fd_[l] # f
    BY <2>2, Owners DEF Table, OwnFile, TypeOK
  <2>8. \A l \in Loops : OwnFile(l)'
    BY <2>1, <2>3, <2>7, FilesSame DEF Table
  <2> QED BY <2>1, <2>2, <2>3, <2>4, <2>5, <2>6, <2>8, Owners DEF Table
<1>13. CASE \E l \in Loops : OpenUrl(l) \/ CallbackStep(l)
  BY <1>13, TableCallback
<1>14. CASE UNCHANGED vars
  BY <1>14, TableSame DEF vars, mainVars, connVars, fileVars, Alive
<1> QED
  BY <1>1, <1>2, <1>3, <1>4, <1>5, <1>6, <1>8, <1>9, <1>10, <1>11, <1>12, <1>13, <1>14
  DEF Next, MainStep, LoopStep

\* What the second close has hit stays hit.
LEMMA StolenStays == [Next]_vars /\ stolen => stolen'
<1> SUFFICES ASSUME [Next]_vars, stolen PROVE stolen'
  OBVIOUS
<1>1. CASE MainStep
  BY <1>1 DEF MainStep, Listen, EnableReading, HandleRead, Accept, ReadSize, Compare,
     NewConnection, QueueEstablished, AcceptNone, AcceptFull, CloseIdle, AcceptIdle,
     CloseAccepted, OpenIdle, fileVars
<1>2. CASE ClientConnects \/ UNCHANGED vars
  BY <1>2 DEF ClientConnects, vars, fileVars
<1>3. ASSUME NEW l \in Loops, LoopStep(l) PROVE stolen'
  BY <1>3, FunctorFrame DEF fileVars
<1>4. ASSUME NEW l \in Loops, OpenUrl(l) \/ CallbackStep(l) PROVE stolen'
  BY <1>4 DEF OpenUrl, CallbackStep, xopen, NotRegular, Open404, SentWhole, NotSent, SentPart,
     CloseAgain
<1>5. ASSUME NEW c \in Clients, HandleClose(c) \/ Destruct(c) PROVE stolen'
  BY <1>5 DEF HandleClose, Destruct, fileVars
<1> QED BY <1>1, <1>2, <1>3, <1>4, <1>5 DEF Next

\* Until the second close of a cut file hits a descriptor in use, none of a connection,
\* of the acceptor or of an open file is leaked or closed for somebody else, with any
\* number of sub loops opening, closing and forgetting files between the system calls
\* of handleRead.
THEOREM DescriptorsKept == Spec => []Descriptors
<1> DEFINE Kept == ~stolen => Table
<1>1. Init => Kept
  BY TableInit
<1>2. ServerInv /\ Kept /\ [Next]_vars => Kept'
  BY TableStep, StolenStays DEF ServerInv
<1>3. Kept => Descriptors
  BY TableDescriptors
<1> HIDE DEF Kept
<1> QED BY <1>1, <1>2, <1>3, ServerInvariant, PTL DEF Spec

-----------------------------------------------------------------------------
(***************************************************************************)
(* HttpParser: a request that is complete is parsed in the same way        *)
(* whatever has arrived behind it.  Extends(text, big) says that big is    *)
(* text with more behind it.                                               *)
(***************************************************************************)
Extends(text, big) ==
  /\ Len(text) \in Nat /\ Len(big) \in Nat /\ Len(text) <= Len(big)
  /\ \A i \in 1..Len(text) : big[i] = text[i]

\* A least element is the least element.
LEMMA MinUnique ==
  ASSUME NEW S, S \subseteq Nat, NEW x \in S, \A y \in S : x <= y
  PROVE  Min(S) = x
<1>1. Min(S) \in S /\ \A y \in S : Min(S) <= y
  BY MinProperty
<1>2. Min(S) \in Nat /\ x \in Nat /\ x <= Min(S) /\ Min(S) <= x
  BY <1>1
<1> QED
  BY <1>2

\* What a search finds.
LEMMA PositionFacts ==
  ASSUME NEW text, NEW c, NEW from \in Nat \ {0}, NEW to \in Nat
  PROVE  /\ Position(text, c, from, to) \in Nat
         /\ Position(text, c, from, to) # 0 =>
              /\ Position(text, c, from, to) \in from..to
              /\ text[Position(text, c, from, to)] = c
              /\ \A i \in from..to : text[i] = c => Position(text, c, from, to) <= i
         /\ Position(text, c, from, to) = 0 => \A i \in from..to : text[i] # c
<1> DEFINE I == {i \in from..to : text[i] = c}
<1>1. Position(text, c, from, to) = IF I # {} THEN Min(I) ELSE 0
  BY DEF Position, SelectInSubSeq
<1>2. I \subseteq Nat
  OBVIOUS
<1>3. CASE I # {}
  <2>1. Min(I) \in I /\ \A y \in I : Min(I) <= y
    BY <1>2, <1>3, MinProperty
  <2>2. Min(I) \in from..to /\ text[Min(I)] = c /\ Min(I) \in Nat /\ Min(I) # 0
    BY <2>1
  <2> QED
    BY <1>1, <1>3, <2>1, <2>2
<1>4. CASE I = {}
  BY <1>1, <1>4
<1> QED
  BY <1>3, <1>4

\* A search inside the old text finds the same.
LEMMA PositionExtends ==
  ASSUME NEW text, NEW big, Extends(text, big),
         NEW c, NEW from \in Nat \ {0}, NEW to \in Nat, to <= Len(text)
  PROVE  Position(big, c, from, to) = Position(text, c, from, to)
<1>1. {i \in from..to : text[i] = c} = {i \in from..to : big[i] = c}
  BY DEF Extends
<1> QED
  BY <1>1 DEF Position, SelectInSubSeq

\* The CRs of the old text at which the parser of the request line stops.
LEMMA SeenExtends ==
  ASSUME NEW text, NEW big, Extends(text, big), NEW i \in 1..Len(text)
  PROVE  i \in CRsSeen(big) <=> i \in CRsSeen(text)
<1> DEFINE CRs(t) == {k \in 1..Len(t) : t[k] = CR}
           Run(t, run) == /\ run <= i /\ (i - run) % 2 = 0
                          /\ run..i \subseteq CRs(t) /\ run - 1 \notin CRs(t)
<1>1. \A t : CRsSeen(t) = {k \in CRs(t) : \E run \in CRs(t) :
                             /\ run <= k /\ (k - run) % 2 = 0
                             /\ run..k \subseteq CRs(t) /\ run - 1 \notin CRs(t)}
  BY Zenon DEF CRsSeen
<1>2. \A t : i \in CRsSeen(t) <=> i \in CRs(t) /\ \E run \in CRs(t) : Run(t, run)
  BY <1>1, Zenon
<1>3. \A k \in 1..Len(text) : k \in CRs(big) <=> k \in CRs(text)
  BY DEF Extends
<1>4. i \in Nat /\ Len(text) \in Nat /\ i <= Len(text)
  BY DEF Extends
<1>5. \A t : CRs(t) \subseteq 1..Len(t)
  OBVIOUS
<1>6. Len(big) \in Nat
  BY DEF Extends
<1> HIDE DEF CRs
<1>7. ASSUME NEW run \in 1..Len(text), run <= i PROVE Run(big, run) <=> Run(text, run)
  <2>1. \A k \in run..i : k \in 1..Len(text)
    BY <1>4, <1>7
  <2>2. run..i \subseteq CRs(big) <=> run..i \subseteq CRs(text)
    BY <1>3, <2>1
  <2>3. run - 1 \in CRs(big) <=> run - 1 \in CRs(text)
    <3>1. CASE run = 1
      <4>1. 0 \notin 1..Len(big) /\ 0 \notin 1..Len(text)
        BY <1>4, <1>6
      <4> QED
        BY <1>5, <3>1, <4>1
    <3>2. CASE run # 1
      BY <1>3, <1>4, <3>2
    <3> QED
      BY <3>1, <3>2
  <2> QED
    BY <2>2, <2>3, Zenon DEF Run
<1>8. \A run \in CRs(text) \cup CRs(big) : run <= i => run \in 1..Len(text)
  BY <1>4, <1>5, <1>6
<1>9. \A t, run : Run(t, run) => run <= i
  BY Zenon DEF Run
<1> HIDE DEF Run
<1>10. (\E run \in CRs(big) : Run(big, run)) => (\E run \in CRs(text) : Run(text, run))
  BY <1>3, <1>7, <1>8, <1>9, Zenon
<1>11. (\E run \in CRs(text) : Run(text, run)) => (\E run \in CRs(big) : Run(big, run))
  BY <1>3, <1>7, <1>8, <1>9, Zenon
<1> QED
  BY <1>2, <1>3, <1>10, <1>11, Zenon

\* A CR with its LF in the old text ends the request line whatever comes behind it.
LEMMA LineCRExtends ==
  ASSUME NEW text, NEW big, Extends(text, big),
         LineCRs(text) # {}, Min(LineCRs(text)) # Len(text)
  PROVE  /\ LineCRs(big) # {} /\ Min(LineCRs(big)) = Min(LineCRs(text))
         /\ Min(LineCRs(text)) \in 1..(Len(text) - 1)
<1>1. \A t : CRsSeen(t) \subseteq 1..Len(t)
  BY DEF CRsSeen
<1>2. \A t : LineCRs(t) \subseteq Nat /\ LineCRs(t) \subseteq 1..Len(t)
  BY <1>1 DEF LineCRs
<1>3. PICK cr : cr = Min(LineCRs(text))
  OBVIOUS
<1>4. cr \in LineCRs(text) /\ \A y \in LineCRs(text) : cr <= y
  BY <1>2, <1>3, MinProperty, Zenon
<1>5. Len(text) \in Nat /\ Len(big) \in Nat /\ Len(text) <= Len(big)
  BY DEF Extends
<1>6. cr \in 1..(Len(text) - 1) /\ cr \in CRsSeen(text) /\ text[cr + 1] = LF
  BY <1>2, <1>3, <1>4, <1>5 DEF LineCRs
<1>7. cr \in LineCRs(big)
  <2>1. cr \in CRsSeen(big)
    BY <1>5, <1>6, SeenExtends
  <2>2. cr + 1 \in 1..Len(text)
    BY <1>5, <1>6
  <2>3. big[cr + 1] = LF
    BY <1>6, <2>2 DEF Extends
  <2> QED
    BY <2>1, <2>3 DEF LineCRs
<1>8. ASSUME NEW y \in LineCRs(big) PROVE cr <= y
  <2>1. y \in 1..Len(big)
    BY <1>2
  <2>2. CASE y >= Len(text)
    BY <1>5, <1>6, <2>1, <2>2
  <2>3. CASE y < Len(text)
    <3>1. y \in CRsSeen(big) /\ big[y + 1] = LF
      BY <1>5, <2>1, <2>3 DEF LineCRs
    <3>2. y \in CRsSeen(text)
      BY <1>5, <2>1, <2>3, <3>1, SeenExtends
    <3>3. y + 1 \in 1..Len(text)
      BY <1>5, <2>1, <2>3
    <3>4. text[y + 1] = LF
      BY <3>1, <3>3 DEF Extends
    <3> QED
      BY <1>4, <3>2, <3>4 DEF LineCRs
  <2> QED
    BY <1>5, <2>1, <2>2, <2>3
<1>9. Min(LineCRs(big)) = cr
  BY <1>2, <1>7, <1>8, MinUnique, Zenon
<1> QED
  BY <1>3, <1>6, <1>7, <1>9, Zenon

\* A piece of the old text.
LEMMA SubSeqExtends ==
  ASSUME NEW S, NEW text \in Seq(S), NEW big \in Seq(S), Extends(text, big)
  PROVE  \A m \in Nat \ {0}, n \in Int :
           n <= Len(text) => SubSeq(big, m, n) = SubSeq(text, m, n)
<1> SUFFICES ASSUME NEW m \in Nat \ {0}, NEW n \in Int, n <= Len(text)
             PROVE  SubSeq(big, m, n) = SubSeq(text, m, n)
  OBVIOUS
<1>1. CASE n < m
  BY <1>1
<1>2. CASE m <= n
  <2>1. /\ SubSeq(text, m, n) \in Seq(S) /\ Len(SubSeq(text, m, n)) = n - m + 1
        /\ \A i \in 1..(n - m + 1) : SubSeq(text, m, n)[i] = text[m + i - 1]
    <3>1. \A i \in m..n : text[i] \in S
      BY <1>2
    <3> QED BY <1>2, <3>1, SubSeqProperties
  <2>2. /\ SubSeq(big, m, n) \in Seq(S) /\ Len(SubSeq(big, m, n)) = n - m + 1
        /\ \A i \in 1..(n - m + 1) : SubSeq(big, m, n)[i] = big[m + i - 1]
    <3>1. \A i \in m..n : big[i] \in S
      BY <1>2 DEF Extends
    <3> QED BY <1>2, <3>1, SubSeqProperties
  <2>3. \A i \in 1..(n - m + 1) : m + i - 1 \in 1..Len(text)
    BY <1>2
  <2>4. \A i \in 1..(n - m + 1) : SubSeq(big, m, n)[i] = SubSeq(text, m, n)[i]
    BY <2>1, <2>2, <2>3 DEF Extends
  <2>5. PICK a \in Seq(S), b \in Seq(S) : a = SubSeq(text, m, n) /\ b = SubSeq(big, m, n)
    BY <2>1, <2>2
  <2>6. Len(a) = Len(b) /\ \A i \in 1..Len(a) : a[i] = b[i]
    BY <2>1, <2>2, <2>4, <2>5
  <2>7. a = b
    BY ONLY <2>6, a \in Seq(S), b \in Seq(S), SMTT(30)
  <2> QED
    BY <2>5, <2>7
<1> QED
  BY <1>1, <1>2

\* The request line of a text that goes on behind it.
LEMMA LineExtends ==
  ASSUME NEW S, NEW text \in Seq(S), NEW big \in Seq(S), Extends(text, big),
         NEW beyond \in BOOLEAN, NEW beyond2 \in BOOLEAN,
         requestLineParse(text, beyond).state = "LineOk_",
         requestLineParse(text, beyond).l_end # Len(text)
  PROVE  /\ requestLineParse(big, beyond2) = requestLineParse(text, beyond)
         /\ requestLineParse(text, beyond).l_end \in 1..(Len(text) - 1)
<1> DEFINE cr     == IF LineCRs(text) = {} THEN 0 ELSE Min(LineCRs(text))
           l_end  == IF cr = 0 THEN Len(text) ELSE cr + 1
           method == SubSeq(text, 1, Min({2, l_end}))
           space  == Position(text, SP, 4, l_end)
           Ok     == [state |-> "LineOk_", method |-> method,
                      url |-> SubSeq(text, 4, space - 1), l_end |-> l_end]
           cr2     == IF LineCRs(big) = {} THEN 0 ELSE Min(LineCRs(big))
           l_end2  == IF cr2 = 0 THEN Len(big) ELSE cr2 + 1
           method2 == SubSeq(big, 1, Min({2, l_end2}))
           space2  == Position(big, SP, 4, l_end2)
           Ok2     == [state |-> "LineOk_", method |-> method2,
                       url |-> SubSeq(big, 4, space2 - 1), l_end |-> l_end2]
<1>1. requestLineParse(text, beyond)
        = IF cr # 0 /\ cr = Len(text) THEN LineIncomplete
          ELSE IF method \notin {GET, POST} THEN LineBad
          ELSE IF l_end = 2 \/ text[3] # SP \/ space \in {0, l_end} THEN LineIncomplete
          ELSE IF \A v \in {HTTP_1_1, HTTP_1_0} : ~VersionAt(text, space, v, beyond) THEN LineBad
          ELSE Ok
  BY Zenon DEF requestLineParse
<1>2. requestLineParse(big, beyond2)
        = IF cr2 # 0 /\ cr2 = Len(big) THEN LineIncomplete
          ELSE IF method2 \notin {GET, POST} THEN LineBad
          ELSE IF l_end2 = 2 \/ big[3] # SP \/ space2 \in {0, l_end2} THEN LineIncomplete
          ELSE IF \A v \in {HTTP_1_1, HTTP_1_0} : ~VersionAt(big, space2, v, beyond2) THEN LineBad
          ELSE Ok2
  BY Zenon DEF requestLineParse
<1> HIDE DEF cr, l_end, method, space, Ok, cr2, l_end2, method2, space2, Ok2
<1>3. LineIncomplete.state # "LineOk_" /\ LineBad.state # "LineOk_"
  BY DEF LineIncomplete, LineBad
<1>4. /\ ~(cr # 0 /\ cr = Len(text)) /\ method \in {GET, POST}
      /\ ~(l_end = 2 \/ text[3] # SP \/ space \in {0, l_end})
      /\ ~(\A v \in {HTTP_1_1, HTTP_1_0} : ~VersionAt(text, space, v, beyond))
      /\ requestLineParse(text, beyond) = Ok
  BY <1>1, <1>3, Zenon
<1>5. Ok.l_end = l_end /\ l_end # Len(text)
  <2>1. Ok.l_end = l_end
    BY DEF Ok
  <2> QED
    BY <1>4, <2>1
<1>6. /\ cr # 0 /\ cr \in Nat /\ cr < Len(text) /\ l_end = cr + 1
      /\ l_end \in Nat /\ l_end < Len(text) /\ l_end >= 2
  <2>1. cr # 0 /\ l_end = cr + 1
    BY <1>5 DEF l_end
  <2>2. Len(text) \in Nat
    BY DEF Extends
  <2>3. LineCRs(text) # {} /\ cr = Min(LineCRs(text)) /\ cr # Len(text)
    BY <1>4, <2>1 DEF cr
  <2>4. cr \in 1..(Len(text) - 1)
    BY <2>3, LineCRExtends, Zenon
  <2> QED
    BY <1>5, <2>1, <2>2, <2>4
<1>7. cr2 = cr /\ l_end2 = l_end
  <2>1. LineCRs(text) # {} /\ cr = Min(LineCRs(text)) /\ cr # Len(text)
    BY <1>4, <1>6 DEF cr
  <2>2. LineCRs(big) # {} /\ Min(LineCRs(big)) = cr
    BY <2>1, LineCRExtends, Zenon
  <2>3. cr2 = cr
    BY <2>2, Zenon DEF cr2
  <2> QED
    BY <1>6, <2>3 DEF l_end2
<1>8. l_end >= 3
  BY <1>4, <1>6
<1>9. Len(text) \in Nat /\ Len(big) \in Nat /\ Len(text) <= Len(big)
  BY DEF Extends
<1>10. method2 = method
  <2>1. Min({2, l_end}) = 2
    <3>1. PICK T : T = {2, l_end}
      OBVIOUS
    <3>2. T \subseteq Nat /\ 2 \in T /\ \A y \in T : 2 <= y
      BY <1>6, <3>1
    <3>3. Min(T) = 2
      BY <3>2, MinUnique
    <3> QED
      BY <3>1, <3>3, Zenon
  <2>2. SubSeq(big, 1, 2) = SubSeq(text, 1, 2)
    BY <1>6, <1>8, <1>9, SubSeqExtends
  <2> QED
    BY <1>7, <2>1, <2>2 DEF method, method2
<1>11. big[3] = text[3]
  BY <1>6, <1>8, <1>9 DEF Extends
<1>12. space2 = space /\ space \in 4..(l_end - 1)
  <2>1. space2 = space
    BY <1>6, <1>7, <1>9, PositionExtends DEF space, space2
  <2>2. space \in 4..l_end
    BY <1>4, <1>6, PositionFacts DEF space
  <2> QED
    BY <1>4, <1>6, <2>1, <2>2
<1>13. \A v \in {HTTP_1_1, HTTP_1_0} :
         VersionAt(big, space, v, beyond2) <=> VersionAt(text, space, v, beyond)
  <2> SUFFICES ASSUME NEW v \in {HTTP_1_1, HTTP_1_0}
               PROVE  VersionAt(big, space, v, beyond2) <=> VersionAt(text, space, v, beyond)
    OBVIOUS
  <2>1. Len(v) = 2
    BY DEF HTTP_1_1, HTTP_1_0
  <2>2. \A i \in 1..2 : /\ space + i <= Len(text) /\ space + i <= Len(big)
                        /\ big[space + i] = text[space + i]
    BY <1>6, <1>9, <1>12 DEF Extends
  <2> QED
    BY <2>1, <2>2 DEF VersionAt
<1>14. SubSeq(big, 4, space - 1) = SubSeq(text, 4, space - 1)
  BY <1>6, <1>9, <1>12, SubSeqExtends
<1>15. Ok2 = Ok
  BY <1>7, <1>10, <1>12, <1>14 DEF Ok, Ok2
<1>16. cr2 # Len(big)
  BY <1>6, <1>7, <1>9
<1>17. requestLineParse(big, beyond2) = Ok2
  BY <1>2, <1>4, <1>7, <1>10, <1>11, <1>12, <1>13, <1>16, Zenon
<1> QED
  BY <1>4, <1>5, <1>6, <1>15, <1>17

\* The header lines of the old text, and what is known of each.
LEMMA LineEndsExtends ==
  ASSUME NEW text, NEW big, Extends(text, big), NEW from \in Nat
  PROVE  /\ LineEnds(text, from) = {i \in LineEnds(big, from) : i < Len(text)}
         /\ LineEnds(text, from) \subseteq (from + 1)..(Len(text) - 1)
         /\ LineEnds(text, from) \subseteq Nat /\ LineEnds(big, from) \subseteq Nat
BY DEF LineEnds, Extends

\* A largest element of a set with an upper bound.
LEMMA MaxProperty ==
  ASSUME NEW S, NEW n \in Nat, S \subseteq 0..n, S # {}
  PROVE  Max(S) \in S
<1> DEFINE T == {n - x : x \in S}
<1>1. T \subseteq Nat /\ T # {}
  <2>1. ASSUME NEW x \in S PROVE n - x \in Nat
    <3>1. x \in 0..n
      OBVIOUS
    <3> QED
      BY <3>1
  <2>2. T \subseteq Nat
    BY <2>1, Zenon
  <2> QED
    BY <2>2, Zenon
<1>2. Min(T) \in T /\ \A y \in T : Min(T) <= y
  BY <1>1, MinProperty
<1>3. PICK x \in S : Min(T) = n - x
  BY <1>2
<1>4. ASSUME NEW y \in S PROVE x >= y
  <2>1. n - y \in T
    OBVIOUS
  <2>2. n - x <= n - y
    BY <1>2, <1>3, <2>1
  <2> QED
    BY <2>2
<1> QED
  BY <1>4 DEF Max

\* Where a header line begins.
LEMMA BeginFacts ==
  ASSUME NEW text, NEW big, Extends(text, big), NEW from \in Nat,
         NEW cr \in LineEnds(text, from)
  PROVE  /\ Begin(big, from, cr) = Begin(text, from, cr)
         /\ Begin(text, from, cr) \in Nat \ {0}
         /\ cr \in Nat /\ cr < Len(text) /\ cr > from /\ Len(text) \in Nat
<1>1. /\ cr \in (from + 1)..(Len(text) - 1) /\ Len(text) \in Nat
      /\ cr \in Nat /\ cr < Len(text) /\ cr > from
  BY LineEndsExtends DEF Extends
<1> DEFINE before == {i \in LineEnds(text, from) : i < cr}
<1>2. before = {i \in LineEnds(big, from) : i < cr}
  <2>1. \A i \in LineEnds(big, from) : i < cr => i < Len(text)
    BY <1>1, LineEndsExtends
  <2> QED
    BY <2>1, LineEndsExtends
<1>3. /\ Begin(text, from, cr) = IF before = {} THEN from + 1 ELSE Max(before) + 2
      /\ Begin(big, from, cr) = IF before = {} THEN from + 1 ELSE Max(before) + 2
  BY <1>2, Zenon DEF Begin
<1>4. before # {} => Max(before) \in Nat
  <2>1. before \subseteq 0..cr
    BY <1>1, LineEndsExtends
  <2>2. PICK B : B = before
    OBVIOUS
  <2>3. B # {} => Max(B) \in B
    BY <1>1, <2>1, <2>2, MaxProperty
  <2> QED
    BY <1>1, <2>1, <2>2, <2>3
<1> HIDE DEF before
<1> QED
  BY <1>1, <1>3, <1>4

\* The first space of the header line that ends at cr.
Space(text, from, cr) == Position(text, SP, Begin(text, from, cr), cr)

\* Whether a header line is blank or has no space, and its key and value.
LEMMA HeaderLineExtends ==
  ASSUME NEW S, NEW text \in Seq(S), NEW big \in Seq(S), Extends(text, big),
         NEW from \in Nat, NEW cr \in LineEnds(text, from)
  PROVE  /\ Blank(big, from, cr) = Blank(text, from, cr)
         /\ Spaceless(big, from, cr) = Spaceless(text, from, cr)
         /\ Space(big, from, cr) = Space(text, from, cr)
         /\ SubSeq(big, Begin(big, from, cr), Space(big, from, cr) - 2)
              = SubSeq(text, Begin(text, from, cr), Space(text, from, cr) - 2)
         /\ SubSeq(big, Space(big, from, cr) + 1, cr - 1)
              = SubSeq(text, Space(text, from, cr) + 1, cr - 1)
<1>0. \A m \in Nat \ {0}, n \in Int :
        n <= Len(text) => SubSeq(big, m, n) = SubSeq(text, m, n)
  BY SubSeqExtends, ZenonT(60)
<1> DEFINE b  == Begin(text, from, cr)
           sp == Space(text, from, cr)
<1>1. /\ Begin(big, from, cr) = b /\ b \in Nat \ {0}
      /\ cr \in Nat /\ cr < Len(text) /\ Len(text) \in Nat
  BY BeginFacts
<1>2. Space(big, from, cr) = sp /\ sp \in Nat /\ (sp = 0 \/ sp <= cr)
  <2>1. Space(big, from, cr) = sp
    BY <1>1, PositionExtends DEF Space
  <2>2. sp \in Nat /\ (sp # 0 => sp \in b..cr)
    BY <1>1, PositionFacts DEF Space
  <2> QED
    BY <1>1, <2>1, <2>2
<1> HIDE DEF b, sp
<1>3. /\ sp - 2 \in Int /\ sp - 2 <= Len(text) /\ sp + 1 \in Nat \ {0}
      /\ cr - 1 \in Int /\ cr - 1 <= Len(text)
  BY <1>1, <1>2
<1>4. SubSeq(big, b, sp - 2) = SubSeq(text, b, sp - 2)
  <2>1. PICK m \in Nat \ {0}, n \in Int : m = b /\ n = sp - 2 /\ n <= Len(text)
    BY <1>1, <1>3
  <2>2. SubSeq(big, m, n) = SubSeq(text, m, n)
    BY <1>0, <2>1, Zenon
  <2> QED
    BY <2>1, <2>2, Zenon
<1>5. SubSeq(big, sp + 1, cr - 1) = SubSeq(text, sp + 1, cr - 1)
  <2>1. PICK m \in Nat \ {0}, n \in Int : m = sp + 1 /\ n = cr - 1 /\ n <= Len(text)
    BY <1>1, <1>3
  <2>2. SubSeq(big, m, n) = SubSeq(text, m, n)
    BY <1>0, <2>1, Zenon
  <2> QED
    BY <2>1, <2>2, Zenon
<1>6. Blank(big, from, cr) = Blank(text, from, cr)
  BY <1>1, Zenon DEF Blank, b
<1>7. Spaceless(big, from, cr) = Spaceless(text, from, cr)
  BY <1>2, Zenon DEF Spaceless, Space, sp
<1> QED
  BY <1>1, <1>2, <1>4, <1>5, <1>6, <1>7, Zenon DEF b, sp

\* The value of a header key, looked up in lines of the old text.
LEMMA ValueExtends ==
  ASSUME NEW S, NEW text \in Seq(S), NEW big \in Seq(S), Extends(text, big),
         NEW from \in Nat, NEW ends, ends \subseteq LineEnds(text, from), NEW k
  PROVE  getValue(big, from, ends, k) = getValue(text, from, ends, k)
<1> DEFINE has(t) == {cr \in ends :
                        SubSeq(t, Begin(t, from, cr), Space(t, from, cr) - 2) = k}
<1>1. \A t : getValue(t, from, ends, k)
               = IF has(t) = {} THEN << >>
                 ELSE SubSeq(t, Space(t, from, Min(has(t))) + 1, Min(has(t)) - 1)
  BY Zenon DEF getValue, Space
<1>2. ASSUME NEW cr \in ends
      PROVE  /\ SubSeq(big, Begin(big, from, cr), Space(big, from, cr) - 2)
                  = SubSeq(text, Begin(text, from, cr), Space(text, from, cr) - 2)
             /\ SubSeq(big, Space(big, from, cr) + 1, cr - 1)
                  = SubSeq(text, Space(text, from, cr) + 1, cr - 1)
  <2>1. cr \in LineEnds(text, from)
    OBVIOUS
  <2> QED
    BY <2>1, HeaderLineExtends, Zenon
<1>3. has(big) = has(text)
  BY <1>2, Zenon
<1>4. has(text) # {} => Min(has(text)) \in ends
  <2>1. PICK h : h = has(text)
    OBVIOUS
  <2>2. h \subseteq Nat /\ h \subseteq ends
    BY <2>1, LineEndsExtends
  <2>3. h # {} => Min(h) \in h
    BY <2>2, MinProperty
  <2> QED
    BY <2>1, <2>2, <2>3, Zenon
<1> HIDE DEF has
<1>5. PICK m : m = Min(has(text))
  OBVIOUS
<1>6. has(text) # {} => SubSeq(big, Space(big, from, m) + 1, m - 1)
                         = SubSeq(text, Space(text, from, m) + 1, m - 1)
  BY <1>2, <1>4, <1>5, Zenon
<1> QED
  BY <1>1, <1>3, <1>5, <1>6, Zenon

\* The header, once its blank line is there.
LEMMA HeadExtends ==
  ASSUME NEW S, NEW text \in Seq(S), NEW big \in Seq(S), Extends(text, big),
         NEW from \in Nat, requestHeadParse(text, from).state = "LineOk_"
  PROVE  /\ requestHeadParse(big, from) = requestHeadParse(text, from)
         /\ requestHeadParse(text, from).l_end \in (from + 2)..Len(text)
<1>0. \A ends : ends \subseteq LineEnds(text, from) =>
        \A k : getValue(big, from, ends, k) = getValue(text, from, ends, k)
  BY ValueExtends
<1> DEFINE stops(t) == {cr \in LineEnds(t, from) :
                          Bare(t, cr) \/ Blank(t, from, cr) \/ Spaceless(t, from, cr)}
           lines(t) == {cr \in LineEnds(t, from) : cr < Min(stops(t))}
           Ok(t)    == [state |-> "LineOk_", l_end |-> Min(stops(t)) + 1,
                        length |-> getValue(t, from, lines(t), <<"Content-Length">>),
                        connection |-> getValue(t, from, lines(t), <<"Connection">>)]
<1>1. \A t : requestHeadParse(t, from)
               = IF \/ stops(t) = {}
                    \/ Bare(t, Min(stops(t))) /\ Min(stops(t)) + 1 = Len(t) THEN LineIncomplete
                 ELSE IF Bare(t, Min(stops(t))) THEN [state |-> "Loops"]
                 ELSE IF ~Blank(t, from, Min(stops(t))) THEN LineBad
                 ELSE Ok(t)
  BY Zenon DEF requestHeadParse
<1>2. /\ LineEnds(text, from) = {i \in LineEnds(big, from) : i < Len(text)}
      /\ LineEnds(text, from) \subseteq (from + 1)..(Len(text) - 1)
      /\ LineEnds(text, from) \subseteq Nat /\ LineEnds(big, from) \subseteq Nat
  BY LineEndsExtends, Zenon
<1>3. \A cr \in LineEnds(text, from) : /\ Blank(big, from, cr) = Blank(text, from, cr)
                                       /\ Spaceless(big, from, cr) = Spaceless(text, from, cr)
                                       /\ Bare(big, cr) = Bare(text, cr)
  <2>1. ASSUME NEW cr \in LineEnds(text, from) PROVE Bare(big, cr) = Bare(text, cr)
    <3>1. cr \in (from + 1)..(Len(text) - 1) /\ Len(text) \in Nat
      BY <1>2 DEF Extends
    <3>2. cr + 1 \in 1..Len(text)
      BY <3>1
    <3>3. big[cr + 1] = text[cr + 1]
      BY <3>2 DEF Extends
    <3> QED
      BY <3>3, Zenon DEF Bare
  <2> QED
    BY <2>1, HeaderLineExtends, Zenon
<1>4. stops(text) = {cr \in stops(big) : cr < Len(text)}
  BY <1>2, <1>3, Zenon
<1>5. stops(text) \subseteq LineEnds(text, from) /\ stops(big) \subseteq LineEnds(big, from)
  OBVIOUS
<1>6. Ok(text).l_end = Min(stops(text)) + 1
  OBVIOUS
<1>7. \A t : /\ \A cr \in lines(t) : cr \in LineEnds(t, from) /\ cr < Min(stops(t))
             /\ \A cr \in LineEnds(t, from) : cr < Min(stops(t)) => cr \in lines(t)
             /\ lines(t) \subseteq LineEnds(t, from)
  OBVIOUS
<1>8. lines(text) = lines(big) /\ Min(stops(text)) = Min(stops(big)) =>
        \/ Ok(big) = Ok(text)
        \/ \E k : getValue(big, from, lines(text), k) # getValue(text, from, lines(text), k)
  BY Zenon
<1> HIDE DEF stops, lines, Ok
<1>9. /\ LineIncomplete.state # "LineOk_" /\ LineBad.state # "LineOk_"
      /\ [state |-> "Loops"].state # "LineOk_"
  BY DEF LineIncomplete, LineBad
<1>10. /\ stops(text) # {} /\ Blank(text, from, Min(stops(text)))
       /\ ~Bare(text, Min(stops(text)))
       /\ requestHeadParse(text, from) = Ok(text)
  BY <1>1, <1>9, Zenon
<1>11. PICK stop : stop = Min(stops(text))
  OBVIOUS
<1>12. stop \in stops(text) /\ \A y \in stops(text) : stop <= y
  <2>1. stops(text) \subseteq Nat
    BY <1>2, <1>5, Zenon
  <2> QED
    BY <1>10, <1>11, <2>1, MinProperty, Zenon
<1>13. Len(text) \in Nat
  BY DEF Extends
<1>14. stop \in (from + 1)..(Len(text) - 1) /\ stop \in Nat
  BY <1>2, <1>5, <1>12, Zenon
<1>15. Min(stops(big)) = stop
  <2>1. stops(big) \subseteq Nat
    BY <1>2, <1>5, Zenon
  <2>2. stop \in stops(big)
    BY <1>4, <1>12, Zenon
  <2>3. ASSUME NEW y \in stops(big) PROVE stop <= y
    <3>1. CASE y < Len(text)
      BY <1>4, <1>12, <3>1
    <3>2. CASE ~(y < Len(text))
      BY <1>13, <1>14, <2>1, <3>2
    <3> QED
      BY <3>1, <3>2
  <2> QED
    BY <2>1, <2>2, <2>3, MinUnique, Zenon
<1>16. lines(big) = lines(text)
  <2>1. \A cr \in LineEnds(big, from) : cr < stop => cr < Len(text)
    BY <1>2, <1>13, <1>14
  <2>2. \A cr \in lines(big) : cr \in lines(text)
    BY <1>2, <1>7, <1>11, <1>15, <2>1, Zenon
  <2>3. \A cr \in lines(text) : cr \in lines(big)
    BY <1>2, <1>7, <1>11, <1>15, Zenon
  <2> QED
    BY <2>2, <2>3, Zenon
<1>17. \A k : getValue(big, from, lines(text), k) = getValue(text, from, lines(text), k)
  BY <1>0, <1>7, Zenon
<1>18. Ok(big) = Ok(text)
  BY <1>8, <1>11, <1>15, <1>16, <1>17, Zenon
<1>19. Blank(big, from, stop) /\ ~Bare(big, stop)
  BY <1>3, <1>5, <1>10, <1>11, <1>12, Zenon
<1>20. stops(big) # {}
  BY <1>4, <1>12, Zenon
<1>21. requestHeadParse(big, from) = Ok(big)
  BY <1>1, <1>15, <1>19, <1>20, Zenon
<1>22. Ok(text).l_end \in (from + 2)..Len(text)
  BY <1>6, <1>11, <1>13, <1>14
<1> QED
  BY <1>10, <1>18, <1>21, <1>22, Zenon

\* The results of the request line and of the header.
LEMMA LineStates ==
  ASSUME NEW text, NEW beyond, NEW from
  PROVE  /\ requestLineParse(text, beyond).state \in {"LineIncomplete_", "LineBad_", "LineOk_"}
         /\ requestHeadParse(text, from).state
              \in {"LineIncomplete_", "Loops", "LineBad_", "LineOk_"}
BY DEF requestLineParse, requestHeadParse, LineIncomplete, LineBad

\* The body, once all of it is there.
LEMMA BodyExtends ==
  ASSUME NEW S, NEW text \in Seq(S), NEW big \in Seq(S), Extends(text, big),
         NEW line, NEW head, head.l_end \in 1..Len(text),
         BodyResult(text, line, head).state = "Success_"
  PROVE  /\ BodyResult(big, line, head) = BodyResult(text, line, head)
         /\ BodyResult(text, line, head).parseSize_ \in 1..Len(text)
<1>0. \A m \in Nat \ {0}, n \in Int :
        n <= Len(text) => SubSeq(big, m, n) = SubSeq(text, m, n)
  BY SubSeqExtends, ZenonT(60)
<1> DEFINE from == head.l_end
           len  == stoi(head.length)
           body(t) == requestBodyParse(t, from, len)
<1>1. \A t : BodyResult(t, line, head)
               = IF from = Len(t) THEN Incomplete
                 ELSE IF head.length = << >> THEN Failed
                 ELSE IF ~IsNumber(head.length) THEN [state |-> "Throws"]
                 ELSE IF len = 0 THEN [state |-> "Loops"]
                 ELSE IF body(t).state = "LineOk_" THEN Success(line, head, body(t).body, body(t).l_end)
                 ELSE Incomplete
  BY Zenon DEF BodyResult
<1>2. \A t : body(t) = IF from + len > Len(t) THEN LineIncomplete
                       ELSE [state |-> "LineOk_", body |-> SubSeq(t, from + 1, from + len),
                             l_end |-> from + len]
  BY Zenon DEF requestBodyParse
<1>3. IsNumber(head.length) => len \in 0..9
  BY Zenon DEF IsNumber, stoi
<1> HIDE DEF from, len, body
<1>4. /\ Incomplete.state # "Success_" /\ Failed.state # "Success_"
      /\ [state |-> "Throws"].state # "Success_" /\ [state |-> "Loops"].state # "Success_"
  BY DEF Incomplete, Failed
<1>5. /\ from # Len(text) /\ head.length # << >> /\ IsNumber(head.length) /\ len # 0
      /\ body(text).state = "LineOk_"
      /\ BodyResult(text, line, head) = Success(line, head, body(text).body, body(text).l_end)
  BY <1>1, <1>4, Zenon
<1>6. LineIncomplete.state # "LineOk_"
  BY DEF LineIncomplete
<1>7. ~(from + len > Len(text))
  BY <1>2, <1>5, <1>6, Zenon
<1>8. from \in 1..Len(text) /\ Len(text) \in Nat /\ Len(big) \in Nat /\ Len(text) <= Len(big)
  BY DEF from, Extends
<1>9. len \in 0..9
  BY <1>3, <1>5
<1>10. /\ from # Len(big) /\ ~(from + len > Len(big)) /\ from + len \in 1..Len(text)
       /\ from + 1 \in Nat \ {0} /\ from + len \in Int /\ from + len <= Len(text)
  BY <1>5, <1>7, <1>8, <1>9
<1>11. SubSeq(big, from + 1, from + len) = SubSeq(text, from + 1, from + len)
  BY <1>0, <1>10, Zenon
<1>12. body(big) = body(text)
  BY <1>2, <1>7, <1>10, <1>11, Zenon
<1>13. BodyResult(big, line, head) = BodyResult(text, line, head)
  BY <1>1, <1>5, <1>10, <1>12, Zenon
<1>14. body(text).l_end = from + len
  BY <1>2, <1>7
<1>15. Success(line, head, body(text).body, body(text).l_end).parseSize_ = from + len
  BY <1>14 DEF Success
<1> QED
  BY <1>5, <1>10, <1>13, <1>15, Zenon

(***************************************************************************)
(* A request that is complete is parsed in the same way whatever has       *)
(* arrived behind it and whatever old bytes of the buffer lie behind the   *)
(* text, which strncmp may read; and httpServer, which retrieves           *)
(* parseSize_ bytes, never takes more than had arrived when it succeeded.  *)
(* So how the bytes behind a complete request are cut into reads cannot    *)
(* change what is taken for that request.                                  *)
(***************************************************************************)
THEOREM ParseStable ==
  ASSUME NEW S, NEW text \in Seq(S), NEW big \in Seq(S), Extends(text, big),
         NEW beyond \in BOOLEAN, NEW beyond2 \in BOOLEAN,
         parse(text, beyond).state = "Success_"
  PROVE  /\ parse(big, beyond2) = parse(text, beyond)
         /\ parse(text, beyond).parseSize_ \in 1..Len(text)
<1> DEFINE line == requestLineParse(text, beyond)
           head == requestHeadParse(text, line.l_end)
<1>1. parse(text, beyond)
        = IF text = << >> \/ line.state = "LineIncomplete_" THEN Incomplete
          ELSE IF line.state = "LineBad_" THEN Failed
          ELSE HeadResult(text, line)
  BY Zenon DEF parse
<1>2. parse(big, beyond2)
        = IF big = << >> \/ requestLineParse(big, beyond2).state = "LineIncomplete_" THEN Incomplete
          ELSE IF requestLineParse(big, beyond2).state = "LineBad_" THEN Failed
          ELSE HeadResult(big, requestLineParse(big, beyond2))
  BY Zenon DEF parse
<1>3. HeadResult(text, line)
        = IF line.l_end = Len(text) \/ head.state = "LineIncomplete_" THEN Incomplete
          ELSE IF head.state = "Loops" THEN [state |-> "Loops"]
          ELSE IF head.state = "LineBad_" THEN Failed
          ELSE IF line.method = GET THEN Success(line, head, << >>, head.l_end)
          ELSE BodyResult(text, line, head)
  BY Zenon DEF HeadResult
<1>4. HeadResult(big, line)
        = IF \/ line.l_end = Len(big)
             \/ requestHeadParse(big, line.l_end).state = "LineIncomplete_" THEN Incomplete
          ELSE IF requestHeadParse(big, line.l_end).state = "Loops" THEN [state |-> "Loops"]
          ELSE IF requestHeadParse(big, line.l_end).state = "LineBad_" THEN Failed
          ELSE IF line.method = GET
               THEN Success(line, requestHeadParse(big, line.l_end), << >>,
                            requestHeadParse(big, line.l_end).l_end)
          ELSE BodyResult(big, line, requestHeadParse(big, line.l_end))
  BY Zenon DEF HeadResult
<1>5. /\ line.state \in {"LineIncomplete_", "LineBad_", "LineOk_"}
      /\ head.state \in {"LineIncomplete_", "Loops", "LineBad_", "LineOk_"}
  BY LineStates, Zenon
<1>6. /\ Incomplete.state # "Success_" /\ Failed.state # "Success_"
      /\ [state |-> "Loops"].state # "Success_"
  BY DEF Incomplete, Failed
<1>7. /\ text # << >> /\ line.state = "LineOk_" /\ line.l_end # Len(text)
      /\ head.state = "LineOk_"
      /\ parse(text, beyond) = HeadResult(text, line)
      /\ HeadResult(text, line) = IF line.method = GET
                                  THEN Success(line, head, << >>, head.l_end)
                                  ELSE BodyResult(text, line, head)
  BY <1>1, <1>3, <1>5, <1>6, Zenon
<1>8. requestLineParse(big, beyond2) = line /\ line.l_end \in 1..(Len(text) - 1)
  BY <1>7, LineExtends, ZenonT(40)
<1> HIDE DEF line
<1>9. /\ Len(text) \in Nat /\ Len(big) \in Nat /\ Len(text) <= Len(big)
      /\ line.l_end \in Nat /\ line.l_end # Len(big)
  BY <1>8 DEF Extends
<1>10. /\ requestHeadParse(big, line.l_end) = head
       /\ head.l_end \in (line.l_end + 2)..Len(text)
  BY <1>7, <1>9, HeadExtends, Zenon
<1> HIDE DEF head
<1>11. head.l_end \in 1..Len(text)
  BY <1>9, <1>10
<1>12. big # << >>
  <2>1. Len(text) # 0
    BY <1>7
  <2> QED
    BY <1>9, <2>1
<1>13. parse(big, beyond2) = IF line.method = GET
                             THEN Success(line, head, << >>, head.l_end)
                             ELSE BodyResult(big, line, head)
  <2>1. line.state # "LineIncomplete_" /\ line.state # "LineBad_"
    BY <1>7
  <2>2. head.state # "LineIncomplete_" /\ head.state # "Loops" /\ head.state # "LineBad_"
    BY <1>7
  <2> QED
    BY <1>2, <1>4, <1>8, <1>9, <1>10, <1>12, <2>1, <2>2, Zenon
<1>14. CASE line.method = GET
  <2>1. Success(line, head, << >>, head.l_end).parseSize_ = head.l_end
    BY DEF Success
  <2> QED
    BY <1>7, <1>11, <1>13, <1>14, <2>1, Zenon
<1>15. CASE line.method # GET
  <2>1. BodyResult(text, line, head).state = "Success_"
    BY <1>7, <1>15, Zenon
  <2>2. /\ BodyResult(big, line, head) = BodyResult(text, line, head)
        /\ BodyResult(text, line, head).parseSize_ \in 1..Len(text)
    BY <1>11, <2>1, BodyExtends, Zenon
  <2> QED
    BY <1>7, <1>13, <1>15, <2>2, Zenon
<1> QED
  BY <1>14, <1>15
=============================================================================
