----------------------------- MODULE TcpServer ------------------------------
(***************************************************************************)
(* TcpServer (net/tcpServer.cpp) with its Acceptor (net/Acceptor.cpp) and  *)
(* its EventLoopThreadPool: the main thread accepts connections, spreads   *)
(* them over the sub loops, and refuses them when the process has run out  *)
(* of descriptors.                                                         *)
(*                                                                         *)
(* Every system call of Acceptor::handleRead is a step, because the sub    *)
(* loops open and close descriptors of the same table in between, and so   *)
(* is every size that getNextLoop reads.  A connection is reduced to its   *)
(* state_, its descriptor and its loop (TcpConnection has the rest), a sub *)
(* loop to its queue, its connectSet_ and the file its message callback    *)
(* has open.                                                               *)
(***************************************************************************)
EXTENDS Integers, Sequences, FiniteSets, FiniteSetsExt

CONSTANTS
  numThreads_,   \* sub loops
  FdLimit,       \* descriptors left for idleFd_, connections and files
  MaxClients     \* bound: clients at a time

ASSUME ServerAssumption ==
  numThreads_ \in Nat \ {0} /\ FdLimit \in Nat \ {0} /\ MaxClients \in Nat

Loops   == 1..numThreads_
Clients == 1..MaxClients
Fds     == 1..FdLimit

VARIABLES
  mpc,              \* where the main thread is
  backlog,          \* clients whose connections wait in the listen queue
  edge,             \* epoll has an edge of acceptSocket_ to report
  idleFd_,          \* 0 stands for -1
  newConn,          \* the client newConnection is at work for, or 0
  best, next, seen, \* min_element: its choice, where it is, the sizes it has read
  owner,            \* of every descriptor: 0 free, -1 idleFd_, -2 a file, or a client
  sockfd_,          \* the descriptor of every client's connection, or 0
  conn,             \* the state of every client's connection
  loop_,            \* the sub loop it was given to, or 0
  pendingFunctors_, \* of every sub loop
  connectSet_,      \* of every sub loop
  cpc, fd_,         \* the message callback a sub loop is in, and its file
  loadAt, queuedAt, \* history: loads, loops of the queued addConnects, at the accept
  stolen            \* history: a second close has hit a descriptor in use

mainVars == <<mpc, backlog, edge, idleFd_, newConn>>
history  == <<loadAt, queuedAt>>
scanVars == <<best, next, seen, history>>
connVars == <<sockfd_, conn, loop_>>
loopVars == <<pendingFunctors_, connectSet_>>
fileVars == <<cpc, fd_, stolen>>
vars == <<mainVars, scanVars, owner, connVars, loopVars, fileVars>>

Free    == 0
Idle    == -1
File    == -2
FreeFds == {f \in Fds : owner[f] = Free}
Unread  == -1

ConnStates == {"none", "backlog", "accepted", "kConnecting", "kConnected",
               "kDisconnected", "destroyed"}
Functors == {"addConnect", "connectEstablished", "connectDestroyed"} \X Clients

TypeOK ==
  /\ mpc \in {"start", "listen", "poll", "accept", "scan", "established", "closeIdle",
              "acceptIdle", "closeAccepted", "openIdle"}
  /\ backlog \in Seq(Clients) /\ edge \in BOOLEAN
  /\ idleFd_ \in Fds \cup {0} /\ newConn \in Clients \cup {0}
  /\ best \in Loops /\ next \in 2..(numThreads_ + 1)
  /\ seen \in [Loops -> Nat \cup {Unread}]
  /\ owner \in [Fds -> {Free, Idle, File} \cup Clients]
  /\ sockfd_ \in [Clients -> Fds \cup {0}]
  /\ conn \in [Clients -> ConnStates] /\ loop_ \in [Clients -> Loops \cup {0}]
  /\ pendingFunctors_ \in [Loops -> Seq(Functors)]
  /\ connectSet_ \in [Loops -> SUBSET Clients]
  /\ cpc \in [Loops -> {"idle", "opened", "notFound", "send", "again"}]
  /\ fd_ \in [Loops -> Fds \cup {0}]
  /\ loadAt \in [Loops -> Nat] /\ queuedAt \in [Clients -> Loops \cup {0}]
  /\ stolen \in BOOLEAN

NoneRead == [l \in Loops |-> Unread]

\* The Acceptor has opened idleFd_.
Init ==
  /\ mpc = "start" /\ newConn = 0
  /\ backlog = << >> /\ edge = FALSE
  /\ best = 1 /\ next = 2 /\ seen = NoneRead
  /\ loadAt = [l \in Loops |-> 0] /\ queuedAt = [c \in Clients |-> 0]
  /\ owner = [f \in Fds |-> IF f = 1 THEN Idle ELSE Free]
  /\ idleFd_ = 1 /\ sockfd_ = [c \in Clients |-> 0]
  /\ conn = [c \in Clients |-> "none"] /\ loop_ = [c \in Clients |-> 0]
  /\ pendingFunctors_ = [l \in Loops |-> << >>]
  /\ connectSet_ = [l \in Loops |-> {}]
  /\ cpc = [l \in Loops |-> "idle"] /\ fd_ = [l \in Loops |-> 0] /\ stolen = FALSE

-----------------------------------------------------------------------------
\* The kernel gives the lowest free descriptor, and closes a number whoever has it.
Opened(o)  == [owner EXCEPT ![Min(FreeFds)] = o]
Closed(fd) == IF fd = 0 THEN owner ELSE [owner EXCEPT ![fd] = Free]

\* Bound: once a second close has hit a descriptor in use, nothing more arrives from
\* the clients, and what is under way comes to its end.
Arrivals == ~stolen

\* TcpServer::start, Acceptor::listen: clients may connect as soon as the socket
\* listens; enableReading, which comes after it, looks at the queue at once.
Listen ==
  /\ mpc = "start" /\ mpc' = "listen"
  /\ UNCHANGED <<backlog, edge, idleFd_, newConn, scanVars, owner, connVars, loopVars, fileVars>>

EnableReading ==
  /\ mpc = "listen" /\ mpc' = "poll"
  /\ edge' = (backlog # << >>)
  /\ UNCHANGED <<backlog, idleFd_, newConn, scanVars, owner, connVars, loopVars, fileVars>>

\* Clients are alike: the first one that is not there connects.
ClientConnects ==
  /\ Arrivals /\ mpc # "start"
  /\ \E c \in Clients :
       /\ conn[c] = "none" /\ \A d \in Clients : d < c => conn[d] # "none"
       /\ conn' = [conn EXCEPT ![c] = "backlog"]
       /\ backlog' = Append(backlog, c)
  /\ edge' = (mpc # "listen")
  /\ UNCHANGED <<mpc, idleFd_, newConn, scanVars, owner, sockfd_, loop_, loopVars, fileVars>>

-----------------------------------------------------------------------------
(***************************************************************************)
(* Acceptor::handleRead.  accept4 reserves a descriptor before it looks at *)
(* the queue: with a full table it fails with EMFILE even if nobody waits. *)
(* EINTR and other errors only repeat the loop.                            *)
(***************************************************************************)
HandleRead ==
  /\ mpc = "poll" /\ edge
  /\ edge' = FALSE /\ mpc' = "accept"
  /\ UNCHANGED <<backlog, idleFd_, newConn, scanVars, owner, connVars, loopVars, fileVars>>

Queue(l, functor) ==
  pendingFunctors_' = [pendingFunctors_ EXCEPT ![l] = Append(@, functor)]

Queued(l, functor) ==
  \E i \in 1..Len(pendingFunctors_[l]) : pendingFunctors_[l][i] = functor

Open(c) == conn[c] \in {"kConnecting", "kConnected"}
Load(l) == Cardinality({c \in Clients : loop_[c] = l /\ Open(c)})

\* accept, as far as newConnection's call of getNextLoop.
Accept ==
  /\ mpc = "accept" /\ FreeFds # {} /\ backlog # << >>
  /\ mpc' = "scan" /\ newConn' = Head(backlog)
  /\ owner' = Opened(Head(backlog))
  /\ sockfd_' = [sockfd_ EXCEPT ![Head(backlog)] = Min(FreeFds)]
  /\ conn' = [conn EXCEPT ![Head(backlog)] = "accepted"]
  /\ backlog' = Tail(backlog)
  /\ best' = 1 /\ next' = 2 /\ seen' = NoneRead
  /\ loadAt' = [l \in Loops |-> Load(l)]
  /\ queuedAt' = [c \in Clients |->
                    IF \E l \in Loops : Queued(l, <<"addConnect", c>>) THEN loop_[c] ELSE 0]
  /\ UNCHANGED <<edge, idleFd_, loop_, loopVars, fileVars>>

(***************************************************************************)
(* getNextLoop: std::min_element asks for the sizes of the two loops it    *)
(* compares, in either order and without a lock, while the sub loops add   *)
(* and remove connections.                                                 *)
(***************************************************************************)
ReadSize(l) ==
  /\ mpc = "scan" /\ next <= numThreads_
  /\ l \in {best, next} /\ seen[l] = Unread
  /\ seen' = [seen EXCEPT ![l] = Cardinality(connectSet_[l])]
  /\ UNCHANGED <<mainVars, best, next, history, owner, connVars, loopVars, fileVars>>

Compare_Max ==                           \* mutant: max_element
  /\ mpc = "scan" /\ next <= numThreads_
  /\ seen[best] # Unread /\ seen[next] # Unread
  /\ best' = (IF seen[next] > seen[best] THEN next ELSE best)
  /\ next' = next + 1 /\ seen' = NoneRead
  /\ UNCHANGED <<mainVars, history, owner, connVars, loopVars, fileVars>>

Compare ==
  /\ mpc = "scan" /\ next <= numThreads_
  /\ seen[best] # Unread /\ seen[next] # Unread
  /\ best' = (IF seen[next] < seen[best] THEN next ELSE best)
  /\ next' = next + 1 /\ seen' = NoneRead
  /\ UNCHANGED <<mainVars, history, owner, connVars, loopVars, fileVars>>

\* The connection is made, and addConnect queued in the loop that was chosen.
NewConnection ==
  /\ mpc = "scan" /\ next > numThreads_
  /\ mpc' = "established"
  /\ conn' = [conn EXCEPT ![newConn] = "kConnecting"]
  /\ loop_' = [loop_ EXCEPT ![newConn] = best]
  /\ Queue(best, <<"addConnect", newConn>>)
  /\ best' = 1 /\ next' = 2 /\ seen' = NoneRead
  /\ loadAt' = [l \in Loops |-> 0] /\ queuedAt' = [c \in Clients |-> 0]
  /\ UNCHANGED <<backlog, edge, idleFd_, newConn, owner, sockfd_, connectSet_, fileVars>>

QueueEstablished_ThenPoll ==             \* mutant: one accept for each event
  /\ mpc = "established" /\ mpc' = "poll" /\ newConn' = 0
  /\ Queue(loop_[newConn], <<"connectEstablished", newConn>>)
  /\ UNCHANGED <<backlog, edge, idleFd_, scanVars, owner, connVars, connectSet_, fileVars>>

\* The rest of newConnection: subLoop->runInLoop(connectEstablished).
QueueEstablished ==
  /\ mpc = "established" /\ mpc' = "accept" /\ newConn' = 0
  /\ Queue(loop_[newConn], <<"connectEstablished", newConn>>)
  /\ UNCHANGED <<backlog, edge, idleFd_, scanVars, owner, connVars, connectSet_, fileVars>>

AcceptNone ==                            \* EAGAIN
  /\ mpc = "accept" /\ FreeFds # {} /\ backlog = << >>
  /\ mpc' = "poll"
  /\ UNCHANGED <<backlog, edge, idleFd_, newConn, scanVars, owner, connVars, loopVars, fileVars>>

AcceptFull_Breaks ==                     \* mutant: EMFILE ends the loop
  /\ mpc = "accept" /\ FreeFds = {}
  /\ mpc' = "poll"
  /\ UNCHANGED <<backlog, edge, idleFd_, newConn, scanVars, owner, connVars, loopVars, fileVars>>

AcceptFull ==                            \* EMFILE
  /\ mpc = "accept" /\ FreeFds = {}
  /\ mpc' = "closeIdle"
  /\ UNCHANGED <<backlog, edge, idleFd_, newConn, scanVars, owner, connVars, loopVars, fileVars>>

CloseIdle ==
  /\ mpc = "closeIdle" /\ mpc' = "acceptIdle"
  /\ owner' = Closed(idleFd_)
  /\ UNCHANGED <<backlog, edge, idleFd_, newConn, scanVars, connVars, loopVars, fileVars>>

AcceptIdle_KeepsFd ==                    \* mutant: -1 is not assigned
  /\ mpc = "acceptIdle" /\ mpc' = "closeAccepted"
  /\ \/ /\ FreeFds # {} /\ backlog # << >>
        /\ owner' = Opened(Idle)
        /\ idleFd_' = Min(FreeFds)
        /\ conn' = [conn EXCEPT ![Head(backlog)] = "none"]
        /\ backlog' = Tail(backlog)
     \/ /\ FreeFds = {} \/ backlog = << >>
        /\ UNCHANGED <<owner, idleFd_, conn, backlog>>
  /\ UNCHANGED <<edge, newConn, scanVars, sockfd_, loop_, loopVars, fileVars>>

\* The client is accepted only to be closed again.  Another thread may have taken
\* the descriptor, or nobody may be waiting.
AcceptIdle ==
  /\ mpc = "acceptIdle" /\ mpc' = "closeAccepted"
  /\ \/ /\ FreeFds # {} /\ backlog # << >>
        /\ owner' = Opened(Idle)
        /\ idleFd_' = Min(FreeFds)
        /\ conn' = [conn EXCEPT ![Head(backlog)] = "none"]
        /\ backlog' = Tail(backlog)
     \/ /\ FreeFds = {} \/ backlog = << >>
        /\ idleFd_' = 0
        /\ UNCHANGED <<owner, conn, backlog>>
  /\ UNCHANGED <<edge, newConn, scanVars, sockfd_, loop_, loopVars, fileVars>>

CloseAccepted ==
  /\ mpc = "closeAccepted" /\ mpc' = "openIdle"
  /\ owner' = Closed(idleFd_)
  /\ UNCHANGED <<backlog, edge, idleFd_, newConn, scanVars, connVars, loopVars, fileVars>>

OpenIdle ==
  /\ mpc = "openIdle" /\ mpc' = "accept"
  /\ \/ /\ FreeFds # {}
        /\ owner' = Opened(Idle) /\ idleFd_' = Min(FreeFds)
     \/ /\ FreeFds = {}
        /\ idleFd_' = 0 /\ UNCHANGED owner
  /\ UNCHANGED <<backlog, edge, newConn, scanVars, connVars, loopVars, fileVars>>

-----------------------------------------------------------------------------
(***************************************************************************)
(* The sub loops.  While a message callback is under way its thread does   *)
(* nothing else.                                                           *)
(***************************************************************************)
RunFunctor(l, kind, c) ==
  /\ cpc[l] = "idle"
  /\ pendingFunctors_[l] # << >> /\ Head(pendingFunctors_[l]) = <<kind, c>>
  /\ pendingFunctors_' = [pendingFunctors_ EXCEPT ![l] = Tail(@)]
  /\ UNCHANGED <<mainVars, scanVars, owner, sockfd_, loop_, fileVars>>

AddConnect(l, c) ==
  /\ RunFunctor(l, "addConnect", c)
  /\ connectSet_' = [connectSet_ EXCEPT ![l] = @ \cup {c}]
  /\ UNCHANGED conn

ConnectEstablished(l, c) ==
  /\ RunFunctor(l, "connectEstablished", c)
  /\ conn' = [conn EXCEPT ![c] = "kConnected"]
  /\ UNCHANGED connectSet_

ConnectDestroyed(l, c) ==
  /\ RunFunctor(l, "connectDestroyed", c)
  /\ conn' = [conn EXCEPT ![c] = "destroyed"]
  /\ UNCHANGED connectSet_

removeConnection_NoErase(c) ==           \* mutant: rmConnect is forgotten
  /\ Queue(loop_[c], <<"connectDestroyed", c>>)
  /\ UNCHANGED connectSet_

\* TcpServer::removeConnection, in the loop of the connection.
removeConnection(c) ==
  /\ Queue(loop_[c], <<"connectDestroyed", c>>)
  /\ connectSet_' = [connectSet_ EXCEPT ![loop_[c]] = @ \ {c}]

HandleClose(c) ==
  /\ Arrivals /\ conn[c] = "kConnected" /\ cpc[loop_[c]] = "idle"
  /\ conn' = [conn EXCEPT ![c] = "kDisconnected"]
  /\ removeConnection(c)
  /\ UNCHANGED <<mainVars, scanVars, owner, sockfd_, loop_, fileVars>>

\* connectSet_ or a functor holds the connection.
Held(c) == \E l \in Loops :
  \/ c \in connectSet_[l]
  \/ \E i \in 1..Len(pendingFunctors_[l]) : pendingFunctors_[l][i][2] = c

\* The last reference is gone, at the latest when the batch that ran
\* connectDestroyed ends: ~TcpConnection closes the socket.  The client may come
\* again.
Destruct(c) ==
  /\ conn[c] = "destroyed" /\ ~Held(c) /\ cpc[loop_[c]] = "idle"
  /\ conn' = [conn EXCEPT ![c] = "none"]
  /\ owner' = Closed(sockfd_[c])
  /\ sockfd_' = [sockfd_ EXCEPT ![c] = 0] /\ loop_' = [loop_ EXCEPT ![c] = 0]
  /\ UNCHANGED <<mainVars, scanVars, loopVars, fileVars>>

-----------------------------------------------------------------------------
(***************************************************************************)
(* The file of a request: httpServer::parseUrl opens it, sendInLoop closes *)
(* it.  (A POST's fileApp opens a file and closes it, as in OpenUrl and    *)
(* SentWhole.)                                                             *)
(***************************************************************************)
Callback(l, from, to) ==
  /\ cpc[l] \in from /\ cpc' = [cpc EXCEPT ![l] = to]
  /\ UNCHANGED <<mainVars, scanVars, connVars, loopVars>>

\* xopen of a file, which the table may be too full for or which may not exist.
xopen(l, from, found, missing) ==
  \/ /\ FreeFds # {} /\ Callback(l, {from}, found)
     /\ owner' = Opened(File) /\ fd_' = [fd_ EXCEPT ![l] = Min(FreeFds)]
     /\ UNCHANGED stolen
  \/ Callback(l, {from}, missing) /\ UNCHANGED <<owner, fd_, stolen>>

OpenUrl(l) ==
  /\ Arrivals
  /\ \E c \in Clients : loop_[c] = l /\ conn[c] = "kConnected"
  /\ xopen(l, "idle", "opened", "notFound")

\* A directory: parseUrl forgets the descriptor and goes on to 404.html.
NotRegular(l) ==
  /\ Callback(l, {"opened"}, "notFound")
  /\ fd_' = [fd_ EXCEPT ![l] = 0] /\ UNCHANGED <<owner, stolen>>

Open404(l) == xopen(l, "notFound", "send", "idle")

\* sendInLoop has sent the whole file and closes it.
SentWhole(l) ==
  /\ Callback(l, {"opened", "send"}, "idle")
  /\ owner' = Closed(fd_[l]) /\ fd_' = [fd_ EXCEPT ![l] = 0]
  /\ UNCHANGED stolen

\* The file is empty, the connection is going down, output is waiting, or sendfile
\* fails: nobody closes it.
NotSent(l) ==
  /\ Callback(l, {"opened", "send"}, "idle")
  /\ fd_' = [fd_ EXCEPT ![l] = 0] /\ UNCHANGED <<owner, stolen>>

\* sendfile has sent a part: the file is closed, the rest is to be read from it, and
\* the same number is closed again, whoever has been given it by then.
SentPart(l) ==
  /\ Callback(l, {"opened", "send"}, "again")
  /\ owner' = Closed(fd_[l])
  /\ UNCHANGED <<fd_, stolen>>

CloseAgain(l) ==
  /\ Callback(l, {"again"}, "idle")
  /\ owner' = Closed(fd_[l]) /\ fd_' = [fd_ EXCEPT ![l] = 0]
  /\ stolen' = (stolen \/ owner[fd_[l]] # Free)

-----------------------------------------------------------------------------
MainStep ==
  \/ Listen \/ EnableReading \/ HandleRead
  \/ Accept \/ (\E l \in Loops : ReadSize(l)) \/ Compare \/ NewConnection
  \/ QueueEstablished \/ AcceptNone \/ AcceptFull
  \/ CloseIdle \/ AcceptIdle \/ CloseAccepted \/ OpenIdle

LoopStep(l) ==
  \E c \in Clients : AddConnect(l, c) \/ ConnectEstablished(l, c) \/ ConnectDestroyed(l, c)

CallbackStep(l) ==
  \/ NotRegular(l) \/ Open404(l)
  \/ SentWhole(l) \/ NotSent(l) \/ SentPart(l) \/ CloseAgain(l)

Next ==
  \/ MainStep \/ ClientConnects
  \/ \E l \in Loops : LoopStep(l) \/ OpenUrl(l) \/ CallbackStep(l)
  \/ \E c \in Clients : HandleClose(c) \/ Destruct(c)

Spec == Init /\ [][Next]_vars

\* The threads run: a callback ends, and a round of a sub loop ends with its
\* functors, however many messages it brings.  Nothing is assumed of the clients.
FairSpec ==
  /\ Spec
  /\ WF_vars(MainStep)
  /\ \A l \in Loops : WF_vars(CallbackStep(l)) /\ SF_vars(LoopStep(l))
  /\ \A c \in Clients : SF_vars(Destruct(c))

-----------------------------------------------------------------------------
Alive(c) == conn[c] \in {"accepted", "kConnecting", "kConnected", "kDisconnected", "destroyed"}

\* No descriptor of a connection or of the acceptor is leaked or closed for somebody
\* else, whatever the sub loops do between the system calls of handleRead, until the
\* second close of a cut file (SentPart, CloseAgain) hits one in use: every living
\* connection has the one that its socket closes and no other, the acceptor's is the
\* one idleFd_ names, and what handleRead is about to close belongs to it; between
\* its close and its next open it has none; two callbacks have two files.
Descriptors ==
  ~stolen =>
  /\ \A c \in Clients : {f \in Fds : owner[f] = c} = IF Alive(c) THEN {sockfd_[c]} ELSE {}
  /\ \A f \in Fds : owner[f] = Idle => f = idleFd_ /\ mpc \notin {"acceptIdle", "openIdle"}
  /\ mpc \notin {"acceptIdle", "openIdle"} /\ idleFd_ # 0 => owner[idleFd_] = Idle
  /\ \A l \in Loops : cpc[l] \in {"opened", "send"} =>
       /\ fd_[l] # 0 /\ owner[fd_[l]] = File
       /\ \A k \in Loops : k # l /\ cpc[k] \in {"opened", "send"} => fd_[k] # fd_[l]

\* Edge-triggered epoll: the main thread never sleeps with clients in the queue.
NoMissedClient == mpc = "poll" /\ backlog # << >> => edge

\* A connection is in the connectSet_ of its own loop or of none, and once it is
\* closed nothing puts it back (it would never be freed); an open one is there or
\* about to be.
ConnectSets ==
  /\ \A l \in Loops : \A c \in connectSet_[l] : loop_[c] = l /\ Open(c)
  /\ \A c \in Clients : Open(c) =>
       c \in connectSet_[loop_[c]] \/ Queued(loop_[c], <<"addConnect", c>>)

\* The functors that a sub loop still has to run find what their asserts ask for:
\* connectEstablished runs once, on a connection that is connecting and already in
\* connectSet_, connectDestroyed once, on one that is disconnected, although the
\* main thread and the loop itself fill the queue.
FunctorsInOrder ==
  \A l \in Loops : \A i \in 1..Len(pendingFunctors_[l]) :
    LET functor == pendingFunctors_[l][i]
        c       == functor[2]
    IN  /\ loop_[c] = l
        /\ conn[c] = IF functor[1] = "connectDestroyed" THEN "kDisconnected" ELSE "kConnecting"
        /\ \A j \in 1..(i - 1) : /\ pendingFunctors_[l][j] # functor
                                 /\ functor[1] = "addConnect" =>
                                      pendingFunctors_[l][j] # <<"connectEstablished", c>>

\* A client waits in the queue once, a connection has a loop from the time it is
\* made, and newConnection's own is not established before it says so.
ArrivalOrder ==
  /\ \A c \in Clients : loop_[c] = 0 <=> conn[c] \in {"none", "backlog", "accepted"}
  /\ \A i \in 1..Len(backlog) :
       conn[backlog[i]] = "backlog" /\ \A j \in (i + 1)..Len(backlog) : backlog[i] # backlog[j]
  /\ newConn # 0 <=> mpc \in {"scan", "established"}
  /\ \A c \in Clients : conn[c] = "accepted" <=> c = newConn /\ mpc = "scan"
  /\ mpc = "established" =>
       conn[newConn] = "kConnecting" /\ ~Queued(loop_[newConn], <<"connectEstablished", newConn>>)

\* Connections that were on their way to a loop of L when newConn was accepted.
OnWay(L) == Cardinality({c \in Clients : queuedAt[c] \in L})

\* min_element at work: until the connection is made no loop gets another one, so
\* that a size that was read may have grown only by the addConnects of that time,
\* and what the loops have been compared by bounds the load of the best so far.
ScanInv ==
  mpc = "scan" =>
  /\ \A l \in Loops : \A c \in Clients : Queued(l, <<"addConnect", c>>) => queuedAt[c] = l
  /\ \A l \in Loops : Load(l) <= loadAt[l]
  /\ best < next
  /\ \A l \in 1..(next - 1) : Load(best) <= loadAt[l] + OnWay(1..(next - 1))
  /\ seen[best] # Unread =>
       /\ Load(best) <= seen[best] + OnWay({best})
       /\ \A l \in 1..(next - 1) : seen[best] <= loadAt[l] + OnWay(1..(next - 1))
  /\ next <= numThreads_ /\ seen[next] # Unread =>
       Load(next) <= seen[next] + OnWay({next}) /\ seen[next] <= loadAt[next]

\* The invariants of the accept loop and of the sub loops.
ServerInv ==
  TypeOK /\ NoMissedClient /\ ConnectSets /\ FunctorsInOrder /\ ArrivalOrder /\ ScanInv

\* The sizes that getNextLoop compares are read one by one, while the loops change
\* them and addConnects are on their way.  All the same the loop it chooses has, when
\* the connection is given to it, no more open connections than any loop had when
\* the client was accepted, but for those addConnects.
LeastLoaded ==
  mpc = "scan" /\ next > numThreads_ =>
    \A l \in Loops : Load(best) <= loadAt[l] + OnWay(Loops)

\* A client in the queue is served or refused, unless the table is full and another
\* thread has taken the spare descriptor.
ClientsAnswered ==
  \A c \in Clients :
    conn[c] = "backlog" ~> (conn[c] # "backlog" \/ (idleFd_ = 0 /\ FreeFds = {}))

\* A closed connection is destructed, and so closes its socket.
ClosedFreed == \A c \in Clients : conn[c] = "kDisconnected" ~> conn[c] = "none"
=============================================================================
