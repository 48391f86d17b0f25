--------------------------- MODULE TcpConnection ----------------------------
(***************************************************************************)
(* One adl::TcpConnection (src/net/tcpConnection.cpp) from the time        *)
(* TcpServer::newConnection creates it to its destructor, in the IO loop   *)
(* it belongs to, with its Channel and the socket.                         *)
(*                                                                         *)
(* The IO thread goes through the rounds of EventLoop::loop: epoll_wait,   *)
(* Channel::handleEvent with its callbacks in order (close, error, read,   *)
(* write), then the batch of functors swapped out of pendingFunctors_.  A  *)
(* callback of TcpConnection is one step; the client's own callbacks are   *)
(* entered and left, and may call the connection in between.  Other        *)
(* threads may call forceClose, whose test and assignment of the plain     *)
(* variable state_ are separate steps.                                     *)
(*                                                                         *)
(* Bytes are numbered in the order in which the client hands them over.    *)
(***************************************************************************)
EXTENDS Naturals, Sequences, FiniteSets, Channel

CONSTANTS
  Threads,          \* threads other than the IO thread that call forceClose
  Ops,              \* what the client's callbacks call
  SendSizes,        \* the lengths it passes to send
  FileSizes,        \* the file sizes it passes to sendFile
  SndBuf,           \* bytes that fit into the socket's send buffer
  MaxIn,            \* bound: unread segments in the receive buffer
  MaxCalls,         \* bound: calls made by the client and by other threads
  MaxBytes          \* bound: bytes the client sends

\* "writeComplete" stands for a writeCompleteCallback_ that is set.
AllOps == {"send", "sendFile", "shutdown", "forceClose", "startRead", "stopRead",
           "writeComplete"}

ASSUME OpsAssumption == Ops \subseteq AllOps
ASSUME BoundsAssumption ==
  /\ SndBuf \in Nat \ {0} /\ MaxIn \in Nat /\ MaxCalls \in Nat /\ MaxBytes \in Nat
  /\ SendSizes \subseteq Nat \ {0} /\ FileSizes \subseteq Nat \ {0}

VARIABLES
  state_, reading_, channel_,
  outputBuffer_,    \* the bytes of outputBuffer_
  connectSet_,      \* the loop's connectSet_ holds the connection
  pendingFunctors_, \* the loop's queue
  functors,         \* the rest of the batch that is being run
  held,             \* a functor of that batch owns the connection
  pc,               \* where the IO thread is
  ret,              \* where it goes on when the client's callback returns
  revents_,
  sock,             \* the kernel's side of the connection
  wire,             \* history: the bytes written to the socket, in order
  accepted,         \* history: how many bytes the client has handed over
  calls,            \* how many calls have been made (for MaxCalls)
  newConn,          \* how far TcpServer::newConnection is
  tpc,              \* where each other thread is in forceClose
  destroys,         \* history: how often connectDestroyed ran
  destroyed,        \* the destructor has run
  aborted,          \* an assert has failed
  killed,           \* a write has raised SIGPIPE
  lapses            \* history: what has gone wrong that later steps cannot mend

loopVars == <<pendingFunctors_, functors, held, pc, ret, revents_>>
connVars == <<state_, reading_, channel_, outputBuffer_, connectSet_>>
histVars == <<wire, accepted, calls, destroys, lapses>>
envVars  == <<newConn, tpc>>
ends     == <<destroyed, aborted, killed>>
vars == <<loopVars, connVars, sock, histVars, envVars, ends>>

States == {"kDisconnected", "kConnecting", "kConnected", "kDisconnecting"}

\* Functors that own the connection (a shared_ptr).
FunctorKinds == {"addConnect", "connectEstablished", "forceClose",
                 "connectDestroyed", "writeComplete"}

\* "fileCut":  sendFile has dropped the rest of a file;
\* "lateRead": startRead was called on a connection that was closed already;
\* "race":     forceClose in another thread has written over kDisconnected.
Lapses == {"fileCut", "lateRead", "race"}

PCs == {"poll", "close", "error", "read", "write", "swap", "functors", "user"}

SocketType == [rcvd : 0..MaxIn, fin : BOOLEAN, rst : {"none", "pending", "seen"},
               inflight : 0..SndBuf, finSent : BOOLEAN, edge : BOOLEAN]

TypeOK ==
  /\ state_ \in States /\ reading_ \in BOOLEAN /\ channel_ \in ChannelType
  /\ outputBuffer_ \in Seq(Nat) /\ connectSet_ \in BOOLEAN
  /\ pendingFunctors_ \in Seq(FunctorKinds) /\ functors \in Seq(FunctorKinds)
  /\ held \in BOOLEAN /\ pc \in PCs /\ ret \in {"write", "functors"}
  /\ revents_ \subseteq {"IN", "RDHUP", "OUT", "HUP", "ERR"}
  /\ sock \in SocketType
  /\ wire \in Seq(Nat) /\ accepted \in Nat /\ calls \in 0..MaxCalls
  /\ newConn \in 0..2 /\ destroys \in Nat /\ lapses \subseteq Lapses
  /\ tpc \in [Threads -> {"idle", "tested", "set", "gone"}]
  /\ destroyed \in BOOLEAN /\ aborted \in BOOLEAN /\ killed \in BOOLEAN

Init ==
  /\ state_ = "kConnecting"
  /\ reading_ \in BOOLEAN                \* never initialised
  /\ channel_ = NewChannel
  /\ outputBuffer_ = << >>
  /\ connectSet_ = FALSE
  /\ pendingFunctors_ = << >>
  /\ functors = << >>
  /\ held = FALSE
  /\ pc = "poll"
  /\ ret = "functors"
  /\ revents_ = {}
  /\ sock = [rcvd |-> 0, fin |-> FALSE, rst |-> "none", inflight |-> 0,
             finSent |-> FALSE, edge |-> FALSE]
  /\ wire = << >> /\ accepted = 0 /\ calls = 0 /\ destroys = 0
  /\ lapses = {}
  /\ newConn = 0 /\ tpc = [t \in Threads |-> "idle"]
  /\ destroyed = FALSE /\ aborted = FALSE /\ killed = FALSE

-----------------------------------------------------------------------------
(***************************************************************************)
(* The socket, as the code sees it through epoll, read, write, sendfile    *)
(* and shutdown.                                                           *)
(***************************************************************************)
Mask(s) ==
  (IF s.rcvd > 0 \/ s.fin \/ s.rst # "none" THEN {"IN"} ELSE {})
    \cup (IF s.fin \/ s.rst # "none" THEN {"RDHUP"} ELSE {})
    \cup (IF s.inflight < SndBuf \/ s.finSent \/ s.rst # "none" THEN {"OUT"} ELSE {})
    \cup (IF (s.fin /\ s.finSent) \/ s.rst # "none" THEN {"HUP"} ELSE {})
    \cup (IF s.rst = "pending" THEN {"ERR"} ELSE {})

\* epoll_ctl with ADD or MOD looks at the socket at once.
Rearm(s, c) == [s EXCEPT !.edge = @ \/ Mask(s) \cap Interest(c) # {}]

\* A write fails with EPIPE or ECONNRESET; EPIPE comes with a SIGPIPE, which kills
\* a program that does not ignore it (httpServer.cpp does not).
WriteFails(s) == s.finSent \/ s.rst # "none"
SigPipe(s)    == s.finSent \/ s.rst = "seen" \/ (s.rst = "pending" /\ s.fin)
Min2(a, b)    == IF a < b THEN a ELSE b
Accepts(s, n) == Min2(SndBuf - s.inflight, n)    \* 0 is EAGAIN
Written(s, k) == [s EXCEPT !.inflight = @ + k]
SockError(s) == [s EXCEPT !.rst = IF @ = "none" THEN @ ELSE "seen"]

\* shutdown(SHUT_WR): if the peer has closed too, the state change is an edge.
ShutdownWrite(s) == [s EXCEPT !.finSent = TRUE, !.edge = @ \/ s.fin]

Running == ~aborted /\ ~killed         \* the process is alive

PeerEvent(s) ==
  /\ Running /\ ~destroyed
  /\ sock' = s
  /\ UNCHANGED <<loopVars, connVars, histVars, envVars, ends>>

PeerSends  == sock.rst = "none" /\ ~sock.fin /\ sock.rcvd < MaxIn
              /\ PeerEvent([sock EXCEPT !.rcvd = @ + 1, !.edge = TRUE])
PeerCloses == sock.rst = "none" /\ ~sock.fin
              /\ PeerEvent([sock EXCEPT !.fin = TRUE, !.edge = TRUE])
PeerResets == sock.rst = "none"
              /\ PeerEvent([sock EXCEPT !.rst = "pending", !.edge = TRUE])
\* Room in a full send buffer is an edge.
PeerReads  == sock.rst = "none" /\ sock.inflight > 0
              /\ PeerEvent([sock EXCEPT !.inflight = @ - 1,
                                        !.edge = @ \/ sock.inflight = SndBuf])

-----------------------------------------------------------------------------
(***************************************************************************)
(* The main thread: TcpServer::newConnection hands the connection to the   *)
(* loop with two functors.                                                 *)
(***************************************************************************)
NewConnection ==
  /\ Running /\ newConn < 2
  /\ newConn' = newConn + 1
  /\ pendingFunctors_' = Append(pendingFunctors_,
                           IF newConn = 0 THEN "addConnect" ELSE "connectEstablished")
  /\ UNCHANGED <<functors, held, pc, ret, revents_, connVars, sock, histVars,
                 tpc, ends>>

-----------------------------------------------------------------------------
(***************************************************************************)
(* The rounds of the IO thread.                                            *)
(***************************************************************************)
Reported == IF sock.edge THEN Mask(sock) \cap Interest(channel_) ELSE {}

\* epoll_wait returns when the socket has an edge to report or when a functor
\* has been queued (EventLoop!NoLostWakeup).
Poll ==
  /\ Running /\ pc = "poll"
  /\ Reported # {} \/ pendingFunctors_ # << >>
  /\ revents_' = Reported
  /\ sock' = [sock EXCEPT !.edge = FALSE]
  /\ pc' = IF Reported # {} THEN "close" ELSE "swap"
  /\ UNCHANGED <<pendingFunctors_, functors, held, ret, connVars, histVars,
                 envVars, ends>>

\* TcpServer::removeConnection, the closeCallback_ of every connection: it queues
\* connectDestroyed and drops the connection from connectSet_.
removeConnection ==
  /\ pendingFunctors_' = Append(pendingFunctors_, "connectDestroyed")
  /\ connectSet_' = FALSE

HandleClose ==
  /\ aborted' = (state_ \notin {"kConnected", "kDisconnecting"})
  /\ state_' = "kDisconnected"
  /\ channel_' = disableAll(channel_)
  /\ removeConnection
  /\ UNCHANGED outputBuffer_

NoClose == UNCHANGED <<state_, channel_, pendingFunctors_, connectSet_,
                       outputBuffer_, aborted>>

QueueWriteComplete(p) ==
  IF "writeComplete" \in Ops THEN Append(p, "writeComplete") ELSE p

\* "(revents_ & EPOLLHUP) && !(revents_ & EPOLLIN)"
CloseStage ==
  /\ Running /\ pc = "close"
  /\ pc' = "error"
  /\ IF "HUP" \in revents_ /\ "IN" \notin revents_
       THEN HandleClose /\ sock' = Rearm(sock, channel_')
       ELSE NoClose /\ UNCHANGED sock
  /\ UNCHANGED <<functors, held, ret, revents_, reading_, histVars, envVars,
                 destroyed, killed>>

\* handleError reads SO_ERROR, which clears it.
ErrorStage ==
  /\ Running /\ pc = "error"
  /\ pc' = "read"
  /\ sock' = IF "ERR" \in revents_ THEN SockError(sock) ELSE sock
  /\ UNCHANGED <<pendingFunctors_, functors, held, ret, revents_, connVars,
                 histVars, envVars, ends>>

\* handleRead: readFd reads until EAGAIN, end of file or an error.
ReadStage ==
  /\ Running /\ pc = "read"
  /\ UNCHANGED <<functors, held, revents_, reading_, histVars, envVars, destroyed,
                 killed>>
  /\ \/ /\ revents_ \cap {"IN", "RDHUP"} = {}
        /\ pc' = "write" /\ NoClose /\ UNCHANGED <<sock, ret>>
     \/ /\ revents_ \cap {"IN", "RDHUP"} # {}
        /\ \/ /\ sock.fin \/ sock.rst = "seen"             \* writeClosed
              /\ HandleClose
              /\ sock' = Rearm([sock EXCEPT !.rcvd = 0], channel_')
              /\ pc' = "write" /\ UNCHANGED ret
           \/ /\ sock.rst = "none" /\ ~sock.fin /\ sock.rcvd > 0  \* a message
              /\ NoClose
              /\ sock' = [sock EXCEPT !.rcvd = 0]
              /\ pc' = "user" /\ ret' = "write"
           \/ /\ ~sock.fin                                        \* handleError
              /\ sock.rst = "pending" \/ (sock.rst = "none" /\ sock.rcvd = 0)
              /\ NoClose
              /\ sock' = SockError([sock EXCEPT !.rcvd = 0])
              /\ pc' = "write" /\ UNCHANGED ret

\* shutdownWriteInLoop: not while output is waiting.
shutdownWriteInLoop_AtOnce(s, c) == ShutdownWrite(s)    \* mutant: no test
shutdownWriteInLoop_Never(s, c)  == s                   \* mutant: left to handleWrite

shutdownWriteInLoop(s, c) == IF isWriting(c) THEN s ELSE ShutdownWrite(s)

\* handleWrite.  revents_ is not looked at again before the next epoll_wait.
WriteStage ==
  /\ Running /\ pc = "write"
  /\ pc' = "swap"
  /\ revents_' = {}
  /\ UNCHANGED <<functors, held, ret, reading_, connectSet_, state_,
                 accepted, calls, destroys, lapses, envVars, destroyed, aborted>>
  /\ killed' \in {FALSE, "OUT" \in revents_ /\ isWriting(channel_) /\ SigPipe(sock)}
  /\ LET k == IF WriteFails(sock) THEN 0 ELSE Accepts(sock, Len(outputBuffer_))
         left == SubSeq(outputBuffer_, k + 1, Len(outputBuffer_))
     IN IF "OUT" \notin revents_ \/ ~isWriting(channel_) \/ k = 0
          THEN /\ sock' = IF "OUT" \in revents_ /\ isWriting(channel_)
                             /\ WriteFails(sock) THEN SockError(sock) ELSE sock
               /\ UNCHANGED <<channel_, outputBuffer_, wire, pendingFunctors_>>
          ELSE /\ outputBuffer_' = left
               /\ wire' = wire \o SubSeq(outputBuffer_, 1, k)
               /\ IF left # << >>
                    THEN /\ sock' = Written(sock, k)
                         /\ UNCHANGED <<channel_, pendingFunctors_>>
                    ELSE /\ channel_' = disableWriting(channel_)
                         /\ pendingFunctors_' = QueueWriteComplete(pendingFunctors_)
                         /\ sock' = LET s == Rearm(Written(sock, k), channel_')
                                    IN IF state_ = "kDisconnecting"
                                         THEN shutdownWriteInLoop(s, channel_') ELSE s

-----------------------------------------------------------------------------
(***************************************************************************)
(* The batch of functors.                                                  *)
(***************************************************************************)
SwapPending ==
  /\ Running /\ pc = "swap"
  /\ pc' = "functors"
  /\ functors' = pendingFunctors_
  /\ pendingFunctors_' = << >>
  /\ held' = (pendingFunctors_ # << >>)
  /\ UNCHANGED <<ret, revents_, connVars, sock, histVars, envVars, ends>>

RunFunctor(kind, next) ==
  /\ Running /\ pc = "functors"
  /\ functors # << >> /\ Head(functors) = kind
  /\ functors' = Tail(functors)
  /\ pc' = next
  /\ ret' = "functors"
  /\ UNCHANGED <<held, revents_, wire, accepted, calls, lapses, envVars, destroyed,
                 killed>>

AddConnect ==
  /\ RunFunctor("addConnect", "functors")
  /\ connectSet_' = TRUE
  /\ UNCHANGED <<pendingFunctors_, state_, reading_, channel_, outputBuffer_, sock,
                 destroys, aborted>>

ConnectEstablished ==
  /\ RunFunctor("connectEstablished", "user")
  /\ aborted' = (state_ # "kConnecting")
  /\ state_' = "kConnected"
  /\ channel_' = enableReading(channel_)
  /\ sock' = Rearm(sock, channel_')
  /\ UNCHANGED <<pendingFunctors_, reading_, outputBuffer_, connectSet_, destroys>>

IsOpen_Always == TRUE                    \* mutant: the state is not tested again
IsOpen == state_ \in {"kConnected", "kDisconnecting"}

ForceCloseInLoop ==
  /\ RunFunctor("forceClose", "functors")
  /\ IF IsOpen
       THEN HandleClose /\ sock' = Rearm(sock, channel_')
       ELSE NoClose /\ UNCHANGED sock
  /\ UNCHANGED <<reading_, destroys>>

ConnectDestroyed ==
  /\ RunFunctor("connectDestroyed",
                IF state_ = "kConnected" THEN "user" ELSE "functors")
  /\ destroys' = destroys + 1
  /\ state_' = IF state_ = "kConnected" THEN "kDisconnected" ELSE state_
  /\ channel_' = removeChannel(IF state_ = "kConnected" THEN disableAll(channel_)
                                                        ELSE channel_)
  /\ UNCHANGED <<pendingFunctors_, reading_, outputBuffer_, connectSet_, sock,
                 aborted>>

WriteComplete ==
  /\ RunFunctor("writeComplete", "user")
  /\ UNCHANGED <<pendingFunctors_, connVars, sock, destroys, aborted>>

\* Nobody owns the connection any more: its destructor runs.
Unowned ==
  /\ ~connectSet_ /\ newConn = 2
  /\ pendingFunctors_ = << >>

\* The functors of the batch are destroyed, and with them their shared_ptrs.
BatchDone ==
  /\ Running /\ pc = "functors" /\ functors = << >>
  /\ pc' = "poll"
  /\ held' = FALSE
  /\ destroyed' = (Unowned /\ \A t \in Threads : tpc[t] = "gone")
  /\ aborted' = (destroyed' /\ state_ # "kDisconnected")
  /\ UNCHANGED <<pendingFunctors_, functors, ret, revents_, connVars, sock,
                 histVars, envVars, killed>>

-----------------------------------------------------------------------------
(***************************************************************************)
(* What the client's callbacks call, in the IO thread.                     *)
(***************************************************************************)
UserCalls(op) ==
  /\ Running /\ pc = "user" /\ op \in Ops
  /\ calls < MaxCalls /\ calls' = calls + 1
  /\ UNCHANGED <<functors, held, pc, ret, revents_, connectSet_, destroys,
                 envVars, destroyed, aborted>>

Bytes(n) == [i \in 1..n |-> accepted + i]

\* sendInLoop writes at once only if nothing is waiting to be written.
WriteNow_Always == TRUE                  \* mutant: overtakes the buffer
WriteNow_Never == FALSE                  \* mutant: everything goes to the buffer
WriteNow == ~isWriting(channel_) /\ outputBuffer_ = << >>

\* It asks for EPOLLOUT when it has kept something back.
applyEpollout_Never(c) == c              \* mutant: nobody will call handleWrite
applyEpollout(c) == IF isWriting(c) THEN c ELSE enableWriting(c)

\* sendInLoop(message, len): write now if nothing is waiting, keep the rest.
sendInLoop(n) ==
  LET direct == WriteNow
      fault  == direct /\ WriteFails(sock)
      k      == IF direct /\ ~fault THEN Accepts(sock, n) ELSE 0
  IN /\ wire' = wire \o SubSeq(Bytes(n), 1, k)
     /\ pendingFunctors_' = IF direct /\ k = n
                              THEN QueueWriteComplete(pendingFunctors_)
                              ELSE pendingFunctors_
     /\ IF fault \/ k = n
          THEN /\ sock' = IF fault THEN SockError(sock) ELSE Written(sock, k)
               /\ UNCHANGED <<outputBuffer_, channel_>>
          ELSE /\ outputBuffer_' = outputBuffer_ \o SubSeq(Bytes(n), k + 1, n)
               /\ channel_' = applyEpollout(channel_)
               /\ sock' = IF channel_' = channel_ THEN Written(sock, k)
                          ELSE Rearm(Written(sock, k), channel_')
     /\ killed' \in {FALSE, direct /\ SigPipe(sock)}

\* sendInLoop(NULL, 0, fd, size): "remaining" is the file's rest only when sendfile
\* wrote something, and the file is closed before its rest is read.
sendFileInLoop(n) ==
  LET direct == WriteNow
      fault  == direct /\ WriteFails(sock)
      k      == IF direct /\ ~fault THEN Accepts(sock, n) ELSE 0
      partly == 0 < k /\ k < n
  IN /\ wire' = wire \o SubSeq(Bytes(n), 1, k)
     /\ pendingFunctors_' = IF k = n THEN QueueWriteComplete(pendingFunctors_)
                                     ELSE pendingFunctors_
     /\ channel_' = IF partly THEN applyEpollout(channel_) ELSE channel_
     /\ sock' = CASE fault  -> SockError(sock)
                  [] partly -> Rearm(Written(sock, k), channel_')
                  [] OTHER  -> Written(sock, k)
     /\ killed' \in {FALSE, direct /\ SigPipe(sock)}
     /\ lapses' = lapses \cup (IF k < n /\ ~fault THEN {"fileCut"} ELSE {})
     /\ UNCHANGED outputBuffer_

Sends(n) ==
  /\ state_ = "kConnected"
  /\ accepted + n <= MaxBytes
  /\ accepted' = accepted + n
  /\ UNCHANGED <<state_, reading_>>

Send(n)     == UserCalls("send") /\ Sends(n) /\ sendInLoop(n) /\ UNCHANGED lapses
SendFile(n) == UserCalls("sendFile") /\ Sends(n) /\ sendFileInLoop(n)

\* shutdown and shutdownWriteInLoop.
Shutdown ==
  /\ UserCalls("shutdown")
  /\ state_ = "kConnected"
  /\ state_' = "kDisconnecting"
  /\ sock' = shutdownWriteInLoop(sock, channel_)
  /\ UNCHANGED <<pendingFunctors_, reading_, channel_, outputBuffer_, wire, accepted,
                 lapses, killed>>

ForceClose ==
  /\ UserCalls("forceClose")
  /\ state_ \in {"kConnected", "kDisconnecting"}
  /\ state_' = "kDisconnecting"
  /\ pendingFunctors_' = Append(pendingFunctors_, "forceClose")
  /\ UNCHANGED <<reading_, channel_, outputBuffer_, sock, wire, accepted, lapses,
                 killed>>

\* startReadInLoop does not ask whether the connection is still open.
StartRead ==
  /\ UserCalls("startRead")
  /\ ~reading_ \/ ~isReading(channel_)
  /\ channel_' = enableReading(channel_)
  /\ reading_' = TRUE
  /\ sock' = Rearm(sock, channel_')
  /\ lapses' = lapses \cup (IF state_ = "kDisconnected" THEN {"lateRead"} ELSE {})
  /\ UNCHANGED <<pendingFunctors_, state_, outputBuffer_, wire, accepted, killed>>

StopRead ==
  /\ UserCalls("stopRead")
  /\ reading_ \/ isReading(channel_)
  /\ channel_' = disableReading(channel_)
  /\ reading_' = FALSE
  /\ sock' = Rearm(sock, channel_')
  /\ UNCHANGED <<pendingFunctors_, state_, outputBuffer_, wire, accepted, lapses,
                 killed>>

CallbackReturns ==
  /\ Running /\ pc = "user"
  /\ pc' = ret /\ ret' = "functors"
  /\ UNCHANGED <<pendingFunctors_, functors, held, revents_, connVars, sock,
                 histVars, envVars, ends>>

-----------------------------------------------------------------------------
(***************************************************************************)
(* forceClose in another thread, which owns the connection meanwhile.      *)
(***************************************************************************)
ThreadAt(t, from, to) ==
  /\ Running /\ tpc[t] = from
  /\ tpc' = [tpc EXCEPT ![t] = to]
  /\ UNCHANGED <<functors, held, pc, ret, revents_, reading_, channel_,
                 outputBuffer_, connectSet_, sock, wire, accepted, destroys,
                 newConn>>

ForceCloseTest(t) ==
  /\ ThreadAt(t, "idle", "tested")
  /\ calls < MaxCalls /\ calls' = calls + 1
  /\ state_ \in {"kConnected", "kDisconnecting"}
  /\ UNCHANGED <<pendingFunctors_, state_, lapses, ends>>

ForceCloseSet(t) ==
  /\ ThreadAt(t, "tested", "set")
  /\ state_' = "kDisconnecting"
  /\ lapses' = lapses \cup (IF state_ = "kDisconnected" THEN {"race"} ELSE {})
  /\ UNCHANGED <<pendingFunctors_, calls, ends>>

ForceCloseQueue(t) ==
  /\ ThreadAt(t, "set", "idle")
  /\ pendingFunctors_' = Append(pendingFunctors_, "forceClose")
  /\ UNCHANGED <<state_, calls, lapses, ends>>

Release(t) ==
  /\ ThreadAt(t, "idle", "gone")
  /\ destroyed' = (Unowned /\ ~held /\ \A u \in Threads \ {t} : tpc[u] = "gone")
  /\ aborted' = (destroyed' /\ state_ # "kDisconnected")
  /\ UNCHANGED <<pendingFunctors_, state_, calls, lapses, killed>>

-----------------------------------------------------------------------------
LoopStep ==
  \/ Poll \/ CloseStage \/ ErrorStage \/ ReadStage \/ WriteStage
  \/ SwapPending \/ AddConnect \/ ConnectEstablished \/ ForceCloseInLoop
  \/ ConnectDestroyed \/ WriteComplete \/ BatchDone \/ CallbackReturns

UserStep ==
  \/ \E n \in SendSizes : Send(n)
  \/ \E n \in FileSizes : SendFile(n)
  \/ Shutdown \/ ForceClose \/ StartRead \/ StopRead

ThreadStep(t) == ForceCloseTest(t) \/ ForceCloseSet(t) \/ ForceCloseQueue(t)
                 \/ Release(t)

Over == (destroyed \/ aborted \/ killed) /\ UNCHANGED vars

Next == \/ LoopStep \/ UserStep \/ NewConnection \/ Over
        \/ PeerSends \/ PeerCloses \/ PeerResets \/ PeerReads
        \/ \E t \in Threads : ThreadStep(t)

Spec == Init /\ [][Next]_vars

(***************************************************************************)
(* The IO thread runs as long as it has something to do, callbacks return, *)
(* newConnection queues both functors, the peer reads what it is sent, and *)
(* another thread comes out of forceClose and drops its pointer.           *)
(***************************************************************************)
FairSpec ==
  /\ Spec
  /\ WF_vars(LoopStep) /\ WF_vars(NewConnection) /\ WF_vars(PeerReads)
  /\ \A t \in Threads : WF_vars(ForceCloseSet(t) \/ ForceCloseQueue(t) \/ Release(t))

-----------------------------------------------------------------------------
\* connectDestroyed runs at most once, whatever closes the connection first: the
\* peer, an error or forceClose ("should be called only once").
DestroyedOnce == destroys <= 1

\* The connection is established once, closed once and destroyed once, and it is
\* closed when it is freed: the asserts of connectEstablished, handleClose and
\* ~TcpConnection hold and connectDestroyed is not repeated, in whatever order the
\* peer, an error, the client and another thread close it.  Excepted are a
\* startRead on a closed connection and a forceClose that races with the close.
OneTeardown == lapses \subseteq {"fileCut"} => ~aborted /\ DestroyedOnce

\* A closed connection gets no more events: its channel is not in epoll.
ClosedIsDeaf ==
  state_ = "kDisconnected" /\ lapses \subseteq {"fileCut"} => ~registered(channel_)

\* When the connection is freed, neither epoll nor Epoller::channels_ points to
\* its channel.
NoDanglingChannel == destroyed => ~registered(channel_) /\ ~mapped(channel_)

\* The write side is shut down only after everything sent has been written.
FinAfterData == sock.finSent => outputBuffer_ = << >>

\* The functors that are still to be run, in order.
Queue == functors \o pendingFunctors_
Contains(q, kind) == \E k \in 1..Len(q) : q[k] = kind
Queued(kind) == Contains(Queue, kind)

\* No callback of the client comes behind connectDestroyed.
QuietAfter(q) ==
  \A i, j \in 1..Len(q) : i < j /\ q[i] = "connectDestroyed" => q[j] # "writeComplete"
DestroyOnce(q) ==
  \A i, j \in 1..Len(q) : q[i] = "connectDestroyed" /\ q[j] = "connectDestroyed" => i = j

Unharmed == lapses \subseteq {"fileCut"}

\* Before connectEstablished nothing has happened to the connection but that its two
\* functors were queued and addConnect was run, in this order; it is never back in
\* this state, and nobody calls it meanwhile.
Connecting ==
  IF state_ = "kConnecting"
  THEN /\ <<newConn, connectSet_, Queue>> \in
            {<<0, FALSE, << >>>>, <<1, FALSE, <<"addConnect">>>>, <<1, TRUE, << >>>>,
             <<2, FALSE, <<"addConnect", "connectEstablished">>>>,
             <<2, TRUE, <<"connectEstablished">>>>}
       /\ channel_ = NewChannel /\ outputBuffer_ = << >> /\ accepted = 0
       /\ ~sock.finSent /\ destroys = 0 /\ lapses = {} /\ revents_ = {}
       /\ pc \in {"poll", "swap", "functors"} /\ ~destroyed
       /\ \A t \in Threads : tpc[t] \in {"idle", "gone"}
  ELSE newConn = 2 /\ ~Queued("addConnect") /\ ~Queued("connectEstablished")

\* A round of the loop: the batch is run after the events, its functors own the
\* connection, and a read event comes with EPOLLIN.
Round ==
  /\ functors # << >> => held /\ (pc = "functors" \/ (pc = "user" /\ ret = "functors"))
  /\ revents_ # {} => pc \in {"close", "error", "read", "write"} \/ (pc = "user" /\ ret = "write")
  /\ "RDHUP" \in revents_ => "IN" \in revents_

\* Whatever happens, a connection that is not in connectSet_ any more has a
\* connectDestroyed to come, or it had its last one, which has removed the channel;
\* then no callback of the client can touch the channel again.
Leaving ==
  /\ state_ # "kConnecting" /\ connectSet_ => destroys = 0 /\ ~Queued("connectDestroyed")
  /\ state_ # "kConnecting" /\ ~connectSet_ =>
       /\ state_ # "kConnected" /\ ~isWriting(channel_)
       /\ Queued("connectDestroyed") \/ (destroys > 0 /\ channel_.status = DELETED /\ revents_ = {})
  /\ QuietAfter(Queue)
  /\ destroys > 0 => /\ pc # "user" /\ ~Queued("writeComplete") /\ "IN" \notin revents_
                     /\ registered(channel_) => ~isReading(channel_)
  /\ destroyed => Queue = << >> /\ ~connectSet_ /\ \A t \in Threads : tpc[t] = "gone"

\* An open connection is in connectSet_ and its channel is known to the poller; a
\* closed one has had, or will have, its only connectDestroyed.
Closing ==
  Unharmed /\ state_ # "kConnecting" =>
    /\ connectSet_ <=> state_ # "kDisconnected"
    /\ connectSet_ => mapped(channel_)
    /\ ~connectSet_ => \/ destroys = 0 /\ channel_ = [events |-> {}, status |-> NOT_LISTEN]
                       \/ destroys = 1 /\ channel_.status = DELETED
    /\ destroys > 0 => ~Queued("connectDestroyed")
    /\ DestroyOnce(Queue)
    /\ pc = "close" \/ (pc \in {"error", "read"} /\ "IN" \in revents_) => connectSet_

\* Output that is kept back has asked for EPOLLOUT as long as the client can shut the
\* connection down, and nothing is sent after that.
Output ==
  /\ state_ = "kConnected" => ~sock.finSent /\ (outputBuffer_ # << >> => isWriting(channel_))
  /\ sock.inflight <= Len(wire) /\ Len(wire) + Len(outputBuffer_) <= accepted

\* At every moment, whatever is called and from whichever thread: the types, no
\* dangling channel, no events for a closed connection, no FIN ahead of output.
ConnectionInv ==
  /\ TypeOK /\ NoDanglingChannel /\ ClosedIsDeaf /\ FinAfterData
  /\ Connecting /\ Round /\ Leaving /\ Closing /\ Output

\* What was written to the socket and what waits in outputBuffer_ is what the
\* client sent: nothing lost, doubled or reordered between the direct write in
\* sendInLoop, the buffer and handleWrite.
StreamIntact ==
  sock.rst = "none" /\ "fileCut" \notin lapses =>
    wire \o outputBuffer_ = [i \in 1..accepted |-> i]

\* What fits into the socket's send buffer is never kept back: httpServer calls
\* forceClose right after send, which is safe for answers of that size only.
ShortAnswers ==
  accepted <= SndBuf /\ sock.rst = "none" => outputBuffer_ = << >> /\ ~isWriting(channel_)

\* The client has stopped reading an open connection: only HUP, ERR and OUT, if it
\* is writing, will be heard of.
Deaf == state_ \in {"kConnected", "kDisconnecting"} /\ ~isReading(channel_)

\* A peer that reads gets everything out of outputBuffer_, although EPOLLOUT is
\* edge-triggered, unless the connection is closed first.
OutputDrains ==
  (outputBuffer_ # << >>) ~>
    \/ outputBuffer_ = << >> \/ state_ = "kDisconnected"
    \/ killed \/ "fileCut" \in lapses \/ (Deaf /\ sock.rst # "none")

\* shutdown() reaches the socket, at once or when the output has drained.
ShutdownCompletes ==
  (state_ = "kDisconnecting") ~>
    \/ sock.finSent \/ state_ = "kDisconnected"
    \/ killed \/ "fileCut" \in lapses \/ (Deaf /\ sock.rst # "none")

\* A peer that closes or resets the connection causes it to be destroyed and freed,
\* if the client wants to read; after a lapse of the teardown an assert may fail.
PeerCloseFrees ==
  (sock.fin \/ sock.rst # "none") ~>
    destroyed \/ killed \/ Deaf \/ lapses \cap {"lateRead", "race"} # {}
=============================================================================
