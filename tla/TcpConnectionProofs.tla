------------------------ MODULE TcpConnectionProofs -------------------------
(***************************************************************************)
(* Proofs about TcpConnection for any number of threads, every size of the *)
(* socket's buffers and all lengths that the client sends.                 *)
(***************************************************************************)
EXTENDS TcpConnection, SequenceTheorems, TLAPS

-----------------------------------------------------------------------------
(***************************************************************************)
(* The channel.                                                            *)
(***************************************************************************)
LEMMA UpdateFacts ==
  ASSUME NEW c, c \in ChannelType
  PROVE  /\ updateChannel(c) \in ChannelType /\ updateChannel(c).events = c.events
         /\ mapped(c) => mapped(updateChannel(c))
         /\ mapped(c) /\ noEvent(c) => updateChannel(c).status = NOT_LISTEN
         /\ mapped(c) /\ ~noEvent(c) => updateChannel(c).status = LISTEN
         /\ c.status = INIT => updateChannel(c).status = LISTEN
BY DEF updateChannel, ChannelType, Statuses, INIT, LISTEN, DELETED, NOT_LISTEN, mapped, noEvent

\* A change of events_ alone.
LEMMA EventsType ==
  ASSUME NEW c, c \in ChannelType, NEW e \in SUBSET {"read", "write"}
  PROVE  /\ [c EXCEPT !.events = e] \in ChannelType
         /\ [c EXCEPT !.events = e].events = e /\ [c EXCEPT !.events = e].status = c.status
BY DEF ChannelType

\* What the operations on a channel do to what it wants to hear of.
LEMMA ChannelFacts ==
  ASSUME NEW c, c \in ChannelType
  PROVE  /\ enableReading(c) \in ChannelType /\ enableReading(c).events = c.events \cup {"read"}
         /\ disableReading(c) \in ChannelType /\ disableReading(c).events = c.events \ {"read"}
         /\ enableWriting(c) \in ChannelType /\ enableWriting(c).events = c.events \cup {"write"}
         /\ disableWriting(c) \in ChannelType /\ disableWriting(c).events = c.events \ {"write"}
         /\ disableAll(c) \in ChannelType /\ disableAll(c).events = {}
         /\ removeChannel(c) \in ChannelType /\ removeChannel(c).events = c.events
         /\ removeChannel(c).status = DELETED
         /\ mapped(c) => /\ mapped(enableReading(c)) /\ mapped(disableReading(c))
                         /\ mapped(enableWriting(c)) /\ mapped(disableWriting(c))
                         /\ disableAll(c).status = NOT_LISTEN
         /\ mapped(c) /\ c.events = {} => disableReading(c).status = NOT_LISTEN
         /\ c.status = INIT => enableReading(c).status = LISTEN
<1>1. c.events \in SUBSET {"read", "write"}
  BY DEF ChannelType
<1> DEFINE with(e) == [c EXCEPT !.events = e]
<1>2. ASSUME NEW e \in SUBSET {"read", "write"}
      PROVE  /\ updateChannel(with(e)) \in ChannelType /\ updateChannel(with(e)).events = e
             /\ mapped(c) => mapped(updateChannel(with(e)))
             /\ mapped(c) /\ e = {} => updateChannel(with(e)).status = NOT_LISTEN
             /\ c.status = INIT => updateChannel(with(e)).status = LISTEN
  <2>1. with(e) \in ChannelType /\ with(e).events = e /\ with(e).status = c.status
    BY EventsType
  <2>2. (mapped(with(e)) <=> mapped(c)) /\ (noEvent(with(e)) <=> e = {})
    BY <2>1 DEF mapped, noEvent
  <2> HIDE DEF with
  <2> QED BY <2>1, <2>2, UpdateFacts
<1>3. enableReading(c) = updateChannel(with(c.events \cup {"read"}))
  BY DEF enableReading
<1>4. disableReading(c) = updateChannel(with(c.events \ {"read"}))
  BY DEF disableReading
<1>5. enableWriting(c) = updateChannel(with(c.events \cup {"write"}))
  BY DEF enableWriting
<1>6. disableWriting(c) = updateChannel(with(c.events \ {"write"}))
  BY DEF disableWriting
<1>7. disableAll(c) = updateChannel(with({}))
  BY DEF disableAll
<1>8. /\ removeChannel(c) \in ChannelType /\ removeChannel(c).events = c.events
      /\ removeChannel(c).status = DELETED
  BY DEF removeChannel, ChannelType, Statuses
<1> HIDE DEF with
<1>9. c.events \cup {"read"} \in SUBSET {"read", "write"}
          /\ c.events \ {"read"} \in SUBSET {"read", "write"}
  BY <1>1
<1>10. c.events \cup {"write"} \in SUBSET {"read", "write"}
           /\ c.events \ {"write"} \in SUBSET {"read", "write"}
  BY <1>1
<1>11. {} \in SUBSET {"read", "write"} /\ (c.events = {} => c.events \ {"read"} = {})
  OBVIOUS
<1> QED BY <1>2, <1>3, <1>4, <1>5, <1>6, <1>7, <1>8, <1>9, <1>10, <1>11

-----------------------------------------------------------------------------
(***************************************************************************)
(* The socket.                                                             *)
(***************************************************************************)
LEMMA RearmFacts ==
  ASSUME NEW s, s \in SocketType, NEW c
  PROVE  /\ Rearm(s, c) \in SocketType /\ Rearm(s, c).rst = s.rst /\ Rearm(s, c).fin = s.fin
         /\ Rearm(s, c).inflight = s.inflight /\ Rearm(s, c).finSent = s.finSent
         /\ Rearm(s, c).rcvd = s.rcvd
<1>1. PICK b \in BOOLEAN : b = (s.edge \/ Mask(s) \cap Interest(c) # {})
  OBVIOUS
<1>2. Rearm(s, c) = [s EXCEPT !.edge = b]
  BY <1>1 DEF Rearm
<1> QED BY <1>2 DEF SocketType

\* Reading SO_ERROR may clear the error, never the reset.
LEMMA SockErrorFacts ==
  ASSUME NEW s, s \in SocketType
  PROVE  /\ SockError(s) \in SocketType /\ (SockError(s).rst = "none" <=> s.rst = "none")
         /\ SockError(s).fin = s.fin
         /\ SockError(s).inflight = s.inflight /\ SockError(s).finSent = s.finSent
         /\ SockError(s).rcvd = s.rcvd
BY DEF SockError, SocketType

\* A write of k bytes fills the send buffer by k.
LEMMA WrittenFacts ==
  ASSUME NEW s, s \in SocketType, NEW k \in Nat, k <= SndBuf - s.inflight
  PROVE  /\ Written(s, k) \in SocketType /\ Written(s, k).rst = s.rst
         /\ Written(s, k).fin = s.fin
         /\ Written(s, k).inflight = s.inflight + k /\ Written(s, k).finSent = s.finSent
<1>1. s.inflight + k \in 0..SndBuf
  BY BoundsAssumption DEF SocketType
<1> QED BY <1>1 DEF Written, SocketType

\* A write takes all if it fits, and otherwise what the send buffer has room for.
LEMMA AcceptsFacts ==
  ASSUME NEW s, s \in SocketType, NEW n \in Nat
  PROVE  /\ Accepts(s, n) \in Nat /\ Accepts(s, n) <= n /\ Accepts(s, n) <= SndBuf - s.inflight
         /\ s.inflight + n <= SndBuf => Accepts(s, n) = n
         /\ Accepts(s, n) < n => s.inflight + n > SndBuf
<1>1. s.inflight \in 0..SndBuf
  BY DEF SocketType
<1> QED BY <1>1, BoundsAssumption DEF Accepts, Min2

\* shutdownWriteInLoop sends a FIN only if the channel is not writing.
LEMMA ShutdownFacts ==
  ASSUME NEW s, s \in SocketType, NEW c
  PROVE  /\ shutdownWriteInLoop(s, c) \in SocketType
         /\ shutdownWriteInLoop(s, c).rst = s.rst
         /\ shutdownWriteInLoop(s, c).inflight = s.inflight
         /\ shutdownWriteInLoop(s, c).finSent => s.finSent \/ ~isWriting(c)
BY DEF shutdownWriteInLoop, ShutdownWrite, SocketType

-----------------------------------------------------------------------------
(***************************************************************************)
(* Types.                                                                  *)
(***************************************************************************)
LEMMA TypeInit == Init => TypeOK
<1> SUFFICES ASSUME Init PROVE TypeOK
  OBVIOUS
<1>1. NewChannel \in ChannelType
  BY DEF NewChannel, ChannelType, Statuses
<1>2. sock \in SocketType
  BY BoundsAssumption DEF Init, SocketType
<1>3. << >> \in Seq(Nat) /\ << >> \in Seq(FunctorKinds)
  OBVIOUS
<1>4. tpc \in [Threads -> {"idle", "tested", "set", "gone"}]
  BY DEF Init
<1>5. /\ state_ \in States /\ reading_ \in BOOLEAN /\ connectSet_ \in BOOLEAN
      /\ held \in BOOLEAN /\ pc \in PCs /\ ret \in {"write", "functors"}
  BY DEF Init, States, PCs
<1>6. /\ accepted \in Nat /\ calls \in 0..MaxCalls /\ newConn \in 0..2 /\ destroys \in Nat
  BY BoundsAssumption DEF Init
<1>7. /\ lapses \subseteq Lapses /\ revents_ \subseteq {"IN", "RDHUP", "OUT", "HUP", "ERR"}
      /\ destroyed \in BOOLEAN /\ aborted \in BOOLEAN /\ killed \in BOOLEAN
  BY DEF Init
<1>8. /\ channel_ \in ChannelType /\ outputBuffer_ \in Seq(Nat) /\ wire \in Seq(Nat)
      /\ pendingFunctors_ \in Seq(FunctorKinds) /\ functors \in Seq(FunctorKinds)
  BY <1>1, <1>3 DEF Init
<1> QED BY <1>2, <1>4, <1>5, <1>6, <1>7, <1>8 DEF TypeOK

\* Queueing a functor keeps the type of the queue.
LEMMA QueueType ==
  ASSUME NEW q \in Seq(FunctorKinds), NEW f \in FunctorKinds
  PROVE  Append(q, f) \in Seq(FunctorKinds) /\ QueueWriteComplete(q) \in Seq(FunctorKinds)
<1>1. "writeComplete" \in FunctorKinds
  BY DEF FunctorKinds
<1> HIDE DEF FunctorKinds
<1> QED BY <1>1 DEF QueueWriteComplete

\* handleClose, and the code that comes without it.
LEMMA CloseType ==
  ASSUME TypeOK, HandleClose \/ NoClose
  PROVE  /\ state_' \in States /\ channel_' \in ChannelType
         /\ pendingFunctors_' \in Seq(FunctorKinds)
         /\ connectSet_' \in BOOLEAN /\ outputBuffer_' \in Seq(Nat) /\ aborted' \in BOOLEAN
<1>1. "connectDestroyed" \in FunctorKinds
  BY DEF FunctorKinds
<1> HIDE DEF FunctorKinds
<1>2. CASE HandleClose
  <2>1. disableAll(channel_) \in ChannelType
    BY ChannelFacts DEF TypeOK
  <2>2. Append(pendingFunctors_, "connectDestroyed") \in Seq(FunctorKinds)
    BY <1>1, QueueType DEF TypeOK
  <2> QED BY <1>2, <2>1, <2>2 DEF HandleClose, removeConnection, TypeOK, States
<1>3. CASE NoClose
  BY <1>3 DEF NoClose, TypeOK
<1> QED BY <1>2, <1>3

\* TypeOK is kept by the peer,
LEMMA PeerType ==
  ASSUME TypeOK, PeerSends \/ PeerCloses \/ PeerResets \/ PeerReads
  PROVE  TypeOK'
<1>0. /\ sock \in SocketType /\ sock.rcvd \in 0..MaxIn /\ sock.inflight \in 0..SndBuf
      /\ sock.edge \in BOOLEAN
  BY DEF TypeOK, SocketType
<1>1. sock' \in SocketType
  <2>1. CASE PeerSends
    <3>1. sock.rcvd + 1 \in 0..MaxIn
      BY <1>0, <2>1, BoundsAssumption DEF PeerSends
    <3> QED BY <1>0, <2>1, <3>1 DEF PeerSends, PeerEvent, SocketType
  <2>2. CASE PeerCloses
    BY <1>0, <2>2 DEF PeerCloses, PeerEvent, SocketType
  <2>3. CASE PeerResets
    BY <1>0, <2>3 DEF PeerResets, PeerEvent, SocketType
  <2>4. CASE PeerReads
    <3>1. sock.inflight - 1 \in 0..SndBuf
      BY <1>0, <2>4, BoundsAssumption DEF PeerReads
    <3>2. PICK b \in BOOLEAN : b = (sock.edge \/ sock.inflight = SndBuf)
      OBVIOUS
    <3>3. sock' = [sock EXCEPT !.inflight = sock.inflight - 1, !.edge = b]
      BY <2>4, <3>2 DEF PeerReads, PeerEvent
    <3> QED BY <1>0, <3>1, <3>3 DEF SocketType
  <2> QED BY <2>1, <2>2, <2>3, <2>4
<1> QED BY <1>1 DEF PeerSends, PeerCloses, PeerResets, PeerReads, PeerEvent, TypeOK,
                    loopVars, connVars, histVars, envVars, ends

\* by the stages of handleEvent before handleWrite,
LEMMA StageType ==
  ASSUME TypeOK, Poll \/ CloseStage \/ ErrorStage \/ ReadStage
  PROVE  TypeOK'
<1>1. CASE Poll
  <2>1. sock' \in SocketType
    BY <1>1 DEF Poll, TypeOK, SocketType
  <2>2. Reported \subseteq {"IN", "RDHUP", "OUT", "HUP", "ERR"}
    BY DEF Reported, Mask
  <2> QED BY <1>1, <2>1, <2>2 DEF Poll, TypeOK, PCs, connVars, histVars, envVars, ends
<1>2. CASE CloseStage
  <2>1. HandleClose \/ NoClose
    BY <1>2 DEF CloseStage
  <2>2. sock' \in SocketType
    BY <1>2, RearmFacts DEF CloseStage, TypeOK
  <2> QED BY <1>2, <2>1, <2>2, CloseType DEF CloseStage, TypeOK, PCs, histVars, envVars
<1>3. CASE ErrorStage
  <2>1. sock' \in SocketType
    BY <1>3, SockErrorFacts DEF ErrorStage, TypeOK
  <2> QED BY <1>3, <2>1 DEF ErrorStage, TypeOK, PCs, connVars, histVars, envVars, ends
<1>4. CASE ReadStage
  <2>1. HandleClose \/ NoClose
    BY <1>4 DEF ReadStage
  <2>2. [sock EXCEPT !.rcvd = 0] \in SocketType
    <3>1. 0 \in 0..MaxIn
      BY BoundsAssumption
    <3> QED BY <3>1 DEF TypeOK, SocketType
  <2>3. sock' \in SocketType
    <3> DEFINE s == [sock EXCEPT !.rcvd = 0]
    <3>1. sock' \in {sock, s, SockError(s), Rearm(s, channel_')}
      BY <1>4 DEF ReadStage
    <3> HIDE DEF s
    <3> QED BY <2>2, <3>1, RearmFacts, SockErrorFacts DEF TypeOK, s
  <2>4. pc' \in PCs /\ ret' \in {"write", "functors"}
    BY <1>4 DEF ReadStage, TypeOK, PCs
  <2> QED BY <1>4, <2>1, <2>3, <2>4, CloseType DEF ReadStage, TypeOK, histVars, envVars
<1> QED BY <1>1, <1>2, <1>3, <1>4

\* A buffer is what was written of it followed by the rest.
LEMMA SplitSeq ==
  ASSUME NEW b \in Seq(Nat), NEW k \in 0..Len(b)
  PROVE  /\ SubSeq(b, 1, k) \in Seq(Nat) /\ SubSeq(b, k + 1, Len(b)) \in Seq(Nat)
         /\ Len(SubSeq(b, 1, k)) = k /\ Len(SubSeq(b, k + 1, Len(b))) = Len(b) - k
         /\ SubSeq(b, 1, k) \o SubSeq(b, k + 1, Len(b)) = b
<1>1. Len(b) \in Nat /\ k \in Nat /\ k <= Len(b)
  OBVIOUS
<1>2. /\ SubSeq(b, 1, k) \in Seq(Nat) /\ Len(SubSeq(b, 1, k)) = k
      /\ \A i \in 1..k : SubSeq(b, 1, k)[i] = b[i]
  BY <1>1
<1>3. /\ SubSeq(b, k + 1, Len(b)) \in Seq(Nat) /\ Len(SubSeq(b, k + 1, Len(b))) = Len(b) - k
      /\ \A i \in 1..(Len(b) - k) : SubSeq(b, k + 1, Len(b))[i] = b[k + i]
  BY <1>1
<1>4. SubSeq(b, 1, k) \o SubSeq(b, k + 1, Len(b)) = SubSeq(b, 1, Len(b))
  <2>1. 1 \in 1..(Len(b) + 1) /\ k \in (1 - 1)..Len(b) /\ Len(b) \in k..Len(b)
    BY <1>1
  <2> QED BY <2>1, ConcatAdjacentSubSeq
<1>5. SubSeq(b, 1, Len(b)) = b
  OBVIOUS
<1> QED BY <1>2, <1>3, <1>4, <1>5

\* What handleWrite does: nothing, or it writes k bytes, and if these were all it does
\* not want to hear of EPOLLOUT any more and completes a shutdown().
LEMMA WriteStageFacts ==
  ASSUME TypeOK, WriteStage
  PROVE  /\ sock' \in SocketType
         /\ \/ /\ UNCHANGED <<channel_, outputBuffer_, wire, pendingFunctors_>>
               /\ sock'.finSent = sock.finSent /\ sock'.inflight = sock.inflight
               /\ sock'.rst = "none" => sock.rst = "none"
            \/ \E k \in 1..Len(outputBuffer_) :
                 /\ isWriting(channel_)
                 /\ outputBuffer_' = SubSeq(outputBuffer_, k + 1, Len(outputBuffer_))
                 /\ wire' = wire \o SubSeq(outputBuffer_, 1, k)
                 /\ sock'.inflight = sock.inflight + k /\ sock'.rst = sock.rst
                 /\ \/ /\ sock'.finSent = sock.finSent
                       /\ UNCHANGED <<channel_, pendingFunctors_>>
                    \/ /\ outputBuffer_' = << >>
                       /\ channel_' = disableWriting(channel_)
                       /\ pendingFunctors_' = QueueWriteComplete(pendingFunctors_)
                       /\ sock'.finSent => sock.finSent \/ state_ = "kDisconnecting"
<1> DEFINE n == Len(outputBuffer_)
           k == IF WriteFails(sock) THEN 0 ELSE Accepts(sock, n)
           left == SubSeq(outputBuffer_, k + 1, n)
           quiet == "OUT" \notin revents_ \/ ~isWriting(channel_) \/ k = 0
<1>0. sock \in SocketType /\ outputBuffer_ \in Seq(Nat) /\ n \in Nat
  BY DEF TypeOK
<1>1. k \in 0..n /\ k <= SndBuf - sock.inflight
  <2>1. sock.inflight \in 0..SndBuf
    BY <1>0 DEF SocketType
  <2>2. CASE WriteFails(sock)
    <3>1. k = 0
      BY <2>2
    <3> QED BY <1>0, <2>1, <3>1, BoundsAssumption
  <2>3. CASE ~WriteFails(sock)
    <3>1. k = Accepts(sock, n)
      BY <2>3
    <3> HIDE DEF k, n
    <3> QED BY <1>0, <3>1, AcceptsFacts
  <2> QED BY <2>2, <2>3
<1>2. IF quiet
      THEN /\ sock' \in {SockError(sock), sock}
           /\ UNCHANGED <<channel_, outputBuffer_, wire, pendingFunctors_>>
      ELSE /\ outputBuffer_' = left
           /\ wire' = wire \o SubSeq(outputBuffer_, 1, k)
           /\ IF left # << >>
                THEN /\ sock' = Written(sock, k)
                     /\ UNCHANGED <<channel_, pendingFunctors_>>
                ELSE /\ channel_' = disableWriting(channel_)
                     /\ pendingFunctors_' = QueueWriteComplete(pendingFunctors_)
                     /\ sock' = LET s == Rearm(Written(sock, k), channel_')
                                IN IF state_ = "kDisconnecting"
                                     THEN shutdownWriteInLoop(s, channel_') ELSE s
  BY DEF WriteStage
<1> HIDE DEF k, left, n
<1>3. CASE quiet
  BY <1>0, <1>2, <1>3, SockErrorFacts
<1>4. CASE ~quiet
  <2>1. k \in 1..n /\ k \in Nat /\ isWriting(channel_)
    BY <1>0, <1>1, <1>4
  <2>2. /\ Written(sock, k) \in SocketType /\ Written(sock, k).rst = sock.rst
        /\ Written(sock, k).inflight = sock.inflight + k
        /\ Written(sock, k).finSent = sock.finSent
    BY <1>0, <1>1, <2>1, WrittenFacts
  <2>3. CASE left # << >>
    <3>1. sock' = Written(sock, k) /\ UNCHANGED <<channel_, pendingFunctors_>>
      BY <1>2, <1>4, <2>3
    <3> QED BY <1>2, <1>4, <2>1, <2>2, <3>1 DEF left, n
  <2>4. CASE left = << >>
    <3> DEFINE s == Rearm(Written(sock, k), channel_')
    <3>1. /\ channel_' = disableWriting(channel_)
          /\ pendingFunctors_' = QueueWriteComplete(pendingFunctors_)
          /\ sock' = IF state_ = "kDisconnecting" THEN shutdownWriteInLoop(s, channel_') ELSE s
      BY <1>2, <1>4, <2>4
    <3>2. s \in SocketType /\ s.rst = sock.rst /\ s.inflight = sock.inflight + k
          /\ s.finSent = sock.finSent
      BY <2>2, RearmFacts
    <3> HIDE DEF s
    <3>3. /\ sock' \in SocketType /\ sock'.rst = sock.rst /\ sock'.inflight = sock.inflight + k
          /\ sock'.finSent => sock.finSent \/ state_ = "kDisconnecting"
      BY <3>1, <3>2, ShutdownFacts
    <3> QED BY <1>2, <1>4, <2>1, <2>4, <3>1, <3>3 DEF left, n
  <2> QED BY <2>3, <2>4
<1> QED BY <1>3, <1>4

\* by handleWrite,
LEMMA WriteStageType ==
  ASSUME TypeOK, WriteStage
  PROVE  TypeOK'
<1>1. sock' \in SocketType /\ channel_' \in ChannelType /\ pendingFunctors_' \in Seq(FunctorKinds)
  <2>1. "writeComplete" \in FunctorKinds
    BY DEF FunctorKinds
  <2> HIDE DEF FunctorKinds
  <2>2. QueueWriteComplete(pendingFunctors_) \in Seq(FunctorKinds)
    BY <2>1, QueueType DEF TypeOK
  <2>3. disableWriting(channel_) \in ChannelType
    BY ChannelFacts DEF TypeOK
  <2> QED BY <2>2, <2>3, WriteStageFacts DEF TypeOK
<1>2. outputBuffer_' \in Seq(Nat) /\ wire' \in Seq(Nat)
  <2>1. outputBuffer_ \in Seq(Nat) /\ wire \in Seq(Nat)
    BY DEF TypeOK
  <2>2. ASSUME NEW k \in 1..Len(outputBuffer_)
        PROVE  /\ SubSeq(outputBuffer_, k + 1, Len(outputBuffer_)) \in Seq(Nat)
               /\ wire \o SubSeq(outputBuffer_, 1, k) \in Seq(Nat)
    <3>1. k \in 0..Len(outputBuffer_)
      OBVIOUS
    <3>2. SubSeq(outputBuffer_, 1, k) \in Seq(Nat)
      BY <2>1, <3>1, SplitSeq
    <3> QED BY <2>1, <3>1, <3>2, SplitSeq
  <2> QED BY <2>1, <2>2, WriteStageFacts
<1>3. /\ killed' \in BOOLEAN /\ pc' \in PCs
          /\ revents_' \subseteq {"IN", "RDHUP", "OUT", "HUP", "ERR"}
      /\ UNCHANGED <<functors, held, ret, reading_, connectSet_, state_,
                     accepted, calls, destroys, lapses, envVars, destroyed, aborted>>
  BY DEF WriteStage, PCs
<1> QED BY <1>1, <1>2, <1>3 DEF TypeOK, envVars

\* and by the functors.
LEMMA FunctorType ==
  ASSUME TypeOK, \/ SwapPending \/ AddConnect \/ ConnectEstablished \/ ForceCloseInLoop
                 \/ ConnectDestroyed \/ WriteComplete \/ BatchDone \/ CallbackReturns
  PROVE  TypeOK'
<1>r. ASSUME NEW kind, NEW next \in PCs, RunFunctor(kind, next)
      PROVE  /\ functors' \in Seq(FunctorKinds) /\ pc' \in PCs /\ ret' \in {"write", "functors"}
             /\ UNCHANGED <<held, revents_, wire, accepted, calls, lapses, envVars, destroyed,
                            killed>>
  <2> HIDE DEF FunctorKinds, PCs
  <2>1. functors \in Seq(FunctorKinds) /\ functors # << >>
    BY <1>r DEF RunFunctor, TypeOK
  <2>2. Tail(functors) \in Seq(FunctorKinds)
    BY <2>1
  <2> QED BY <1>r, <2>2 DEF RunFunctor
<1>n. "user" \in PCs /\ "functors" \in PCs /\ "poll" \in PCs
  BY DEF PCs
<1>1. CASE SwapPending
  <2>1. << >> \in Seq(FunctorKinds)
    OBVIOUS
  <2> QED BY <1>1, <1>n, <2>1 DEF SwapPending, TypeOK, connVars, histVars, envVars, ends
<1>2. CASE AddConnect
  BY <1>2, <1>r, <1>n DEF AddConnect, TypeOK, envVars
<1>3. CASE ConnectEstablished
  <2>1. channel_' \in ChannelType /\ sock' \in SocketType
    BY <1>3, ChannelFacts, RearmFacts DEF ConnectEstablished, TypeOK
  <2>2. state_' \in States /\ aborted' \in BOOLEAN
    BY <1>3 DEF ConnectEstablished, States
  <2> QED BY <1>3, <1>r, <1>n, <2>1, <2>2 DEF ConnectEstablished, TypeOK, envVars
<1>4. CASE ForceCloseInLoop
  <2>1. HandleClose \/ NoClose
    BY <1>4 DEF ForceCloseInLoop
  <2>2. sock' \in SocketType
    BY <1>4, RearmFacts DEF ForceCloseInLoop, TypeOK
  <2>3. RunFunctor("forceClose", "functors") /\ UNCHANGED <<reading_, destroys>>
    BY <1>4 DEF ForceCloseInLoop
  <2> QED BY <1>r, <1>n, <2>1, <2>2, <2>3, CloseType DEF TypeOK, envVars
<1>5. CASE ConnectDestroyed
  <2>1. disableAll(channel_) \in ChannelType /\ channel_ \in ChannelType
    BY ChannelFacts DEF TypeOK
  <2>2. channel_' \in ChannelType
    BY <1>5, <2>1, ChannelFacts DEF ConnectDestroyed
  <2>3. state_' \in States /\ destroys' \in Nat
    BY <1>5 DEF ConnectDestroyed, States, TypeOK
  <2>4. PICK next \in PCs : RunFunctor("connectDestroyed", next)
    BY <1>5, <1>n DEF ConnectDestroyed
  <2> QED BY <1>5, <1>r, <2>2, <2>3, <2>4 DEF ConnectDestroyed, TypeOK, envVars
<1>6. CASE WriteComplete
  BY <1>6, <1>r, <1>n DEF WriteComplete, TypeOK, envVars, connVars
<1>7. CASE BatchDone
  BY <1>7, <1>n DEF BatchDone, TypeOK, connVars, histVars, envVars
<1>8. CASE CallbackReturns
  <2>1. pc' \in PCs /\ ret' \in {"write", "functors"}
    BY <1>8 DEF CallbackReturns, TypeOK, PCs
  <2> QED BY <1>8, <2>1 DEF CallbackReturns, TypeOK, connVars, histVars, envVars, ends
<1> QED BY <1>1, <1>2, <1>3, <1>4, <1>5, <1>6, <1>7, <1>8

\* The bytes of a send are the next n numbers.
LEMMA BytesType ==
  ASSUME TypeOK, NEW n \in Nat
  PROVE  /\ Bytes(n) \in Seq(Nat) /\ Len(Bytes(n)) = n
         /\ \A i \in 1..n : Bytes(n)[i] = accepted + i
<1>1. accepted \in Nat
  BY DEF TypeOK
<1>2. \A i \in 1..n : accepted + i \in Nat
  BY <1>1
<1> QED BY <1>2 DEF Bytes

\* sendInLoop asks for EPOLLOUT and keeps the channel registered.
LEMMA EpolloutFacts ==
  ASSUME NEW c, c \in ChannelType
  PROVE  /\ applyEpollout(c) \in ChannelType
         /\ applyEpollout(c).events = c.events \cup {"write"}
         /\ mapped(c) => mapped(applyEpollout(c))
<1>1. CASE isWriting(c)
  BY <1>1 DEF applyEpollout, isWriting
<1>2. CASE ~isWriting(c)
  BY <1>2, ChannelFacts DEF applyEpollout
<1> QED BY <1>1, <1>2

\* What a send of n bytes writes at once: k of them, none if output is waiting or the
\* write fails, and all of them if they fit.
DirectWrite(n, k) ==
  /\ k \in 0..n
  /\ wire' = wire \o SubSeq(Bytes(n), 1, k)
  /\ sock' \in SocketType /\ sock'.finSent = sock.finSent
  /\ sock'.inflight = sock.inflight + k
  /\ sock'.rst = "none" <=> sock.rst = "none"
  /\ WriteNow /\ ~WriteFails(sock) /\ k < n => sock.inflight + n > SndBuf
  /\ k > 0 => WriteNow /\ ~WriteFails(sock)
  /\ pendingFunctors_' \in {pendingFunctors_, QueueWriteComplete(pendingFunctors_)}

\* sendInLoop keeps what it does not write, unless the write has failed.
LEMMA SendFacts ==
  ASSUME TypeOK, NEW n \in Nat \ {0}, Send(n)
  PROVE  \E k \in 0..n :
           /\ DirectWrite(n, k)
           /\ \/ /\ UNCHANGED <<outputBuffer_, channel_>>
                 /\ k = n \/ (WriteNow /\ WriteFails(sock) /\ k = 0)
              \/ /\ k < n /\ ~(WriteNow /\ WriteFails(sock))
                 /\ outputBuffer_' = outputBuffer_ \o SubSeq(Bytes(n), k + 1, n)
                 /\ channel_' = applyEpollout(channel_)
<1> DEFINE fault == WriteNow /\ WriteFails(sock)
           k == IF WriteNow /\ ~fault THEN Accepts(sock, n) ELSE 0
<1>0. sock \in SocketType /\ sock.inflight \in 0..SndBuf
  BY DEF TypeOK, SocketType
<1>1. /\ k \in 0..n /\ k <= SndBuf - sock.inflight
      /\ WriteNow /\ ~WriteFails(sock) /\ k < n => sock.inflight + n > SndBuf
      /\ k > 0 => WriteNow /\ ~fault
  <2>1. CASE WriteNow /\ ~fault
    <3>1. k = Accepts(sock, n)
      BY <2>1
    <3> HIDE DEF k
    <3> QED BY <1>0, <2>1, <3>1, AcceptsFacts
  <2>2. CASE ~(WriteNow /\ ~fault)
    <3>1. k = 0
      BY <2>2
    <3> QED BY <1>0, <2>2, <3>1, BoundsAssumption
  <2> QED BY <2>1, <2>2
<1>2. /\ wire' = wire \o SubSeq(Bytes(n), 1, k)
      /\ pendingFunctors_' \in {pendingFunctors_, QueueWriteComplete(pendingFunctors_)}
      /\ IF fault \/ k = n
           THEN /\ sock' = IF fault THEN SockError(sock) ELSE Written(sock, k)
                /\ UNCHANGED <<outputBuffer_, channel_>>
           ELSE /\ outputBuffer_' = outputBuffer_ \o SubSeq(Bytes(n), k + 1, n)
                /\ channel_' = applyEpollout(channel_)
                /\ sock' = IF channel_' = channel_ THEN Written(sock, k)
                           ELSE Rearm(Written(sock, k), channel_')
  BY DEF Send, sendInLoop
<1>3. fault => k = 0
  BY DEF k
<1> HIDE DEF k
<1>4. /\ Written(sock, k) \in SocketType /\ Written(sock, k).rst = sock.rst
      /\ Written(sock, k).inflight = sock.inflight + k
      /\ Written(sock, k).finSent = sock.finSent
  BY <1>0, <1>1, WrittenFacts
<1>5. DirectWrite(n, k)
  <2>1. /\ sock' \in SocketType /\ sock'.finSent = sock.finSent
        /\ sock'.inflight = sock.inflight + k
        /\ sock'.rst = "none" <=> sock.rst = "none"
    <3>1. CASE fault
      BY <1>0, <1>2, <1>3, <3>1, SockErrorFacts
    <3>2. CASE ~fault
      <4>1. sock' \in {Written(sock, k), Rearm(Written(sock, k), channel_')}
        BY <1>2, <3>2
      <4> QED BY <1>4, <4>1, RearmFacts
    <3> QED BY <3>1, <3>2
  <2> QED BY <1>1, <1>2, <2>1 DEF DirectWrite
<1>6. \/ /\ UNCHANGED <<outputBuffer_, channel_>>
         /\ k = n \/ (WriteNow /\ WriteFails(sock) /\ k = 0)
      \/ /\ k < n /\ ~(WriteNow /\ WriteFails(sock))
         /\ outputBuffer_' = outputBuffer_ \o SubSeq(Bytes(n), k + 1, n)
         /\ channel_' = applyEpollout(channel_)
  <2>1. k = n \/ k < n
    BY <1>1
  <2>2. fault \/ k = n => UNCHANGED <<outputBuffer_, channel_>>
    BY <1>2
  <2>3. ~(fault \/ k = n) => /\ outputBuffer_' = outputBuffer_ \o SubSeq(Bytes(n), k + 1, n)
                             /\ channel_' = applyEpollout(channel_)
    BY <1>2
  <2> QED BY <1>3, <2>1, <2>2, <2>3, Zenon
<1> QED BY <1>1, <1>5, <1>6

\* For a file it drops the rest, which is recorded as a lapse.
LEMMA SendFileFacts ==
  ASSUME TypeOK, NEW n \in Nat \ {0}, SendFile(n)
  PROVE  \E k \in 0..n :
           /\ DirectWrite(n, k)
           /\ UNCHANGED outputBuffer_
           /\ \/ channel_' = channel_
              \/ 0 < k /\ k < n /\ channel_' = applyEpollout(channel_)
           /\ k < n /\ ~(WriteNow /\ WriteFails(sock)) => "fileCut" \in lapses'
           /\ lapses' \in {lapses, lapses \cup {"fileCut"}}
<1> DEFINE fault == WriteNow /\ WriteFails(sock)
           k == IF WriteNow /\ ~fault THEN Accepts(sock, n) ELSE 0
           partly == 0 < k /\ k < n
<1>0. sock \in SocketType /\ sock.inflight \in 0..SndBuf
  BY DEF TypeOK, SocketType
<1>1. /\ k \in 0..n /\ k <= SndBuf - sock.inflight
      /\ WriteNow /\ ~WriteFails(sock) /\ k < n => sock.inflight + n > SndBuf
      /\ k > 0 => WriteNow /\ ~fault
  <2>1. CASE WriteNow /\ ~fault
    <3>1. k = Accepts(sock, n)
      BY <2>1
    <3> HIDE DEF k
    <3> QED BY <1>0, <2>1, <3>1, AcceptsFacts
  <2>2. CASE ~(WriteNow /\ ~fault)
    <3>1. k = 0
      BY <2>2
    <3> QED BY <1>0, <2>2, <3>1, BoundsAssumption
  <2> QED BY <2>1, <2>2
<1>2. /\ wire' = wire \o SubSeq(Bytes(n), 1, k)
      /\ pendingFunctors_' \in {pendingFunctors_, QueueWriteComplete(pendingFunctors_)}
      /\ channel_' = IF partly THEN applyEpollout(channel_) ELSE channel_
      /\ sock' = CASE fault  -> SockError(sock)
                   [] partly -> Rearm(Written(sock, k), channel_')
                   [] OTHER  -> Written(sock, k)
      /\ lapses' = lapses \cup (IF k < n /\ ~fault THEN {"fileCut"} ELSE {})
      /\ UNCHANGED outputBuffer_
  BY DEF SendFile, sendFileInLoop
<1>3. fault => k = 0
  BY DEF k
<1> HIDE DEF k
<1>4. /\ Written(sock, k) \in SocketType /\ Written(sock, k).rst = sock.rst
      /\ Written(sock, k).inflight = sock.inflight + k
      /\ Written(sock, k).finSent = sock.finSent
  BY <1>0, <1>1, WrittenFacts
<1>5. DirectWrite(n, k)
  <2>1. /\ sock' \in SocketType /\ sock'.finSent = sock.finSent
        /\ sock'.inflight = sock.inflight + k
        /\ sock'.rst = "none" <=> sock.rst = "none"
    <3>1. CASE fault
      BY <1>0, <1>2, <1>3, <3>1, SockErrorFacts
    <3>2. CASE ~fault
      <4>1. sock' \in {Written(sock, k), Rearm(Written(sock, k), channel_')}
        BY <1>2, <3>2
      <4> QED BY <1>4, <4>1, RearmFacts
    <3> QED BY <3>1, <3>2
  <2> QED BY <1>1, <1>2, <2>1 DEF DirectWrite
<1>6. /\ channel_' = channel_ \/ (0 < k /\ k < n /\ channel_' = applyEpollout(channel_))
      /\ k < n /\ ~(WriteNow /\ WriteFails(sock)) => "fileCut" \in lapses'
      /\ lapses' \in {lapses, lapses \cup {"fileCut"}}
  BY <1>2
<1> QED BY <1>1, <1>2, <1>5, <1>6

\* The sequences after a direct write.
LEMMA DirectType ==
  ASSUME TypeOK, NEW n \in Nat, NEW k \in 0..n, DirectWrite(n, k)
  PROVE  /\ SubSeq(Bytes(n), 1, k) \in Seq(Nat) /\ Len(SubSeq(Bytes(n), 1, k)) = k
         /\ SubSeq(Bytes(n), k + 1, n) \in Seq(Nat)
         /\ Len(SubSeq(Bytes(n), k + 1, n)) = n - k
         /\ wire' \in Seq(Nat) /\ Len(wire') = Len(wire) + k
         /\ pendingFunctors_' \in Seq(FunctorKinds) /\ sock' \in SocketType
<1>1. Bytes(n) \in Seq(Nat) /\ Len(Bytes(n)) = n
  BY BytesType
<1>2. PICK b \in Seq(Nat) : b = Bytes(n)
  BY <1>1
<1>3. k \in 0..Len(b) /\ Len(b) = n
  BY <1>1, <1>2
<1>4. /\ SubSeq(b, 1, k) \in Seq(Nat) /\ SubSeq(b, k + 1, n) \in Seq(Nat)
      /\ Len(SubSeq(b, 1, k)) = k /\ Len(SubSeq(b, k + 1, n)) = n - k
  BY <1>3, SplitSeq
<1>5. PICK d \in Seq(Nat) : d = SubSeq(b, 1, k) /\ Len(d) = k
  BY <1>4
<1>6. wire \in Seq(Nat) /\ wire' = wire \o d
  BY <1>2, <1>5 DEF TypeOK, DirectWrite
<1>7. wire' \in Seq(Nat) /\ Len(wire') = Len(wire) + k
  BY <1>5, <1>6
<1>8. pendingFunctors_' \in Seq(FunctorKinds)
  <2>1. "writeComplete" \in FunctorKinds
    BY DEF FunctorKinds
  <2> HIDE DEF FunctorKinds
  <2>2. QueueWriteComplete(pendingFunctors_) \in Seq(FunctorKinds)
    BY <2>1, QueueType DEF TypeOK
  <2> QED BY <2>2 DEF TypeOK, DirectWrite
<1> QED BY <1>2, <1>4, <1>7, <1>8 DEF DirectWrite

\* TypeOK is kept by the calls of the client's callbacks,
LEMMA UserType ==
  ASSUME TypeOK, UserStep
  PROVE  TypeOK'
<1>c. /\ calls' \in 0..MaxCalls /\ functors' = functors /\ held' = held /\ pc' = pc /\ ret' = ret
      /\ revents_' = revents_ /\ connectSet_' = connectSet_ /\ destroys' = destroys
      /\ newConn' = newConn /\ tpc' = tpc /\ destroyed' = destroyed /\ aborted' = aborted
  <2>1. PICK op \in AllOps : UserCalls(op)
    BY DEF UserStep, Send, SendFile, Shutdown, ForceClose, StartRead, StopRead, AllOps
  <2>2. calls \in 0..MaxCalls /\ calls < MaxCalls /\ calls' = calls + 1
    BY <2>1 DEF UserCalls, TypeOK
  <2>3. calls' \in 0..MaxCalls
    BY <2>2, BoundsAssumption
  <2> QED BY <2>1, <2>3 DEF UserCalls, envVars
<1>1. ASSUME NEW n \in SendSizes, Send(n)
      PROVE  TypeOK'
  <2>0. n \in Nat \ {0}
    BY BoundsAssumption
  <2>1. PICK k \in 0..n :
           /\ DirectWrite(n, k)
           /\ \/ UNCHANGED <<outputBuffer_, channel_>>
              \/ /\ outputBuffer_' = outputBuffer_ \o SubSeq(Bytes(n), k + 1, n)
                 /\ channel_' = applyEpollout(channel_)
    BY <1>1, <2>0, SendFacts
  <2>2. /\ SubSeq(Bytes(n), k + 1, n) \in Seq(Nat) /\ wire' \in Seq(Nat)
        /\ pendingFunctors_' \in Seq(FunctorKinds) /\ sock' \in SocketType
    BY <2>0, <2>1, DirectType
  <2>3. outputBuffer_ \in Seq(Nat) /\ channel_ \in ChannelType
    BY DEF TypeOK
  <2>4. outputBuffer_' \in Seq(Nat)
    <3>1. outputBuffer_ \o SubSeq(Bytes(n), k + 1, n) \in Seq(Nat)
      BY <2>2, <2>3, ConcatProperties
    <3> QED BY <2>1, <2>3, <3>1
  <2>5. channel_' \in ChannelType
    BY <2>1, <2>3, EpolloutFacts
  <2>6. accepted' \in Nat /\ UNCHANGED <<state_, reading_, lapses>>
    BY <1>1, <2>0 DEF Send, Sends, TypeOK
  <2>7. killed' \in {FALSE, WriteNow /\ SigPipe(sock)}
    BY <1>1 DEF Send, sendInLoop
  <2>8. killed' \in BOOLEAN
    BY <2>7
  <2> QED BY <1>c, <2>2, <2>4, <2>5, <2>6, <2>8 DEF TypeOK
<1>2. ASSUME NEW n \in FileSizes, SendFile(n)
      PROVE  TypeOK'
  <2>0. n \in Nat \ {0}
    BY BoundsAssumption
  <2>1. PICK k \in 0..n :
           /\ DirectWrite(n, k)
           /\ UNCHANGED outputBuffer_
           /\ channel_' = channel_ \/ channel_' = applyEpollout(channel_)
           /\ lapses' \in {lapses, lapses \cup {"fileCut"}}
    BY <1>2, <2>0, SendFileFacts
  <2>2. /\ wire' \in Seq(Nat)
        /\ pendingFunctors_' \in Seq(FunctorKinds) /\ sock' \in SocketType
    BY <2>0, <2>1, DirectType
  <2>3. channel_' \in ChannelType
    BY <2>1, EpolloutFacts DEF TypeOK
  <2>4. lapses' \subseteq Lapses
    BY <2>1 DEF TypeOK, Lapses
  <2>5. accepted' \in Nat /\ UNCHANGED <<state_, reading_>>
    BY <1>2, <2>0 DEF SendFile, Sends, TypeOK
  <2>6. killed' \in {FALSE, WriteNow /\ SigPipe(sock)}
    BY <1>2 DEF SendFile, sendFileInLoop
  <2>7. killed' \in BOOLEAN
    BY <2>6
  <2> QED BY <1>c, <2>1, <2>2, <2>3, <2>4, <2>5, <2>7 DEF TypeOK
<1>3. CASE Shutdown
  <2>1. sock' \in SocketType
    BY <1>3, ShutdownFacts DEF Shutdown, TypeOK
  <2>2. state_' \in States
    BY <1>3 DEF Shutdown, States
  <2> QED BY <1>c, <1>3, <2>1, <2>2 DEF Shutdown, TypeOK
<1>4. CASE ForceClose
  <2>1. "forceClose" \in FunctorKinds /\ "kDisconnecting" \in States
    BY DEF FunctorKinds, States
  <2>2. Append(pendingFunctors_, "forceClose") \in Seq(FunctorKinds)
    BY <2>1, QueueType DEF TypeOK
  <2> QED BY <1>c, <1>4, <2>1, <2>2 DEF ForceClose, TypeOK
<1>5. CASE StartRead
  <2>1. channel_' \in ChannelType /\ sock' \in SocketType
    BY <1>5, ChannelFacts, RearmFacts DEF StartRead, TypeOK
  <2>2. lapses' \subseteq Lapses /\ reading_' \in BOOLEAN
    BY <1>5 DEF StartRead, TypeOK, Lapses
  <2> QED BY <1>c, <1>5, <2>1, <2>2 DEF StartRead, TypeOK
<1>6. CASE StopRead
  <2>1. channel_' \in ChannelType /\ sock' \in SocketType /\ reading_' \in BOOLEAN
    BY <1>6, ChannelFacts, RearmFacts DEF StopRead, TypeOK
  <2> QED BY <1>c, <1>6, <2>1 DEF StopRead, TypeOK
<1> QED BY <1>1, <1>2, <1>3, <1>4, <1>5, <1>6 DEF UserStep

\* and by forceClose in another thread;
LEMMA ThreadType ==
  ASSUME TypeOK, NEW t \in Threads, ThreadStep(t)
  PROVE  TypeOK'
<1> DEFINE At == {"idle", "tested", "set", "gone"}
<1>1. ASSUME NEW from, NEW to \in At, ThreadAt(t, from, to)
      PROVE  /\ tpc' \in [Threads -> At]
             /\ UNCHANGED <<functors, held, pc, ret, revents_, reading_, channel_,
                 outputBuffer_, connectSet_, sock, wire, accepted, destroys, newConn>>
  BY <1>1 DEF ThreadAt, TypeOK
<1>2. "idle" \in At /\ "tested" \in At /\ "set" \in At /\ "gone" \in At
  OBVIOUS
<1> HIDE DEF At
<1>3. "kDisconnecting" \in States /\ "forceClose" \in FunctorKinds
  BY DEF States, FunctorKinds
<1>4. CASE ForceCloseTest(t)
  <2>1. ThreadAt(t, "idle", "tested") /\ UNCHANGED <<pendingFunctors_, state_, lapses, ends>>
    BY <1>4 DEF ForceCloseTest
  <2>2. calls' \in 0..MaxCalls
    BY <1>4, BoundsAssumption DEF ForceCloseTest, TypeOK
  <2> QED BY <1>1, <1>2, <2>1, <2>2 DEF TypeOK, ends, At
<1>5. CASE ForceCloseSet(t)
  <2>1. ThreadAt(t, "tested", "set") /\ UNCHANGED <<pendingFunctors_, calls, ends>>
    BY <1>5 DEF ForceCloseSet
  <2>2. state_' \in States /\ lapses' \subseteq Lapses
    BY <1>3, <1>5 DEF ForceCloseSet, TypeOK, Lapses
  <2> QED BY <1>1, <1>2, <2>1, <2>2 DEF TypeOK, ends, At
<1>6. CASE ForceCloseQueue(t)
  <2>1. ThreadAt(t, "set", "idle") /\ UNCHANGED <<state_, calls, lapses, ends>>
    BY <1>6 DEF ForceCloseQueue
  <2>2. pendingFunctors_' \in Seq(FunctorKinds)
    BY <1>3, <1>6, QueueType DEF ForceCloseQueue, TypeOK
  <2> QED BY <1>1, <1>2, <2>1, <2>2 DEF TypeOK, ends, At
<1>7. CASE Release(t)
  <2>1. ThreadAt(t, "idle", "gone") /\ UNCHANGED <<pendingFunctors_, state_, calls, lapses, killed>>
    BY <1>7 DEF Release
  <2>2. destroyed' \in BOOLEAN /\ aborted' \in BOOLEAN
    BY <1>7 DEF Release
  <2> QED BY <1>1, <1>2, <2>1, <2>2 DEF TypeOK, At
<1> QED BY <1>4, <1>5, <1>6, <1>7 DEF ThreadStep

\* so every step keeps it.
LEMMA TypeStep ==
  ASSUME TypeOK, [Next]_vars
  PROVE  TypeOK'
<1>1. CASE UNCHANGED vars
  BY <1>1 DEF vars, loopVars, connVars, histVars, envVars, ends, TypeOK
<1>2. CASE NewConnection
  <2>1. newConn' \in 0..2
    BY <1>2 DEF NewConnection, TypeOK
  <2>2. pendingFunctors_' \in Seq(FunctorKinds)
    <3>1. "addConnect" \in FunctorKinds /\ "connectEstablished" \in FunctorKinds
      BY DEF FunctorKinds
    <3> HIDE DEF FunctorKinds
    <3> QED BY <1>2, <3>1, QueueType DEF NewConnection, TypeOK
  <2> QED BY <1>2, <2>1, <2>2 DEF NewConnection, TypeOK, connVars, histVars, ends
<1> QED BY <1>1, <1>2, PeerType, StageType, WriteStageType, FunctorType, UserType, ThreadType
        DEF Next, LoopStep, Over

-----------------------------------------------------------------------------
(***************************************************************************)
(* The queue of functors: a step leaves it alone, takes its head, appends  *)
(* to it, or both.                                                         *)
(***************************************************************************)
LEMMA AppendFacts ==
  ASSUME NEW q \in Seq(FunctorKinds), NEW f \in FunctorKinds
  PROVE  /\ \A kind : Contains(Append(q, f), kind) <=> Contains(q, kind) \/ f = kind
         /\ QuietAfter(q) /\ ~(f = "writeComplete" /\ Contains(q, "connectDestroyed"))
              => QuietAfter(Append(q, f))
         /\ DestroyOnce(q) /\ ~(f = "connectDestroyed" /\ Contains(q, "connectDestroyed"))
              => DestroyOnce(Append(q, f))
<1> HIDE DEF FunctorKinds
<1>0. Append(q, f) \in Seq(FunctorKinds)
  OBVIOUS
<1>1. PICK r \in Seq(FunctorKinds) : r = Append(q, f)
  BY <1>0, Zenon
<1>2. /\ Len(r) = Len(q) + 1 /\ Len(q) \in Nat /\ r[Len(q) + 1] = f
      /\ \A i \in 1..Len(q) : r[i] = q[i]
  BY <1>1
<1>3. \A i \in 1..Len(r) : i \in 1..Len(q) \/ i = Len(q) + 1
  BY <1>2
<1>4. \A i \in 1..Len(q) : i \in 1..Len(r)
  BY <1>2
<1>5. \A kind : Contains(r, kind) <=> Contains(q, kind) \/ f = kind
  BY <1>2, <1>3, <1>4 DEF Contains
<1>6. QuietAfter(q) /\ ~(f = "writeComplete" /\ Contains(q, "connectDestroyed")) => QuietAfter(r)
  BY <1>2, <1>3 DEF Contains, QuietAfter
<1>7. DestroyOnce(q) /\ ~(f = "connectDestroyed" /\ Contains(q, "connectDestroyed"))
        => DestroyOnce(r)
  BY <1>2, <1>3 DEF Contains, DestroyOnce
<1> QED BY <1>1, <1>5, <1>6, <1>7

\* The functors after the first one is run.
LEMMA TailFacts ==
  ASSUME NEW q \in Seq(FunctorKinds), q # << >>
  PROVE  /\ \A kind : Contains(q, kind) <=> Head(q) = kind \/ Contains(Tail(q), kind)
         /\ QuietAfter(q) => QuietAfter(Tail(q))
         /\ QuietAfter(q) /\ Head(q) = "connectDestroyed" => ~Contains(Tail(q), "writeComplete")
         /\ DestroyOnce(q) => DestroyOnce(Tail(q))
         /\ DestroyOnce(q) /\ Head(q) = "connectDestroyed" => ~Contains(Tail(q), "connectDestroyed")
<1> HIDE DEF FunctorKinds
<1>0. Tail(q) \in Seq(FunctorKinds)
  OBVIOUS
<1>1. PICK r \in Seq(FunctorKinds) : r = Tail(q)
  BY <1>0, Zenon
<1>2. /\ Len(r) = Len(q) - 1 /\ Len(q) \in Nat /\ Len(q) > 0 /\ q[1] = Head(q)
      /\ \A i \in 1..Len(r) : r[i] = q[i + 1]
  BY <1>1
<1>3. \A i \in 1..Len(q) : i = 1 \/ (i - 1 \in 1..Len(r) /\ r[i - 1] = q[i])
  BY <1>2
<1>4. (\A i \in 1..Len(r) : i + 1 \in 1..Len(q) /\ 1 < i + 1) /\ 1 \in 1..Len(q)
  BY <1>2
<1>5. \A kind : Contains(q, kind) <=> Head(q) = kind \/ Contains(r, kind)
  <2> TAKE kind
  <2>1. ASSUME Contains(q, kind) PROVE Head(q) = kind \/ Contains(r, kind)
    BY <1>2, <1>3, <2>1 DEF Contains
  <2>2. ASSUME Contains(r, kind) PROVE Contains(q, kind)
    BY <1>2, <1>4, <2>2 DEF Contains
  <2>3. ASSUME Head(q) = kind PROVE Contains(q, kind)
    BY <1>2, <1>4, <2>3 DEF Contains
  <2> QED BY <2>1, <2>2, <2>3
<1>6. ASSUME QuietAfter(q) PROVE QuietAfter(r)
  <2>1. ASSUME NEW i \in 1..Len(r), NEW j \in 1..Len(r), i < j, r[i] = "connectDestroyed"
        PROVE  r[j] # "writeComplete"
    <3>1. i + 1 \in 1..Len(q) /\ j + 1 \in 1..Len(q) /\ i + 1 < j + 1
      BY <1>4, <2>1
    <3>2. r[i] = q[i + 1] /\ r[j] = q[j + 1]
      BY <1>2
    <3> QED BY <1>6, <2>1, <3>1, <3>2 DEF QuietAfter
  <2> QED BY <2>1 DEF QuietAfter
<1>7. QuietAfter(q) /\ Head(q) = "connectDestroyed" => ~Contains(r, "writeComplete")
  BY <1>2, <1>4 DEF QuietAfter, Contains
<1>8. DestroyOnce(q) => DestroyOnce(r)
  BY <1>2, <1>4 DEF DestroyOnce
<1>9. DestroyOnce(q) /\ Head(q) = "connectDestroyed" => ~Contains(r, "connectDestroyed")
  BY <1>2, <1>4 DEF DestroyOnce, Contains
<1> QED BY <1>1, <1>5, <1>6, <1>7, <1>8, <1>9

\* The batch that runs and the queue behind it are one sequence.
LEMMA ConcatFacts ==
  ASSUME NEW f \in Seq(FunctorKinds), NEW p \in Seq(FunctorKinds)
  PROVE  /\ f \o p \in Seq(FunctorKinds)
         /\ f \o p = << >> <=> f = << >> /\ p = << >>
         /\ \A x \in FunctorKinds : f \o Append(p, x) = Append(f \o p, x)
         /\ << >> \o p = p /\ p \o << >> = p
         /\ f # << >> => f \o p # << >> /\ Head(f \o p) = Head(f) /\ Tail(f \o p) = Tail(f) \o p
<1> HIDE DEF FunctorKinds
<1>1. f \o p \in Seq(FunctorKinds) /\ (f \o p = << >> <=> f = << >> /\ p = << >>)
  OBVIOUS
<1>2. \A x \in FunctorKinds : f \o Append(p, x) = Append(f \o p, x)
  OBVIOUS
<1>3. << >> \o p = p /\ p \o << >> = p
  OBVIOUS
<1>4. f # << >> => f \o p # << >> /\ Head(f \o p) = Head(f) /\ Tail(f \o p) = Tail(f) \o p
  OBVIOUS
<1> QED BY <1>1, <1>2, <1>3, <1>4

\* Queue follows the batch and pendingFunctors_; the swap does not change it.
LEMMA QueueMoves ==
  ASSUME TypeOK
  PROVE  /\ Queue \in Seq(FunctorKinds)
         /\ (Queue = << >> <=> functors = << >> /\ pendingFunctors_ = << >>)
         /\ UNCHANGED <<functors, pendingFunctors_>> => Queue' = Queue
         /\ \A x \in FunctorKinds :
              functors' = functors /\ pendingFunctors_' = Append(pendingFunctors_, x)
                => Queue' = Append(Queue, x)
         /\ functors = << >> /\ functors' = pendingFunctors_ /\ pendingFunctors_' = << >>
              => Queue' = Queue
         /\ functors # << >> => Queue # << >> /\ Head(Queue) = Head(functors)
         /\ functors # << >> /\ functors' = Tail(functors) /\ pendingFunctors_' = pendingFunctors_
              => Queue' = Tail(Queue)
         /\ \A x \in FunctorKinds :
              /\ functors # << >> /\ functors' = Tail(functors)
              /\ pendingFunctors_' = Append(pendingFunctors_, x)
              => Queue' = Append(Tail(Queue), x)
<1>1. PICK f \in Seq(FunctorKinds), p \in Seq(FunctorKinds) : f = functors /\ p = pendingFunctors_
  BY DEF TypeOK
<1>2. Queue = f \o p /\ Queue' = functors' \o pendingFunctors_'
  BY <1>1 DEF Queue
<1>3. << >> \in Seq(FunctorKinds)
  OBVIOUS
<1>t. f # << >> => Tail(f) \in Seq(FunctorKinds)
  OBVIOUS
<1> HIDE DEF FunctorKinds
<1>4. Queue \in Seq(FunctorKinds)
          /\ (Queue = << >> <=> functors = << >> /\ pendingFunctors_ = << >>)
  BY <1>1, <1>2, ConcatFacts
<1>5. UNCHANGED <<functors, pendingFunctors_>> => Queue' = Queue
  BY <1>1, <1>2
<1>6. ASSUME NEW x \in FunctorKinds, functors' = functors, pendingFunctors_'
          = Append(pendingFunctors_, x)
      PROVE  Queue' = Append(Queue, x)
  BY <1>1, <1>2, <1>6, ConcatFacts
<1>7. functors = << >> /\ functors' = pendingFunctors_ /\ pendingFunctors_' = << >> => Queue'
          = Queue
  BY <1>1, <1>2, <1>3, ConcatFacts
<1>8. functors # << >> => /\ Queue # << >> /\ Head(Queue) = Head(functors)
                          /\ Tail(Queue) = Tail(f) \o p
  BY <1>1, <1>2, ConcatFacts
<1>9. functors # << >> /\ functors' = Tail(functors) /\ pendingFunctors_' = pendingFunctors_
        => Queue' = Tail(Queue)
  BY <1>1, <1>2, <1>8
<1>10. ASSUME NEW x \in FunctorKinds, functors # << >>, functors' = Tail(functors),
              pendingFunctors_' = Append(pendingFunctors_, x)
       PROVE  Queue' = Append(Tail(Queue), x)
  <2>1. Tail(f) \in Seq(FunctorKinds) /\ Queue' = Tail(f) \o Append(p, x)
    BY <1>1, <1>2, <1>t, <1>10
  <2>2. Tail(f) \o Append(p, x) = Append(Tail(f) \o p, x)
    BY <2>1, ConcatFacts
  <2> QED BY <1>8, <1>10, <2>1, <2>2
<1> QED BY <1>4, <1>5, <1>6, <1>7, <1>8, <1>9, <1>10

\* What the queue can do in a step, and what that means for the functors it holds.
QueueAdds(x) == x \in FunctorKinds /\ Queue' = Append(Queue, x)
\* The first functor is run.
QueueRuns(x) == Queue # << >> /\ Head(Queue) = x /\ Queue' = Tail(Queue)

\* A functor is queued.
LEMMA QueueAddsFacts ==
  ASSUME TypeOK, NEW x, QueueAdds(x)
  PROVE  /\ \A kind : Queued(kind)' <=> Queued(kind) \/ x = kind
         /\ QuietAfter(Queue) /\ ~(x = "writeComplete" /\ Queued("connectDestroyed"))
              => QuietAfter(Queue)'
         /\ DestroyOnce(Queue) /\ ~(x = "connectDestroyed" /\ Queued("connectDestroyed"))
              => DestroyOnce(Queue)'
<1> PICK q \in Seq(FunctorKinds) : q = Queue
  BY QueueMoves
<1>1. x \in FunctorKinds /\ Queue' = Append(q, x)
  BY DEF QueueAdds
<1> HIDE DEF FunctorKinds
<1>2. /\ \A kind : Contains(Append(q, x), kind) <=> Contains(q, kind) \/ x = kind
      /\ QuietAfter(q) /\ ~(x = "writeComplete" /\ Contains(q, "connectDestroyed"))
           => QuietAfter(Append(q, x))
      /\ DestroyOnce(q) /\ ~(x = "connectDestroyed" /\ Contains(q, "connectDestroyed"))
           => DestroyOnce(Append(q, x))
  BY <1>1, AppendFacts
<1>3. /\ \A kind : Queued(kind)' <=> Contains(Append(q, x), kind)
      /\ QuietAfter(Queue)' <=> QuietAfter(Append(q, x))
      /\ DestroyOnce(Queue)' <=> DestroyOnce(Append(q, x))
  BY <1>1 DEF Queued, QuietAfter, DestroyOnce, Contains
<1>4. \A kind : Queued(kind) <=> Contains(q, kind)
  BY DEF Queued
<1> QED BY <1>2, <1>3, <1>4

\* A functor is run.
LEMMA QueueRunsFacts ==
  ASSUME TypeOK, NEW x, QueueRuns(x)
  PROVE  /\ Queued(x) /\ \A kind : Queued(kind)' => Queued(kind)
         /\ \A kind : Queued(kind) => Queued(kind)' \/ kind = x
         /\ QuietAfter(Queue) => QuietAfter(Queue)'
         /\ DestroyOnce(Queue) => DestroyOnce(Queue)'
         /\ x = "connectDestroyed" /\ QuietAfter(Queue) => ~Queued("writeComplete")'
         /\ x = "connectDestroyed" /\ DestroyOnce(Queue) => ~Queued("connectDestroyed")'
<1> PICK q \in Seq(FunctorKinds) : q = Queue
  BY QueueMoves
<1>1. q # << >> /\ Head(q) = x /\ Queue' = Tail(q)
  BY DEF QueueRuns
<1> HIDE DEF FunctorKinds
<1>2. /\ \A kind : Contains(q, kind) <=> Head(q) = kind \/ Contains(Tail(q), kind)
      /\ QuietAfter(q) => QuietAfter(Tail(q))
      /\ QuietAfter(q) /\ Head(q) = "connectDestroyed" => ~Contains(Tail(q), "writeComplete")
      /\ DestroyOnce(q) => DestroyOnce(Tail(q))
      /\ DestroyOnce(q) /\ Head(q) = "connectDestroyed" => ~Contains(Tail(q), "connectDestroyed")
  BY <1>1, TailFacts
<1>3. /\ \A kind : Queued(kind)' <=> Contains(Tail(q), kind)
      /\ QuietAfter(Queue)' <=> QuietAfter(Tail(q))
      /\ DestroyOnce(Queue)' <=> DestroyOnce(Tail(q))
  BY <1>1 DEF Queued, QuietAfter, DestroyOnce, Contains
<1>4. \A kind : Queued(kind) <=> Contains(q, kind)
  BY DEF Queued
<1> QED BY <1>1, <1>2, <1>3, <1>4

\* A functor is run that queues another one.
QueueRunsAdds(x, y) ==
  Queue # << >> /\ Head(Queue) = x /\ y \in FunctorKinds /\ Queue' = Append(Tail(Queue), y)

\* After it only the new functor is new.
LEMMA QueueRunsAddsFacts ==
  ASSUME TypeOK, NEW x, NEW y, QueueRunsAdds(x, y), y # "writeComplete"
  PROVE  /\ Queued(x) /\ \A kind : Queued(kind)' => Queued(kind) \/ kind = y
         /\ Queued(y)'
         /\ QuietAfter(Queue) => QuietAfter(Queue)'
         /\ DestroyOnce(Queue) /\ ~(y = "connectDestroyed" /\ Queued("connectDestroyed"))
              => DestroyOnce(Queue)'
<1> PICK q \in Seq(FunctorKinds) : q = Queue
  BY QueueMoves
<1>0. q # << >> => Tail(q) \in Seq(FunctorKinds)
  OBVIOUS
<1>1. q # << >> /\ Head(q) = x /\ y \in FunctorKinds /\ Queue' = Append(Tail(q), y)
  BY DEF QueueRunsAdds
<1> PICK r \in Seq(FunctorKinds) : r = Tail(q)
  BY <1>0, <1>1
<1> HIDE DEF FunctorKinds
<1>2. /\ \A kind : Contains(q, kind) <=> Head(q) = kind \/ Contains(r, kind)
      /\ QuietAfter(q) => QuietAfter(r)
      /\ DestroyOnce(q) => DestroyOnce(r)
  BY <1>1, TailFacts
<1>3. /\ \A kind : Contains(Append(r, y), kind) <=> Contains(r, kind) \/ y = kind
      /\ QuietAfter(r) /\ ~(y = "writeComplete" /\ Contains(r, "connectDestroyed"))
           => QuietAfter(Append(r, y))
      /\ DestroyOnce(r) /\ ~(y = "connectDestroyed" /\ Contains(r, "connectDestroyed"))
           => DestroyOnce(Append(r, y))
  BY <1>1, AppendFacts
<1>4. /\ \A kind : Queued(kind)' <=> Contains(Append(r, y), kind)
      /\ QuietAfter(Queue)' <=> QuietAfter(Append(r, y))
      /\ DestroyOnce(Queue)' <=> DestroyOnce(Append(r, y))
  BY <1>1 DEF Queued, QuietAfter, DestroyOnce, Contains
<1>5. \A kind : Queued(kind) <=> Contains(q, kind)
  BY DEF Queued
<1> QED BY <1>1, <1>2, <1>3, <1>4, <1>5

\* A step that leaves the queue alone.
LEMMA SameQueue ==
  ASSUME Queue' = Queue
  PROVE  /\ \A kind : Queued(kind)' <=> Queued(kind)
         /\ QuietAfter(Queue)' <=> QuietAfter(Queue)
         /\ DestroyOnce(Queue)' <=> DestroyOnce(Queue)
BY DEF Queued, QuietAfter, DestroyOnce, Contains

\* The functors of a connection.
LEMMA Kinds ==
  /\ "addConnect" \in FunctorKinds /\ "connectEstablished" \in FunctorKinds
  /\ "forceClose" \in FunctorKinds /\ "connectDestroyed" \in FunctorKinds
  /\ "writeComplete" \in FunctorKinds
BY DEF FunctorKinds

\* A step that runs the first functor of the batch, in terms of Queue.
LEMMA RunFacts ==
  ASSUME TypeOK, NEW x, NEW next, RunFunctor(x, next)
  PROVE  /\ Queue # << >> /\ Head(Queue) = x
         /\ pendingFunctors_' = pendingFunctors_ => QueueRuns(x)
         /\ \A y \in FunctorKinds :
              pendingFunctors_' = Append(pendingFunctors_, y) => QueueRunsAdds(x, y)
<1> HIDE DEF FunctorKinds
<1>1. functors # << >> /\ Head(functors) = x /\ functors' = Tail(functors)
  BY DEF RunFunctor
<1> QED BY <1>1, QueueMoves DEF QueueRuns, QueueRunsAdds

\* What handleWrite and a send do to the queue.
LEMMA CompleteFacts ==
  ASSUME TypeOK, functors' = functors,
         pendingFunctors_' \in {pendingFunctors_, QueueWriteComplete(pendingFunctors_)}
  PROVE  Queue' = Queue \/ QueueAdds("writeComplete")
<1> HIDE DEF FunctorKinds
<1>1. \/ pendingFunctors_' = pendingFunctors_
      \/ pendingFunctors_' = Append(pendingFunctors_, "writeComplete")
  BY DEF QueueWriteComplete
<1> QED BY <1>1, Kinds, QueueMoves DEF QueueAdds

\* handleClose queues connectDestroyed.
LEMMA CloseFacts ==
  ASSUME TypeOK, HandleClose, functors' = functors
  PROVE  QueueAdds("connectDestroyed")
<1> HIDE DEF FunctorKinds
<1> QED BY Kinds, QueueMoves DEF QueueAdds, HandleClose, removeConnection

-----------------------------------------------------------------------------
(***************************************************************************)
(* The round of the loop.                                                  *)
(***************************************************************************)
LEMMA ReportedFacts ==
  /\ "RDHUP" \in Reported => "IN" \in Reported
  /\ Reported # {} => registered(channel_)
  /\ "IN" \in Reported => isReading(channel_)
BY DEF Reported, Mask, Interest

\* The peer acts on the socket only: it never sends our FIN.
LEMMA PeerFacts ==
  ASSUME TypeOK, PeerSends \/ PeerCloses \/ PeerResets \/ PeerReads
  PROVE  /\ UNCHANGED <<loopVars, connVars, histVars, envVars, ends>> /\ ~destroyed
         /\ sock'.finSent = sock.finSent /\ sock'.inflight <= sock.inflight
         /\ sock'.rst = "none" => sock.rst = "none"
<1>1. /\ UNCHANGED <<loopVars, connVars, histVars, envVars, ends>> /\ ~destroyed
      /\ sock.rst = "none"
  BY DEF PeerSends, PeerCloses, PeerResets, PeerReads, PeerEvent
<1>2. sock \in SocketType /\ sock.inflight \in 0..SndBuf
  BY DEF TypeOK, SocketType
<1>3. sock'.finSent = sock.finSent
  BY <1>2 DEF PeerSends, PeerCloses, PeerResets, PeerReads, PeerEvent, SocketType
<1>4. sock'.inflight \in {sock.inflight, sock.inflight - 1}
  BY <1>2 DEF PeerSends, PeerCloses, PeerResets, PeerReads, PeerEvent, SocketType
<1>5. sock'.inflight <= sock.inflight
  BY <1>2, <1>4, BoundsAssumption
<1> QED BY <1>1, <1>3, <1>5

\* Every step keeps the place in the round.
LEMMA RoundStep ==
  ASSUME TypeOK, Round, [Next]_vars
  PROVE  Round'
<1>1. CASE Poll
  <2>1. functors' = << >>
    BY <1>1 DEF Round, Poll
  <2>2. revents_' # {} => pc' = "close"
    BY <1>1 DEF Poll
  <2>3. "RDHUP" \in revents_' => "IN" \in revents_'
    BY <1>1, ReportedFacts DEF Poll
  <2> QED BY <2>1, <2>2, <2>3 DEF Round
<1>2. CASE CloseStage
  BY <1>2 DEF Round, CloseStage
<1>3. CASE ErrorStage
  BY <1>3 DEF Round, ErrorStage
<1>4. CASE ReadStage
  BY <1>4 DEF Round, ReadStage
<1>5. CASE WriteStage
  BY <1>5 DEF Round, WriteStage
<1>6. CASE SwapPending
  BY <1>6 DEF Round, SwapPending
<1>7. CASE BatchDone
  BY <1>7 DEF Round, BatchDone
<1>8. CASE CallbackReturns
  BY <1>8 DEF Round, CallbackReturns, TypeOK
<1>9. ASSUME NEW x, NEW next \in {"user", "functors"}, RunFunctor(x, next)
      PROVE  Round'
  BY <1>9 DEF Round, RunFunctor
<1>10. CASE AddConnect \/ ConnectEstablished \/ ForceCloseInLoop \/ ConnectDestroyed
           \/ WriteComplete
  BY <1>9, <1>10 DEF AddConnect, ConnectEstablished, ForceCloseInLoop, ConnectDestroyed,
          WriteComplete
<1>11. CASE UNCHANGED <<functors, held, pc, ret, revents_>>
  BY <1>11 DEF Round
<1>12. CASE UserStep
  <2>1. UNCHANGED <<functors, held, pc, ret, revents_>>
    BY <1>12 DEF UserStep, Send, SendFile, Shutdown, ForceClose, StartRead, StopRead, UserCalls
  <2> QED BY <1>11, <2>1
<1>13. ASSUME NEW t \in Threads, ThreadStep(t)
       PROVE  UNCHANGED <<functors, held, pc, ret, revents_>>
  BY <1>13 DEF ThreadStep, ForceCloseTest, ForceCloseSet, ForceCloseQueue, Release, ThreadAt
<1>14. CASE NewConnection
  BY <1>11, <1>14 DEF NewConnection
<1>15. CASE PeerSends \/ PeerCloses \/ PeerResets \/ PeerReads
  <2>1. UNCHANGED loopVars
    BY <1>15, PeerFacts
  <2> QED BY <1>11, <2>1 DEF loopVars
<1>16. CASE UNCHANGED vars
  BY <1>11, <1>16 DEF vars, loopVars
<1> QED BY <1>1, <1>2, <1>3, <1>4, <1>5, <1>6, <1>7, <1>8, <1>10, <1>11, <1>12, <1>13, <1>14,
           <1>15, <1>16
        DEF Next, LoopStep, Over

-----------------------------------------------------------------------------
(***************************************************************************)
(* Before connectEstablished.                                              *)
(***************************************************************************)
\* The queue of a connection that is not established yet.
LEMMA StartCases ==
  ASSUME Connecting, state_ = "kConnecting"
  PROVE  \/ newConn = 0 /\ connectSet_ = FALSE /\ Queue = << >>
         \/ newConn = 1 /\ connectSet_ = FALSE /\ Queue = <<"addConnect">>
         \/ newConn = 2 /\ connectSet_ = FALSE /\ Queue = <<"addConnect", "connectEstablished">>
         \/ newConn = 1 /\ connectSet_ = TRUE /\ Queue = << >>
         \/ newConn = 2 /\ connectSet_ = TRUE /\ Queue = <<"connectEstablished">>
BY DEF Connecting

\* Queues of one and of two functors.
LEMMA ShortSeqs ==
  ASSUME NEW a, NEW b
  PROVE  /\ Tail(<<a>>) = << >> /\ Head(<<a>>) = a /\ <<a>> # << >>
         /\ Tail(<<a, b>>) = <<b>> /\ Head(<<a, b>>) = a /\ <<a, b>> # << >>
         /\ Append(<< >>, a) = <<a>> /\ Append(<<a>>, b) = <<a, b>>
<1>1. Append(<<a>>, b) = <<a, b>>
  <2> DEFINE S == {a, b}
  <2>1. <<a>> \in Seq(S) /\ <<a, b>> \in Seq(S) /\ b \in S
    OBVIOUS
  <2>2. PICK s \in Seq(S) : s = <<a>> /\ Len(s) = 1 /\ s[1] = a
    BY <2>1
  <2>3. /\ Append(s, b) \in Seq(S) /\ Len(Append(s, b)) = 2
        /\ Append(s, b)[1] = a /\ Append(s, b)[2] = b
    BY <2>1, <2>2
  <2>4. PICK u \in Seq(S) : u = <<a, b>> /\ Len(u) = 2 /\ u[1] = a /\ u[2] = b
    BY <2>1
  <2>5. PICK v \in Seq(S) : v = Append(s, b) /\ Len(v) = 2 /\ v[1] = a /\ v[2] = b
    BY <2>3
  <2>6. \A i \in 1..2 : i = 1 \/ i = 2
    OBVIOUS
  <2>7. u = v
    BY <2>4, <2>5, <2>6
  <2> QED BY <2>2, <2>4, <2>5, <2>7
<1>2. Tail(<<a>>) = << >> /\ Head(<<a>>) = a /\ Append(<< >>, a) = <<a>>
  OBVIOUS
<1>3. Tail(<<a, b>>) = <<b>> /\ Head(<<a, b>>) = a /\ <<a>> # << >> /\ <<a, b>> # << >>
  OBVIOUS
<1> QED BY <1>1, <1>2, <1>3

\* What is run, or queued by newConnection, before connectEstablished.
LEMMA StartMoves ==
  ASSUME TypeOK, Connecting, state_ = "kConnecting"
  PROVE  /\ QueueRuns("addConnect") =>
              /\ connectSet_ = FALSE /\ newConn > 0
              /\ newConn = 2 => Queue' = <<"connectEstablished">>
              /\ newConn = 1 => Queue' = << >>
         /\ QueueRuns("connectEstablished") =>
              newConn = 2 /\ connectSet_ = TRUE /\ Queue' = << >>
         /\ Queue # << >> => Head(Queue) \in {"addConnect", "connectEstablished"}
         /\ newConn = 0 /\ Queue' = Append(Queue, "addConnect") =>
              connectSet_ = FALSE /\ Queue' = <<"addConnect">>
         /\ newConn = 1 /\ Queue' = Append(Queue, "connectEstablished") =>
              /\ connectSet_ = TRUE => Queue' = <<"connectEstablished">>
              /\ connectSet_ = FALSE => Queue' = <<"addConnect", "connectEstablished">>
         /\ newConn = 2 /\ ~connectSet_ => Queue # << >>
<1> DEFINE a == "addConnect"
           e == "connectEstablished"
           qa == <<a>>
           qe == <<e>>
           qae == <<a, e>>
<1>0. a # e
  OBVIOUS
<1>1. \/ newConn = 0 /\ connectSet_ = FALSE /\ Queue = << >>
      \/ newConn = 1 /\ connectSet_ = FALSE /\ Queue = qa
      \/ newConn = 2 /\ connectSet_ = FALSE /\ Queue = qae
      \/ newConn = 1 /\ connectSet_ = TRUE /\ Queue = << >>
      \/ newConn = 2 /\ connectSet_ = TRUE /\ Queue = qe
  BY StartCases
<1> HIDE DEF a, e
<1>2. /\ Tail(qa) = << >> /\ Head(qa) = a /\ qa # << >>
      /\ Tail(qe) = << >> /\ Head(qe) = e /\ qe # << >>
      /\ Tail(qae) = qe /\ Head(qae) = a /\ qae # << >>
      /\ Append(<< >>, a) = qa /\ Append(<< >>, e) = qe /\ Append(qa, e) = qae
  BY ShortSeqs
<1> HIDE DEF qa, qe, qae
<1>3. QueueRuns(a) =>
        /\ connectSet_ = FALSE /\ newConn > 0
        /\ newConn = 2 => Queue' = qe
        /\ newConn = 1 => Queue' = << >>
  BY <1>0, <1>1, <1>2 DEF QueueRuns
<1>4. QueueRuns(e) => newConn = 2 /\ connectSet_ = TRUE /\ Queue' = << >>
  BY <1>0, <1>1, <1>2 DEF QueueRuns
<1>5. Queue # << >> => Head(Queue) \in {a, e}
  BY <1>1, <1>2
<1>6. newConn = 0 /\ Queue' = Append(Queue, a) => connectSet_ = FALSE /\ Queue' = qa
  BY <1>1, <1>2
<1>7. newConn = 1 /\ Queue' = Append(Queue, e) =>
        (connectSet_ = TRUE => Queue' = qe) /\ (connectSet_ = FALSE => Queue' = qae)
  BY <1>1, <1>2
<1>8. newConn = 2 /\ ~connectSet_ => Queue # << >>
  BY <1>1, <1>2
<1> QED BY <1>3, <1>4, <1>5, <1>6, <1>7, <1>8 DEF a, e, qa, qe, qae

-----------------------------------------------------------------------------
(***************************************************************************)
(* The life of the connection.                                             *)
(***************************************************************************)
Life == Connecting /\ Leaving /\ Closing

\* What the steps have to know of an established connection.
LEMMA Established ==
  ASSUME TypeOK, Life
  PROVE  /\ \/ pc \notin {"poll", "swap", "functors"} \/ revents_ # {} \/ destroyed
            \/ \E t \in Threads : tpc[t] \in {"tested", "set"}
            => state_ # "kConnecting"
         /\ destroys > 0 => state_ # "kConnecting" /\ ~connectSet_
         /\ isWriting(channel_) => state_ # "kConnecting" /\ connectSet_
         /\ state_ = "kConnected" => connectSet_
         /\ Queued("connectDestroyed") /\ state_ # "kConnecting" => ~connectSet_
         /\ destroyed => destroys > 0 /\ channel_.status = DELETED /\ revents_ = {} /\ pc # "user"
<1>1. \/ pc \notin {"poll", "swap", "functors"} \/ revents_ # {} \/ destroyed
      \/ \E t \in Threads : tpc[t] \in {"tested", "set"}
      => state_ # "kConnecting"
  BY DEF Life, Connecting
<1>c. state_ = "kConnecting" => destroys = 0 /\ channel_ = NewChannel
  BY DEF Life, Connecting
<1>l. state_ # "kConnecting" => (connectSet_ => destroys = 0)
                                /\ (~connectSet_ => ~isWriting(channel_))
  BY DEF Life, Leaving
<1>2. destroys > 0 => state_ # "kConnecting" /\ ~connectSet_
  BY <1>c, <1>l
<1>3. isWriting(channel_) => state_ # "kConnecting" /\ connectSet_
  <2>1. ~isWriting(NewChannel)
    BY DEF isWriting, NewChannel
  <2> QED BY <1>c, <1>l, <2>1
<1>4. state_ = "kConnected" => connectSet_
  BY DEF Life, Leaving
<1>5. Queued("connectDestroyed") /\ state_ # "kConnecting" => ~connectSet_
  BY DEF Life, Leaving
<1>6. ASSUME destroyed
      PROVE  destroys > 0 /\ channel_.status = DELETED /\ revents_ = {} /\ pc # "user"
  <2>1. Queue = << >> /\ ~connectSet_ /\ state_ # "kConnecting"
    BY <1>1, <1>6 DEF Life, Leaving
  <2>2. ~Queued("connectDestroyed")
    <3>1. Len(Queue) = 0
      BY <2>1
    <3> QED BY <3>1 DEF Queued, Contains
  <2> QED BY <2>1, <2>2 DEF Life, Leaving
<1> QED BY <1>1, <1>2, <1>3, <1>4, <1>5, <1>6

\* A step that does not touch the connection.
LEMMA LifeFrame ==
  ASSUME TypeOK, Life, Queue' = Queue, sock'.finSent = sock.finSent,
         UNCHANGED <<state_, connectSet_, channel_, outputBuffer_, accepted, destroys, lapses,
                     destroyed, newConn, tpc>>,
         revents_' \in {revents_, {}},
         state_ = "kConnecting" => pc' \in {"poll", "swap", "functors"},
         destroys > 0 => pc' # "user",
         pc' = "close" \/ (pc' \in {"error", "read"} /\ "IN" \in revents_')
           => pc = "close" \/ (pc \in {"error", "read"} /\ "IN" \in revents_)
  PROVE  Life'
<1>q. /\ \A kind : Queued(kind)' <=> Queued(kind)
      /\ QuietAfter(Queue)' <=> QuietAfter(Queue)
      /\ DestroyOnce(Queue)' <=> DestroyOnce(Queue)
  BY SameQueue
<1>1. Connecting'
  BY <1>q DEF Life, Connecting
<1>2. Leaving'
  BY <1>q DEF Life, Leaving, registered
<1>3. Closing'
  BY <1>q DEF Life, Closing, Unharmed, mapped
<1> QED BY <1>1, <1>2, <1>3 DEF Life

\* A channel is its events and its status.
LEMMA ChannelEqual ==
  ASSUME NEW c \in ChannelType, c.events = {}, c.status = NOT_LISTEN
  PROVE  c = [events |-> {}, status |-> NOT_LISTEN]
BY DEF ChannelType

\* handleClose, by whatever way it is reached.
LEMMA CloseLife ==
  ASSUME TypeOK, Life, HandleClose, state_ # "kConnecting", ~destroyed,
         UNCHANGED <<destroys, lapses, revents_, destroyed, newConn, tpc>>,
         Queued("connectDestroyed")',
         \A kind : Queued(kind)' => Queued(kind) \/ kind = "connectDestroyed",
         QuietAfter(Queue) => QuietAfter(Queue)',
         DestroyOnce(Queue) /\ ~Queued("connectDestroyed") => DestroyOnce(Queue)',
         Unharmed => connectSet_,
         pc' \notin {"close", "user"}, pc' \in {"error", "read"} => "IN" \notin revents_
  PROVE  Life'
<1>1. channel_ \in ChannelType /\ destroys \in Nat
  BY DEF TypeOK
<1>2. /\ channel_' \in ChannelType /\ channel_'.events = {}
      /\ mapped(channel_) => channel_'.status = NOT_LISTEN
  BY <1>1, ChannelFacts DEF HandleClose
<1>3. state_' = "kDisconnected" /\ connectSet_' = FALSE
  BY DEF HandleClose, removeConnection
<1>4. newConn = 2 /\ ~Queued("addConnect") /\ ~Queued("connectEstablished")
  BY DEF Life, Connecting
<1>5. Connecting'
  <2>1. newConn' = 2 /\ ~Queued("addConnect")' /\ ~Queued("connectEstablished")'
    BY <1>4
  <2> QED BY <1>3, <2>1 DEF Connecting
<1>6. ~isWriting(channel_)' /\ ~isReading(channel_)'
  BY <1>2 DEF isWriting, isReading
<1>7. destroys > 0 => ~Queued("writeComplete") /\ "IN" \notin revents_
  BY DEF Life, Leaving
<1>8. QuietAfter(Queue)'
  BY DEF Life, Leaving
<1>9. Leaving'
  <2>1. destroys' > 0 => /\ pc' # "user" /\ ~Queued("writeComplete")' /\ "IN" \notin revents_'
                         /\ ~isReading(channel_)'
    BY <1>6, <1>7
  <2> QED BY <1>3, <1>6, <1>8, <2>1 DEF Leaving
<1>10. Closing'
  <2>1. SUFFICES ASSUME Unharmed PROVE Closing'
    BY DEF Closing, Unharmed
  <2>2. connectSet_ /\ mapped(channel_) /\ DestroyOnce(Queue)
    BY <2>1 DEF Life, Closing
  <2>3. destroys = 0 /\ ~Queued("connectDestroyed")
    BY <2>2 DEF Life, Leaving
  <2>4. channel_' = [events |-> {}, status |-> NOT_LISTEN]
    BY <1>2, <2>2, ChannelEqual
  <2>5. DestroyOnce(Queue)' /\ destroys' = 0
    BY <2>2, <2>3
  <2>6. ~(pc' = "close" \/ (pc' \in {"error", "read"} /\ "IN" \in revents_'))
    OBVIOUS
  <2>7. ~(destroys' > 0)
    BY <2>5
  <2> QED BY <1>3, <2>4, <2>5, <2>6, <2>7 DEF Closing
<1> QED BY <1>5, <1>9, <1>10 DEF Life

\* The stages of handleEvent before handleWrite.
LEMMA StageLife ==
  ASSUME TypeOK, Round, Life, Poll \/ CloseStage \/ ErrorStage \/ ReadStage
  PROVE  Life'
<1>q. UNCHANGED <<functors, pendingFunctors_>> => Queue' = Queue
  BY QueueMoves
<1>s. sock \in SocketType
  BY DEF TypeOK
<1>c. ASSUME HandleClose, functors' = functors, revents_ # {},
             UNCHANGED <<destroys, lapses, revents_, destroyed, newConn, tpc>>,
             Unharmed => connectSet_,
             pc' \notin {"close", "user"}, pc' \in {"error", "read"} => "IN" \notin revents_
      PROVE  Life'
  <2>1. state_ # "kConnecting" /\ ~destroyed
    BY <1>c, Established
  <2>2. QueueAdds("connectDestroyed")
    BY <1>c, CloseFacts
  <2> QED BY <1>c, <2>1, <2>2, QueueAddsFacts, CloseLife
<1>1. CASE Poll
  <2>1. Queue' = Queue
    BY <1>1, <1>q DEF Poll
  <2>2. sock'.finSent = sock.finSent
    BY <1>1, <1>s DEF Poll, SocketType
  <2>3. /\ UNCHANGED <<state_, connectSet_, channel_, outputBuffer_, accepted, destroys, lapses,
                       destroyed, newConn, tpc>>
        /\ revents_' = Reported /\ pc' = IF Reported # {} THEN "close" ELSE "swap"
    BY <1>1 DEF Poll, connVars, histVars, envVars, ends
  <2>q. /\ \A kind : Queued(kind)' <=> Queued(kind)
        /\ QuietAfter(Queue)' <=> QuietAfter(Queue)
        /\ DestroyOnce(Queue)' <=> DestroyOnce(Queue)
    BY <2>1, SameQueue
  <2>4. Connecting'
    <3>1. CASE state_ = "kConnecting"
      <4>1. ~registered(channel_)
        BY <3>1 DEF Life, Connecting, NewChannel, registered, INIT, LISTEN
      <4>2. revents_' = {} /\ pc' = "swap"
        BY <2>3, <4>1, ReportedFacts
      <4> QED BY <2>1, <2>2, <2>3, <3>1, <4>2 DEF Life, Connecting
    <3>2. CASE state_ # "kConnecting"
      BY <2>3, <2>q, <3>2 DEF Life, Connecting
    <3> QED BY <3>1, <3>2
  <2>5. Leaving'
    <3>1. channel_.status = DELETED => revents_' = {}
      BY <2>3, ReportedFacts DEF registered, LISTEN, DELETED
    <3>2. "IN" \in revents_' => registered(channel_) /\ isReading(channel_)
      BY <2>3, ReportedFacts
    <3>3. (registered(channel_)' <=> registered(channel_))
              /\ (isReading(channel_)' <=> isReading(channel_))
          /\ (isWriting(channel_)' <=> isWriting(channel_)) /\ pc' # "user"
      BY <2>3 DEF registered, isReading, isWriting
    <3> QED BY <2>1, <2>3, <2>q, <3>1, <3>2, <3>3 DEF Life, Leaving
  <2>6. Closing'
    <3>1. pc' = "close" => registered(channel_)
      BY <2>3, ReportedFacts
    <3>2. pc' \in {"close", "swap"}
      BY <2>3
    <3>3. Unharmed /\ state_ # "kConnecting" /\ registered(channel_) => connectSet_
      BY DEF Life, Closing, registered, LISTEN, NOT_LISTEN, DELETED
    <3>4. (mapped(channel_)' <=> mapped(channel_)) /\ (Unharmed' <=> Unharmed)
      BY <2>3 DEF mapped, Unharmed
    <3> QED BY <2>3, <2>q, <3>1, <3>2, <3>3, <3>4 DEF Life, Closing
  <2> QED BY <2>4, <2>5, <2>6 DEF Life
<1>2. CASE CloseStage
  <2>1. /\ pc = "close" /\ pc' = "error" /\ functors' = functors
        /\ UNCHANGED <<destroys, lapses, revents_, destroyed, newConn, tpc, accepted>>
    BY <1>2 DEF CloseStage, histVars, envVars
  <2>2. state_ # "kConnecting"
    BY <2>1, Established
  <2>3. CASE HandleClose /\ "HUP" \in revents_ /\ "IN" \notin revents_
    <3>1. Unharmed => connectSet_
      BY <2>1, <2>2 DEF Life, Closing
    <3> QED BY <1>c, <2>1, <2>3, <3>1
  <2>4. CASE NoClose /\ UNCHANGED sock
    BY <1>q, <2>1, <2>2, <2>4, LifeFrame DEF NoClose
  <2> QED BY <1>2, <2>3, <2>4 DEF CloseStage
<1>3. CASE ErrorStage
  <2>1. /\ pc = "error" /\ pc' = "read"
        /\ UNCHANGED <<state_, connectSet_, channel_, outputBuffer_, accepted, destroys, lapses,
                     revents_, destroyed, newConn, tpc, functors, pendingFunctors_>>
    BY <1>3 DEF ErrorStage, connVars, histVars, envVars, ends
  <2>2. sock'.finSent = sock.finSent
    BY <1>3, <1>s, SockErrorFacts DEF ErrorStage
  <2>3. state_ # "kConnecting"
    BY <2>1, Established
  <2> QED BY <1>q, <2>1, <2>2, <2>3, LifeFrame
<1>4. CASE ReadStage
  <2>1. /\ pc = "read" /\ functors' = functors /\ pc' \in {"write", "user"}
        /\ UNCHANGED <<destroys, lapses, revents_, destroyed, newConn, tpc, accepted>>
        /\ pc' = "user" => NoClose /\ revents_ \cap {"IN", "RDHUP"} # {}
        /\ NoClose \/ (HandleClose /\ revents_ \cap {"IN", "RDHUP"} # {})
    BY <1>4 DEF ReadStage, histVars, envVars
  <2>2. state_ # "kConnecting"
    BY <2>1, Established
  <2>3. revents_ \cap {"IN", "RDHUP"} # {} => "IN" \in revents_
    BY DEF Round
  <2>4. CASE ~NoClose
    <3>1. HandleClose /\ "IN" \in revents_ /\ pc' = "write"
      BY <2>1, <2>3, <2>4
    <3>2. Unharmed => connectSet_
      BY <2>1, <2>2, <3>1 DEF Life, Closing
    <3> QED BY <1>c, <2>1, <3>1, <3>2
  <2>5. CASE NoClose
    <3>1. sock'.finSent = sock.finSent
      <4> DEFINE s == [sock EXCEPT !.rcvd = 0]
      <4>1. s \in SocketType /\ s.finSent = sock.finSent
        <5>1. 0 \in 0..MaxIn
          BY BoundsAssumption
        <5> QED BY <1>s, <5>1 DEF SocketType
      <4>2. sock' \in {sock, s, SockError(s), Rearm(s, channel_')}
        BY <1>4 DEF ReadStage
      <4> HIDE DEF s
      <4> QED BY <1>s, <4>1, <4>2, RearmFacts, SockErrorFacts
    <3>2. destroys > 0 => pc' # "user"
      BY <2>1, <2>3 DEF Life, Leaving
    <3> QED BY <1>q, <2>1, <2>2, <2>5, <3>1, <3>2, LifeFrame DEF NoClose
  <2> QED BY <2>1, <2>4, <2>5
<1> QED BY <1>1, <1>2, <1>3, <1>4

\* A step on a connection that is, and stays, in connectSet_.
LEMMA OpenLife ==
  ASSUME TypeOK, Life, state_ # "kConnecting", connectSet_,
         UNCHANGED <<connectSet_, destroys, destroyed, newConn>>,
         state_' # "kConnecting", state_' = "kDisconnected" => state_ = "kDisconnected",
         Unharmed' => Unharmed, mapped(channel_) => mapped(channel_)',
         Queue' = Queue \/ QueueAdds("writeComplete") \/ QueueAdds("forceClose")
  PROVE  Life'
<1>1. ~destroyed /\ destroys = 0 /\ ~Queued("connectDestroyed") /\ newConn = 2
      /\ ~Queued("addConnect") /\ ~Queued("connectEstablished") /\ QuietAfter(Queue)
  BY DEF Life, Leaving, Connecting
<1>2. /\ \A kind : Queued(kind)' => Queued(kind) \/ kind \in {"writeComplete", "forceClose"}
      /\ QuietAfter(Queue)' /\ (DestroyOnce(Queue) => DestroyOnce(Queue)')
  BY <1>1, SameQueue, QueueAddsFacts
<1>3. /\ ~Queued("addConnect")' /\ ~Queued("connectEstablished")' /\ ~Queued("connectDestroyed")'
  BY <1>1, <1>2
<1>4. Connecting'
  BY <1>1, <1>3 DEF Connecting
<1>5. ~(destroys' > 0) /\ destroys' = 0
  BY <1>1
<1>6. Leaving'
  BY <1>1, <1>2, <1>3, <1>5 DEF Leaving
<1>7. Closing'
  <2>1. SUFFICES ASSUME Unharmed, Unharmed' PROVE Closing'
    BY DEF Closing
  <2>2. state_ # "kDisconnected" /\ mapped(channel_) /\ DestroyOnce(Queue)
    BY <2>1 DEF Life, Closing
  <2> QED BY <1>2, <1>5, <2>2 DEF Closing
<1> QED BY <1>4, <1>6, <1>7 DEF Life

\* A step on a connection that is not in connectSet_ any more.
LEMMA ClosedLife ==
  ASSUME TypeOK, Life, state_ # "kConnecting", ~connectSet_, ~destroyed,
         UNCHANGED <<connectSet_, destroys, destroyed, newConn, revents_, pc>>,
         state_' \in {state_, "kDisconnecting"}, ~isWriting(channel_)',
         destroys > 0 => channel_' = channel_,
         Unharmed' => Unharmed /\ state_' = state_ /\ channel_' = channel_,
         Queue' = Queue \/ QueueAdds("forceClose")
  PROVE  Life'
<1>1. state_ # "kConnected" /\ newConn = 2
      /\ ~Queued("addConnect") /\ ~Queued("connectEstablished") /\ QuietAfter(Queue)
  BY DEF Life, Leaving, Connecting
<1>2. /\ \A kind : Queued(kind)' <=> Queued(kind) \/ (kind = "forceClose" /\ Queued("forceClose")')
      /\ QuietAfter(Queue)' /\ (DestroyOnce(Queue) => DestroyOnce(Queue)')
  BY <1>1, SameQueue, QueueAddsFacts
<1>3. /\ ~Queued("addConnect")' /\ ~Queued("connectEstablished")'
      /\ Queued("connectDestroyed")' <=> Queued("connectDestroyed")
      /\ Queued("writeComplete")' <=> Queued("writeComplete")
  BY <1>1, <1>2
<1>4. Connecting'
  BY <1>1, <1>3 DEF Connecting
<1>5. Leaving'
  <2>1. destroys > 0 => (registered(channel_)' => ~isReading(channel_)')
    BY DEF Life, Leaving, registered, isReading
  <2>2. Queued("connectDestroyed")'
            \/ (destroys' > 0 /\ channel_'.status = DELETED /\ revents_' = {})
    BY <1>3 DEF Life, Leaving
  <2>3. destroys > 0 => pc # "user" /\ ~Queued("writeComplete") /\ "IN" \notin revents_
    BY DEF Life, Leaving
  <2> QED BY <1>1, <1>2, <1>3, <2>1, <2>2, <2>3 DEF Leaving
<1>6. Closing'
  <2>1. SUFFICES ASSUME Unharmed, Unharmed' PROVE Closing'
    BY DEF Closing
  <2> QED BY <1>2, <1>3, <2>1 DEF Life, Closing
<1> QED BY <1>4, <1>5, <1>6 DEF Life

\* handleWrite changes what the channel wants, and queues at most a completion.
LEMMA WriteLife ==
  ASSUME TypeOK, Life, WriteStage
  PROVE  Life'
<1>1. /\ pc = "write" /\ pc' = "swap" /\ revents_' = {}
      /\ UNCHANGED <<functors, connectSet_, state_, accepted, destroys, lapses, newConn, tpc,
                     destroyed>>
  BY DEF WriteStage, envVars
<1>2. state_ # "kConnecting"
  BY <1>1, Established
<1>3. CASE /\ UNCHANGED <<channel_, outputBuffer_, wire, pendingFunctors_>>
           /\ sock'.finSent = sock.finSent
  <2>1. Queue' = Queue
    BY <1>1, <1>3, QueueMoves
  <2> QED BY <1>1, <1>2, <1>3, <2>1, LifeFrame
<1>4. CASE /\ isWriting(channel_) /\ channel_' \in {channel_, disableWriting(channel_)}
           /\ pendingFunctors_' \in {pendingFunctors_, QueueWriteComplete(pendingFunctors_)}
  <2>1. Queue' = Queue \/ QueueAdds("writeComplete")
    BY <1>1, <1>4, CompleteFacts
  <2>2. connectSet_
    BY <1>4, Established
  <2>3. mapped(channel_) => mapped(channel_)'
    BY <1>4, ChannelFacts DEF TypeOK, mapped
  <2>4. Unharmed' => Unharmed
    BY <1>1 DEF Unharmed
  <2> QED BY <1>1, <1>2, <2>1, <2>2, <2>3, <2>4, OpenLife
<1> QED BY <1>3, <1>4, WriteStageFacts

\* The functors that newConnection has queued.
LEMMA StartLife ==
  ASSUME TypeOK, Round, Life, AddConnect \/ ConnectEstablished \/ NewConnection
  PROVE  Life'
<1>1. state_ = "kConnecting"
  <2>1. CASE AddConnect
    <3>1. QueueRuns("addConnect")
      BY <2>1, RunFacts DEF AddConnect
    <3> QED BY <3>1, QueueRunsFacts DEF Life, Connecting
  <2>2. CASE ConnectEstablished
    <3>1. QueueRuns("connectEstablished")
      BY <2>2, RunFacts DEF ConnectEstablished
    <3> QED BY <3>1, QueueRunsFacts DEF Life, Connecting
  <2>3. CASE NewConnection
    <3>1. newConn # 2
      BY <2>3 DEF NewConnection
    <3> QED BY <3>1 DEF Life, Connecting
  <2> QED BY <2>1, <2>2, <2>3
<1>2. /\ channel_ = NewChannel /\ outputBuffer_ = << >> /\ accepted = 0
      /\ ~sock.finSent /\ destroys = 0 /\ lapses = {} /\ revents_ = {}
      /\ pc \in {"poll", "swap", "functors"} /\ ~destroyed
      /\ \A t \in Threads : tpc[t] \in {"idle", "gone"}
      /\ QuietAfter(Queue) /\ Connecting
  BY <1>1 DEF Life, Connecting, Leaving
<1>3. CASE AddConnect
  <2>1. QueueRuns("addConnect")
    BY <1>3, RunFacts DEF AddConnect
  <2>2. /\ connectSet_' = TRUE /\ state_' = state_ /\ pc' = "functors"
        /\ UNCHANGED <<newConn, channel_, outputBuffer_, accepted, sock, destroys, lapses, revents_,
                       destroyed, tpc>>
    BY <1>3 DEF AddConnect, RunFunctor, envVars
  <2>3. /\ \/ newConn = 1 /\ Queue' = << >>
           \/ newConn = 2 /\ Queue' = <<"connectEstablished">>
        /\ QuietAfter(Queue)'
    <3>1. newConn \in 0..2
      BY DEF TypeOK
    <3>2. newConn > 0 /\ (newConn = 2 => Queue' = <<"connectEstablished">>)
              /\ (newConn = 1 => Queue' = << >>)
      BY <1>1, <1>2, <2>1, StartMoves
    <3> QED BY <1>2, <2>1, <3>1, <3>2, QueueRunsFacts
  <2>4. Connecting'
    BY <1>1, <1>2, <2>2, <2>3 DEF Connecting
  <2>5. Leaving'
    BY <1>1, <1>2, <2>2, <2>3 DEF Leaving
  <2>6. Closing'
    BY <1>1, <2>2 DEF Closing
  <2> QED BY <2>4, <2>5, <2>6 DEF Life
<1>4. CASE NewConnection
  <2>1. /\ newConn < 2 /\ newConn' = newConn + 1 /\ functors' = functors
        /\ pendingFunctors_' = Append(pendingFunctors_,
                               IF newConn = 0 THEN "addConnect" ELSE "connectEstablished")
        /\ UNCHANGED <<state_, connectSet_, pc, channel_, outputBuffer_, accepted, sock, destroys,
                       lapses, revents_, destroyed, tpc>>
    BY <1>4 DEF NewConnection, connVars, histVars, ends
  <2>2. newConn \in {0, 1}
    BY <2>1 DEF TypeOK
  <2>3. CASE newConn = 0
    <3>1. newConn' = 1 /\ QueueAdds("addConnect")
      BY <2>1, <2>3, Kinds, QueueMoves DEF QueueAdds
    <3>2. connectSet_ = FALSE /\ Queue' = <<"addConnect">>
      BY <1>1, <1>2, <2>3, <3>1, StartMoves DEF QueueAdds
    <3>3. QuietAfter(Queue)'
      BY <1>2, <3>1, QueueAddsFacts
    <3>4. Connecting'
      BY <1>1, <1>2, <2>1, <3>1, <3>2 DEF Connecting
    <3>5. Leaving'
      BY <1>1, <1>2, <2>1, <3>3 DEF Leaving
    <3>6. Closing'
      BY <1>1, <2>1 DEF Closing
    <3> QED BY <3>4, <3>5, <3>6 DEF Life
  <2>4. CASE newConn = 1
    <3>1. newConn' = 2 /\ QueueAdds("connectEstablished")
      BY <2>1, <2>4, Kinds, QueueMoves DEF QueueAdds
    <3>2. /\ connectSet_ = TRUE => Queue' = <<"connectEstablished">>
          /\ connectSet_ = FALSE => Queue' = <<"addConnect", "connectEstablished">>
          /\ connectSet_ \in {TRUE, FALSE}
      BY <1>1, <1>2, <2>4, <3>1, StartMoves DEF QueueAdds, TypeOK
    <3>3. QuietAfter(Queue)'
      BY <1>2, <3>1, QueueAddsFacts
    <3>4. Connecting'
      BY <1>1, <1>2, <2>1, <3>1, <3>2 DEF Connecting
    <3>5. Leaving'
      BY <1>1, <1>2, <2>1, <3>3 DEF Leaving
    <3>6. Closing'
      BY <1>1, <2>1 DEF Closing
    <3> QED BY <3>4, <3>5, <3>6 DEF Life
  <2> QED BY <2>2, <2>3, <2>4
<1>5. CASE ConnectEstablished
  <2>1. QueueRuns("connectEstablished")
    BY <1>5, RunFacts DEF ConnectEstablished
  <2>2. /\ state_' = "kConnected" /\ channel_' = enableReading(channel_)
        /\ UNCHANGED <<newConn, connectSet_, destroys, lapses, revents_, destroyed, tpc>>
    BY <1>5 DEF ConnectEstablished, RunFunctor, envVars
  <2>3. newConn = 2 /\ connectSet_ = TRUE /\ Queue' = << >>
    BY <1>1, <1>2, <2>1, StartMoves
  <2>4. /\ \A kind : ~Queued(kind)'
        /\ QuietAfter(Queue)' /\ DestroyOnce(Queue)'
    <3>1. Len(Queue') = 0
      BY <2>3
    <3> QED BY <3>1 DEF Queued, Contains, QuietAfter, DestroyOnce
  <2>5. mapped(channel_)'
    <3>1. channel_.status = INIT /\ channel_ \in ChannelType
      BY <1>2 DEF NewChannel, TypeOK
    <3>2. channel_'.status = LISTEN
      BY <2>2, <3>1, ChannelFacts
    <3> QED BY <3>2 DEF mapped
  <2>6. ~(destroys' > 0) /\ destroys' = 0
    BY <1>2, <2>2
  <2>7. Connecting'
    BY <2>2, <2>3, <2>4 DEF Connecting
  <2>8. Leaving'
    BY <1>2, <2>2, <2>3, <2>4, <2>6 DEF Leaving
  <2>9. Closing'
    BY <2>2, <2>3, <2>4, <2>5, <2>6 DEF Closing
  <2> QED BY <2>7, <2>8, <2>9 DEF Life
<1> QED BY <1>3, <1>4, <1>5

\* A functor of an established connection is run.
LEMMA FunctorLife ==
  ASSUME TypeOK, Round, Life, ForceCloseInLoop \/ ConnectDestroyed \/ WriteComplete
  PROVE  Life'
<1>0. PICK x \in {"forceClose", "connectDestroyed", "writeComplete"}, next \in {"functors",
              "user"} :
         RunFunctor(x, next)
  BY DEF ForceCloseInLoop, ConnectDestroyed, WriteComplete
<1>1. /\ pc' = next
      /\ UNCHANGED <<revents_, accepted, lapses, newConn, tpc, destroyed>>
      /\ Queue # << >> /\ Head(Queue) = x
  BY <1>0, RunFacts DEF RunFunctor, envVars
<1>2. state_ # "kConnecting" /\ ~destroyed
  <2>1. state_ # "kConnecting"
    BY <1>1, StartMoves DEF Life
  <2>2. ~destroyed
    BY <1>1 DEF Life, Leaving
  <2> QED BY <2>1, <2>2
<1>3. newConn = 2 /\ ~Queued("addConnect") /\ ~Queued("connectEstablished") /\ QuietAfter(Queue)
  BY <1>2 DEF Life, Connecting, Leaving
<1>4. ASSUME QueueRuns(x), x # "connectDestroyed", x = "forceClose" => pc' # "user",
             UNCHANGED <<state_, channel_, connectSet_, destroys>>
      PROVE  Life'
  <2>1. /\ Queued(x) /\ (\A kind : Queued(kind)' => Queued(kind))
        /\ Queued("connectDestroyed") => Queued("connectDestroyed")'
        /\ QuietAfter(Queue)' /\ (DestroyOnce(Queue) => DestroyOnce(Queue)')
    BY <1>3, <1>4, QueueRunsFacts
  <2>2. Connecting'
    BY <1>1, <1>2, <1>3, <1>4, <2>1 DEF Connecting
  <2>3. destroys > 0 => pc' # "user"
    BY <1>4, <2>1 DEF Life, Leaving
  <2>4. Leaving'
    BY <1>1, <1>2, <1>3, <1>4, <2>1, <2>3 DEF Life, Leaving, registered
  <2>5. Closing'
    BY <1>1, <1>2, <1>4, <2>1 DEF Life, Closing, Unharmed, mapped
  <2> QED BY <2>2, <2>4, <2>5 DEF Life
<1>5. CASE WriteComplete
  <2>1. QueueRuns("writeComplete") /\ UNCHANGED <<state_, channel_, connectSet_, destroys>>
        /\ RunFunctor("writeComplete", "user")
    BY <1>5, RunFacts DEF WriteComplete, connVars
  <2>2. x = "writeComplete"
    BY <1>1, <2>1 DEF QueueRuns
  <2> QED BY <1>4, <2>1, <2>2
<1>6. CASE ForceCloseInLoop
  <2>1. /\ RunFunctor("forceClose", "functors") /\ UNCHANGED destroys
        /\ IF IsOpen THEN HandleClose ELSE NoClose
    BY <1>6 DEF ForceCloseInLoop
  <2>2. x = "forceClose" /\ pc' = "functors"
    BY <1>1, <2>1, RunFacts DEF RunFunctor
  <2>3. CASE NoClose
    <3>1. QueueRuns("forceClose") /\ UNCHANGED <<state_, channel_, connectSet_>>
      BY <2>1, <2>3, RunFacts DEF NoClose
    <3> QED BY <1>4, <2>1, <2>2, <3>1
  <2>4. CASE HandleClose /\ IsOpen
    <3>1. QueueRunsAdds("forceClose", "connectDestroyed")
      BY <2>1, <2>4, RunFacts, Kinds DEF HandleClose, removeConnection
    <3>2. Unharmed => connectSet_
      BY <1>2, <2>4 DEF Life, Closing, IsOpen
    <3>3. /\ \A kind : Queued(kind)' => Queued(kind) \/ kind = "connectDestroyed"
          /\ Queued("connectDestroyed")'
          /\ QuietAfter(Queue) => QuietAfter(Queue)'
          /\ DestroyOnce(Queue) /\ ~Queued("connectDestroyed") => DestroyOnce(Queue)'
      BY <3>1, QueueRunsAddsFacts
    <3> QED BY <1>1, <1>2, <2>1, <2>2, <2>4, <3>2, <3>3, CloseLife
  <2> QED BY <2>1, <2>3, <2>4
<1>7. CASE ConnectDestroyed
  <2>1. /\ QueueRuns("connectDestroyed") /\ destroys' = destroys + 1 /\ connectSet_' = connectSet_
        /\ pc = "functors" /\ pc' = IF state_ = "kConnected" THEN "user" ELSE "functors"
        /\ state_' = IF state_ = "kConnected" THEN "kDisconnected" ELSE state_
        /\ channel_' = removeChannel(IF state_ = "kConnected" THEN disableAll(channel_)
                                                              ELSE channel_)
    BY <1>7, RunFacts DEF ConnectDestroyed, RunFunctor
  <2>2. /\ Queued("connectDestroyed") /\ (\A kind : Queued(kind)' => Queued(kind))
        /\ QuietAfter(Queue)' /\ ~Queued("writeComplete")'
        /\ DestroyOnce(Queue) => DestroyOnce(Queue)' /\ ~Queued("connectDestroyed")'
    BY <1>3, <2>1, QueueRunsFacts
  <2>3. ~connectSet_ /\ state_ # "kConnected" /\ ~isWriting(channel_)
    BY <1>2, <2>2 DEF Life, Leaving
  <2>4. state_' = state_ /\ pc' = "functors" /\ channel_' = removeChannel(channel_)
    BY <2>1, <2>3
  <2>5. channel_'.status = DELETED /\ channel_'.events = channel_.events
    BY <2>4, ChannelFacts DEF TypeOK
  <2>6. ~registered(channel_)' /\ ~isWriting(channel_)'
    BY <2>3, <2>5 DEF registered, isWriting, DELETED, LISTEN
  <2>7. destroys \in Nat /\ destroys' > 0
    BY <2>1 DEF TypeOK
  <2>8. revents_' = {}
    BY <1>1, <2>1 DEF Round
  <2>9. Connecting'
    BY <1>1, <1>2, <1>3, <2>2, <2>4 DEF Connecting
  <2>10. Leaving'
    BY <1>1, <1>2, <2>1, <2>2, <2>3, <2>4, <2>5, <2>6, <2>7, <2>8 DEF Leaving
  <2>11. Closing'
    <3>1. SUFFICES ASSUME Unharmed PROVE Closing'
      BY <1>1 DEF Closing, Unharmed
    <3>2. state_ = "kDisconnected" /\ DestroyOnce(Queue) /\ ~(destroys > 0)
      BY <1>2, <2>2, <2>3, <3>1 DEF Life, Closing
    <3>3. destroys' = 1
      BY <2>1, <2>7, <3>2
    <3> QED BY <2>1, <2>2, <2>3, <2>4, <2>5, <2>8, <3>2, <3>3 DEF Closing
  <2> QED BY <2>9, <2>10, <2>11 DEF Life
<1> QED BY <1>5, <1>6, <1>7

\* The last owner of the connection lets go of it.
LEMMA LastOwnerLife ==
  ASSUME TypeOK, Life, Queue' = Queue,
         UNCHANGED <<state_, connectSet_, channel_, outputBuffer_, accepted, sock, destroys, lapses,
                     revents_, newConn>>,
         pc' \in {pc, "poll"},
         \A t \in Threads : tpc'[t] \in {tpc[t], "gone"},
         destroyed' \in BOOLEAN,
         destroyed' => Unowned /\ functors = << >> /\ \A t \in Threads : tpc'[t] = "gone"
  PROVE  Life'
<1>q. /\ \A kind : Queued(kind)' <=> Queued(kind)
      /\ QuietAfter(Queue)' <=> QuietAfter(Queue)
      /\ DestroyOnce(Queue)' <=> DestroyOnce(Queue)
  BY SameQueue
<1>1. destroyed' => Queue = << >> /\ ~connectSet_ /\ newConn = 2
  BY QueueMoves DEF Unowned
<1>2. Connecting'
  <2>1. CASE state_ = "kConnecting"
    <3>1. ~destroyed'
      BY <1>1, <2>1, StartMoves DEF Life
    <3>2. /\ pc' \in {"poll", "swap", "functors"}
          /\ \A t \in Threads : tpc'[t] \in {"idle", "gone"}
      BY <2>1 DEF Life, Connecting
    <3> QED BY <2>1, <3>1, <3>2 DEF Life, Connecting
  <2>2. CASE state_ # "kConnecting"
    BY <1>q, <2>2 DEF Life, Connecting
  <2> QED BY <2>1, <2>2
<1>3. Leaving'
  <2>1. destroyed' => Queue' = << >> /\ ~connectSet_' /\ \A t \in Threads : tpc'[t] = "gone"
    BY <1>1
  <2>2. destroys > 0 => pc' # "user"
    BY DEF Life, Leaving
  <2> QED BY <1>q, <2>1, <2>2 DEF Life, Leaving, registered
<1>4. Closing'
  BY <1>q DEF Life, Closing, Unharmed, mapped
<1> QED BY <1>2, <1>3, <1>4 DEF Life

\* The swap, the end of a batch or a callback, and the peer.
LEMMA RestLife ==
  ASSUME TypeOK, Round, Life,
         \/ SwapPending \/ BatchDone \/ CallbackReturns \/ UNCHANGED vars
         \/ PeerSends \/ PeerCloses \/ PeerResets \/ PeerReads
  PROVE  Life'
<1>1. CASE SwapPending
  <2>1. /\ pc = "swap" /\ pc' = "functors" /\ functors' = pendingFunctors_ /\ pendingFunctors_'
            = << >>
        /\ UNCHANGED <<state_, connectSet_, channel_, outputBuffer_, accepted, sock, destroys,
                lapses,
                     revents_, destroyed, newConn, tpc>>
    BY <1>1 DEF SwapPending, connVars, histVars, envVars, ends
  <2>2. functors = << >>
    BY <2>1 DEF Round
  <2>3. Queue' = Queue
    BY <2>1, <2>2, QueueMoves
  <2> QED BY <2>1, <2>3, LifeFrame
<1>2. CASE BatchDone
  <2>1. /\ pc' = "poll" /\ functors = << >> /\ UNCHANGED <<functors, pendingFunctors_>>
        /\ UNCHANGED <<state_, connectSet_, channel_, outputBuffer_, accepted, sock, destroys,
                lapses,
                     revents_, newConn, tpc>>
        /\ destroyed' = (Unowned /\ \A t \in Threads : tpc[t] = "gone")
    BY <1>2 DEF BatchDone, connVars, histVars, envVars
  <2>2. Queue' = Queue
    BY <2>1, QueueMoves
  <2>3. destroyed' \in BOOLEAN
    BY <2>1
  <2>4. destroyed' => Unowned /\ functors = << >> /\ \A t \in Threads : tpc'[t] = "gone"
    BY <2>1
  <2>5. \A t \in Threads : tpc'[t] \in {tpc[t], "gone"}
    BY <2>1
  <2> QED BY <2>1, <2>2, <2>3, <2>4, <2>5, LastOwnerLife
<1>3. CASE CallbackReturns
  <2>1. /\ pc = "user" /\ pc' \in {"write", "functors"} /\ UNCHANGED <<functors, pendingFunctors_>>
        /\ UNCHANGED <<state_, connectSet_, channel_, outputBuffer_, accepted, sock, destroys,
                lapses,
                     revents_, destroyed, newConn, tpc>>
    BY <1>3 DEF CallbackReturns, connVars, histVars, envVars, ends, TypeOK
  <2>2. Queue' = Queue /\ state_ # "kConnecting"
    BY <2>1, QueueMoves, Established
  <2> QED BY <2>1, <2>2, LifeFrame
<1>4. ASSUME UNCHANGED <<loopVars, connVars, histVars, envVars, ends>>, sock'.finSent = sock.finSent
      PROVE  Life'
  <2>1. /\ UNCHANGED <<functors, pendingFunctors_, pc>>
        /\ UNCHANGED <<state_, connectSet_, channel_, outputBuffer_, accepted, destroys, lapses,
                     revents_, destroyed, newConn, tpc>>
    BY <1>4 DEF loopVars, connVars, histVars, envVars, ends
  <2>2. Queue' = Queue
    BY <2>1, QueueMoves
  <2>3. /\ state_ = "kConnecting" => pc' \in {"poll", "swap", "functors"}
        /\ destroys > 0 => pc' # "user"
    BY <2>1 DEF Life, Connecting, Leaving
  <2> QED BY <1>4, <2>1, <2>2, <2>3, LifeFrame
<1>5. CASE UNCHANGED vars
  BY <1>4, <1>5 DEF vars
<1>6. CASE PeerSends \/ PeerCloses \/ PeerResets \/ PeerReads
  BY <1>4, <1>6, PeerFacts
<1> QED BY <1>1, <1>2, <1>3, <1>5, <1>6

\* What the client's callbacks call.
LEMMA UserLife ==
  ASSUME TypeOK, Life, UserStep
  PROVE  Life'
<1>1. /\ pc = "user"
          /\ UNCHANGED <<functors, pc, revents_, connectSet_, destroys, destroyed, newConn>>
  BY DEF UserStep, Send, SendFile, Shutdown, ForceClose, StartRead, StopRead, UserCalls, envVars
<1>2. state_ # "kConnecting" /\ ~(destroys > 0) /\ ~destroyed
  BY <1>1, Established DEF Life, Leaving
<1>3. state_ = "kConnected" => connectSet_
  BY Established
<1>c. channel_ \in ChannelType
  BY DEF TypeOK
<1>4. ASSUME NEW n \in SendSizes, Send(n)
      PROVE  Life'
  <2>0. n \in Nat \ {0}
    BY BoundsAssumption
  <2>1. PICK k \in 0..n : DirectWrite(n, k) /\ channel_' \in {channel_, applyEpollout(channel_)}
    BY <1>4, <2>0, SendFacts
  <2>2. Queue' = Queue \/ QueueAdds("writeComplete")
    BY <1>1, <2>1, CompleteFacts DEF DirectWrite
  <2>3. state_ = "kConnected" /\ state_' = state_ /\ lapses' = lapses
    BY <1>4 DEF Send, Sends
  <2>4. mapped(channel_) => mapped(channel_)'
    BY <1>c, <2>1, EpolloutFacts DEF mapped
  <2>5. Unharmed' => Unharmed
    BY <2>3 DEF Unharmed
  <2> QED BY <1>1, <1>3, <2>2, <2>3, <2>4, <2>5, OpenLife
<1>5. ASSUME NEW n \in FileSizes, SendFile(n)
      PROVE  Life'
  <2>0. n \in Nat \ {0}
    BY BoundsAssumption
  <2>1. PICK k \in 0..n : /\ DirectWrite(n, k) /\ channel_' \in {channel_, applyEpollout(channel_)}
                          /\ lapses' \in {lapses, lapses \cup {"fileCut"}}
    BY <1>5, <2>0, SendFileFacts
  <2>2. Queue' = Queue \/ QueueAdds("writeComplete")
    BY <1>1, <2>1, CompleteFacts DEF DirectWrite
  <2>3. state_ = "kConnected" /\ state_' = state_
    BY <1>5 DEF SendFile, Sends
  <2>4. mapped(channel_) => mapped(channel_)'
    BY <1>c, <2>1, EpolloutFacts DEF mapped
  <2>5. Unharmed' => Unharmed
    BY <2>1 DEF Unharmed
  <2> QED BY <1>1, <1>3, <2>2, <2>3, <2>4, <2>5, OpenLife
<1>6. CASE Shutdown
  <2>1. state_ = "kConnected" /\ state_' = "kDisconnecting"
            /\ UNCHANGED <<pendingFunctors_, channel_, lapses>>
    BY <1>6 DEF Shutdown
  <2>2. Queue' = Queue /\ (Unharmed' => Unharmed) /\ (mapped(channel_) => mapped(channel_)')
    BY <1>1, <2>1, QueueMoves DEF Unharmed, mapped
  <2> QED BY <1>1, <1>3, <2>1, <2>2, OpenLife
<1>7. CASE ForceClose
  <2>1. /\ state_ \in {"kConnected", "kDisconnecting"} /\ state_' = "kDisconnecting"
        /\ UNCHANGED <<channel_, lapses>>
        /\ pendingFunctors_' = Append(pendingFunctors_, "forceClose")
    BY <1>7 DEF ForceClose
  <2>2. QueueAdds("forceClose")
    BY <1>1, <2>1, QueueMoves, Kinds DEF QueueAdds
  <2>3. (Unharmed' => Unharmed) /\ (mapped(channel_) => mapped(channel_)')
        /\ (isWriting(channel_)' => isWriting(channel_))
    BY <2>1 DEF Unharmed, mapped, isWriting
  <2>4. CASE connectSet_
    BY <1>1, <1>2, <2>1, <2>2, <2>3, <2>4, OpenLife
  <2>5. CASE ~connectSet_
    <3>1. ~isWriting(channel_)
      BY <2>5, Established
    <3>2. ~Unharmed
      BY <1>2, <2>1, <2>5 DEF Life, Closing
    <3> QED BY <1>1, <1>2, <2>1, <2>2, <2>3, <2>5, <3>1, <3>2, ClosedLife
  <2> QED BY <2>4, <2>5
<1>8. CASE StartRead
  <2>1. /\ state_' = state_ /\ channel_' = enableReading(channel_) /\ pendingFunctors_'
            = pendingFunctors_
        /\ lapses' = lapses \cup (IF state_ = "kDisconnected" THEN {"lateRead"} ELSE {})
    BY <1>8 DEF StartRead
  <2>2. Queue' = Queue
    BY <1>1, <2>1, QueueMoves
  <2>3. Unharmed' => Unharmed /\ state_ # "kDisconnected"
    BY <2>1 DEF Unharmed
  <2>4. (mapped(channel_) => mapped(channel_)') /\ (isWriting(channel_)' => isWriting(channel_))
    BY <1>c, <2>1, ChannelFacts DEF mapped, isWriting
  <2>5. CASE connectSet_
    BY <1>1, <1>2, <2>1, <2>2, <2>3, <2>4, <2>5, OpenLife
  <2>6. CASE ~connectSet_
    <3>1. ~isWriting(channel_)
      BY <2>6, Established
    <3>2. ~Unharmed'
      BY <1>2, <2>3, <2>6 DEF Life, Closing
    <3> QED BY <1>1, <1>2, <2>1, <2>2, <2>4, <2>6, <3>1, <3>2, ClosedLife
  <2> QED BY <2>5, <2>6
<1>9. CASE StopRead
  <2>1. /\ state_' = state_ /\ channel_' = disableReading(channel_) /\ pendingFunctors_'
            = pendingFunctors_
        /\ lapses' = lapses
    BY <1>9 DEF StopRead
  <2>2. Queue' = Queue /\ (Unharmed' => Unharmed)
    BY <1>1, <2>1, QueueMoves DEF Unharmed
  <2>3. (mapped(channel_) => mapped(channel_)') /\ (isWriting(channel_)' => isWriting(channel_))
    BY <1>c, <2>1, ChannelFacts DEF mapped, isWriting
  <2>4. CASE connectSet_
    BY <1>1, <1>2, <2>1, <2>2, <2>3, <2>4, OpenLife
  <2>5. CASE ~connectSet_
    <3>1. ~isWriting(channel_)
      BY <2>5, Established
    <3>2. Unharmed => channel_' = channel_
      <4>1. SUFFICES ASSUME Unharmed PROVE channel_' = channel_
        OBVIOUS
      <4>2. channel_ = [events |-> {}, status |-> NOT_LISTEN]
        <5>1. destroys # 1
          BY <1>2
        <5> QED BY <1>2, <2>5, <4>1, <5>1 DEF Life, Closing
      <4>3. channel_.events = {} /\ mapped(channel_)
        BY <4>2 DEF mapped
      <4>4. channel_' \in ChannelType /\ channel_'.events = {} /\ channel_'.status = NOT_LISTEN
        BY <1>c, <2>1, <4>3, ChannelFacts
      <4> QED BY <4>2, <4>4, ChannelEqual
    <3> QED BY <1>1, <1>2, <2>1, <2>2, <2>3, <2>5, <3>1, <3>2, ClosedLife
  <2> QED BY <2>4, <2>5
<1> QED BY <1>4, <1>5, <1>6, <1>7, <1>8, <1>9 DEF UserStep

\* forceClose in another thread: its test, its store and its queueInLoop.
LEMMA ThreadLife ==
  ASSUME TypeOK, Round, Life, NEW t \in Threads, ThreadStep(t)
  PROVE  Life'
<1>1. ASSUME NEW from, NEW to, ThreadAt(t, from, to)
      PROVE  /\ tpc[t] = from
             /\ UNCHANGED <<functors, pc, revents_, channel_, outputBuffer_, connectSet_, sock,
                            accepted, destroys, newConn>>
             /\ \A u \in Threads : tpc'[u] = IF u = t THEN to ELSE tpc[u]
  BY <1>1 DEF ThreadAt, TypeOK
<1>2. ASSUME tpc[t] \in {"tested", "set"} \/ state_ # "kConnecting",
             tpc[t] # "gone", UNCHANGED <<pc, revents_, channel_, connectSet_, destroys, newConn,
                     destroyed>>,
             state_' \in {state_, "kDisconnecting"}, Unharmed' => Unharmed,
             state_' # state_ /\ state_ = "kDisconnected" => ~Unharmed',
             Queue' = Queue \/ QueueAdds("forceClose")
      PROVE  Life'
  <2>1. state_ # "kConnecting" /\ state_' # "kConnecting"
    BY <1>2, Established
  <2>2. ~destroyed
    BY <1>2 DEF Life, Leaving
  <2>3. /\ mapped(channel_) => mapped(channel_)'
        /\ isWriting(channel_)' <=> isWriting(channel_)
    BY <1>2 DEF mapped, isWriting
  <2>4. CASE connectSet_
    BY <1>2, <2>1, <2>3, <2>4, OpenLife
  <2>5. CASE ~connectSet_
    <3>1. ~isWriting(channel_)
      BY <2>5, Established
    <3>2. Unharmed => state_ = "kDisconnected"
      BY <2>1, <2>5 DEF Life, Closing
    <3>3. Unharmed' => Unharmed /\ state_' = state_ /\ channel_' = channel_
      BY <1>2, <3>2
    <3> QED BY <1>2, <2>1, <2>2, <2>3, <2>5, <3>1, <3>3, ClosedLife
  <2> QED BY <2>4, <2>5
<1>3. CASE ForceCloseTest(t)
  <2>1. /\ ThreadAt(t, "idle", "tested") /\ state_ \in {"kConnected", "kDisconnecting"}
        /\ UNCHANGED <<pendingFunctors_, state_, lapses, destroyed>>
    BY <1>3 DEF ForceCloseTest, ends
  <2>2. Queue' = Queue /\ (Unharmed' => Unharmed)
    BY <1>1, <2>1, QueueMoves DEF Unharmed
  <2> QED BY <1>1, <1>2, <2>1, <2>2
<1>4. CASE ForceCloseSet(t)
  <2>1. /\ ThreadAt(t, "tested", "set") /\ state_' = "kDisconnecting"
        /\ UNCHANGED <<pendingFunctors_, destroyed>>
        /\ lapses' = lapses \cup (IF state_ = "kDisconnected" THEN {"race"} ELSE {})
    BY <1>4 DEF ForceCloseSet, ends
  <2>2. Queue' = Queue
    BY <1>1, <2>1, QueueMoves
  <2>3. (Unharmed' => Unharmed) /\ (state_ = "kDisconnected" => ~Unharmed')
    BY <2>1 DEF Unharmed
  <2> QED BY <1>1, <1>2, <2>1, <2>2, <2>3
<1>5. CASE ForceCloseQueue(t)
  <2>1. /\ ThreadAt(t, "set", "idle")
        /\ UNCHANGED <<state_, lapses, destroyed>>
        /\ pendingFunctors_' = Append(pendingFunctors_, "forceClose")
    BY <1>5 DEF ForceCloseQueue, ends
  <2>2. QueueAdds("forceClose") /\ (Unharmed' => Unharmed)
    BY <1>1, <2>1, QueueMoves, Kinds DEF Unharmed, QueueAdds
  <2> QED BY <1>1, <1>2, <2>1, <2>2
<1>6. CASE Release(t)
  <2>1. /\ ThreadAt(t, "idle", "gone") /\ UNCHANGED <<pendingFunctors_, state_, lapses>>
        /\ destroyed' = (Unowned /\ ~held /\ \A u \in Threads \ {t} : tpc[u] = "gone")
    BY <1>6 DEF Release
  <2>2. Queue' = Queue
    BY <1>1, <2>1, QueueMoves
  <2>3. destroyed' \in BOOLEAN
    BY <2>1
  <2>4. \A u \in Threads : tpc'[u] \in {tpc[u], "gone"}
    BY <1>1, <2>1
  <2>5. destroyed' => Unowned /\ functors = << >> /\ \A u \in Threads : tpc'[u] = "gone"
    BY <1>1, <2>1 DEF Round
  <2> QED BY <1>1, <2>1, <2>2, <2>3, <2>4, <2>5, LastOwnerLife
<1> QED BY <1>3, <1>4, <1>5, <1>6 DEF ThreadStep

\* Every step keeps the life of the connection.
LEMMA LifeStep ==
  ASSUME TypeOK, Round, Life, [Next]_vars
  PROVE  Life'
BY StartLife, StageLife, WriteLife, FunctorLife, RestLife, UserLife, ThreadLife
   DEF Next, LoopStep, Over

\* What the invariant says of the channel when the connection is closed or freed.
LEMMA ClosedAndFreed ==
  ASSUME TypeOK, Life
  PROVE  NoDanglingChannel /\ ClosedIsDeaf
<1>1. NoDanglingChannel
  BY Established DEF NoDanglingChannel, registered, mapped, LISTEN, NOT_LISTEN, DELETED
<1>2. ClosedIsDeaf
  <2>1. SUFFICES ASSUME state_ = "kDisconnected", Unharmed PROVE ~registered(channel_)
    BY DEF ClosedIsDeaf, Unharmed
  <2>2. channel_.status \in {NOT_LISTEN, DELETED}
    BY <2>1 DEF Life, Closing
  <2> QED BY <2>2 DEF registered, LISTEN, NOT_LISTEN, DELETED
<1> QED BY <1>1, <1>2

-----------------------------------------------------------------------------
(***************************************************************************)
(* The asserts.                                                            *)
(***************************************************************************)
LEMMA LapsesStay ==
  ASSUME TypeOK, [Next]_vars
  PROVE  lapses \subseteq lapses'
<1>1. CASE UserStep
  <2>1. ASSUME NEW n \in FileSizes, SendFile(n)
        PROVE  lapses \subseteq lapses'
    BY <2>1 DEF SendFile, sendFileInLoop
  <2> QED BY <1>1, <2>1 DEF UserStep, Send, Shutdown, ForceClose, StartRead, StopRead
<1>2. ASSUME NEW t \in Threads, ThreadStep(t)
      PROVE  lapses \subseteq lapses'
  BY <1>2 DEF ThreadStep, ForceCloseTest, ForceCloseSet, ForceCloseQueue, Release
<1>3. CASE Poll \/ CloseStage \/ ErrorStage \/ ReadStage \/ WriteStage \/ SwapPending \/ BatchDone
           \/ CallbackReturns \/ NewConnection \/ UNCHANGED vars
  BY <1>3 DEF Poll, CloseStage, ErrorStage, ReadStage, WriteStage, SwapPending, BatchDone,
              CallbackReturns, NewConnection, vars, histVars
<1>4. CASE AddConnect \/ ConnectEstablished \/ ForceCloseInLoop \/ ConnectDestroyed \/ WriteComplete
  BY <1>4 DEF AddConnect, ConnectEstablished, ForceCloseInLoop, ConnectDestroyed, WriteComplete,
              RunFunctor
<1>5. CASE PeerSends \/ PeerCloses \/ PeerResets \/ PeerReads
  BY <1>5, PeerFacts DEF histVars
<1> QED BY <1>1, <1>2, <1>3, <1>4, <1>5 DEF Next, LoopStep, Over

\* handleClose is entered with an open connection, connectEstablished with a new one
\* and the destructor with a closed one.
LEMMA AbortStep ==
  ASSUME TypeOK, Round, Life, [Next]_vars, Unharmed, aborted'
  PROVE  aborted
<1>1. ASSUME HandleClose, state_ # "kConnecting", connectSet_
      PROVE  ~aborted'
  <2>1. state_ \in {"kConnected", "kDisconnecting"}
    BY <1>1 DEF Life, Closing, TypeOK, States
  <2> QED BY <1>1, <2>1 DEF HandleClose
<1>2. ASSUME NoClose PROVE aborted
  BY <1>2 DEF NoClose
<1>3. CASE CloseStage
  <2>1. HandleClose \/ NoClose
    BY <1>3 DEF CloseStage
  <2>2. pc = "close" /\ state_ # "kConnecting"
    BY <1>3, Established DEF CloseStage
  <2>3. connectSet_
    BY <2>2 DEF Life, Closing
  <2> QED BY <1>1, <1>2, <2>1, <2>2, <2>3
<1>4. CASE ReadStage
  <2>1. NoClose \/ (HandleClose /\ revents_ \cap {"IN", "RDHUP"} # {})
    BY <1>4 DEF ReadStage
  <2>2. pc = "read" /\ state_ # "kConnecting"
    BY <1>4, Established DEF ReadStage
  <2>3. revents_ \cap {"IN", "RDHUP"} # {} => connectSet_
    BY <2>2 DEF Life, Closing, Round
  <2> QED BY <1>1, <1>2, <2>1, <2>2, <2>3
<1>5. CASE ForceCloseInLoop
  <2>1. NoClose \/ (HandleClose /\ IsOpen)
    BY <1>5 DEF ForceCloseInLoop
  <2>2. IsOpen => state_ # "kConnecting" /\ connectSet_
    BY DEF IsOpen, Life, Closing
  <2> QED BY <1>1, <1>2, <2>1, <2>2
<1>6. CASE ConnectEstablished
  <2>1. QueueRuns("connectEstablished") /\ aborted' = (state_ # "kConnecting")
    BY <1>6, RunFacts DEF ConnectEstablished
  <2>2. state_ = "kConnecting"
    BY <2>1, QueueRunsFacts DEF Life, Connecting
  <2> QED BY <2>1, <2>2
<1>7. ASSUME Unowned, functors = << >>
      PROVE  state_ = "kDisconnected"
  <2>1. ~connectSet_ /\ newConn = 2 /\ Queue = << >>
    BY <1>7, QueueMoves DEF Unowned
  <2>2. state_ # "kConnecting"
    BY <2>1, StartMoves DEF Life
  <2> QED BY <2>1, <2>2 DEF Life, Closing
<1>8. CASE BatchDone
  <2>1. functors = << >> /\ (aborted' => Unowned /\ state_ # "kDisconnected")
    BY <1>8 DEF BatchDone
  <2> QED BY <1>7, <2>1
<1>9. ASSUME NEW t \in Threads, ThreadStep(t)
      PROVE  aborted
  <2>1. CASE Release(t)
    <3>1. aborted' => Unowned /\ ~held /\ state_ # "kDisconnected"
      BY <2>1 DEF Release
    <3>2. ~held => functors = << >>
      BY DEF Round
    <3> QED BY <1>7, <3>1, <3>2
  <2>2. CASE ForceCloseTest(t) \/ ForceCloseSet(t) \/ ForceCloseQueue(t)
    BY <2>2 DEF ForceCloseTest, ForceCloseSet, ForceCloseQueue, ends
  <2> QED BY <1>9, <2>1, <2>2 DEF ThreadStep
<1>10. CASE Poll \/ ErrorStage \/ WriteStage \/ SwapPending \/ CallbackReturns \/ NewConnection
            \/ UNCHANGED vars
  BY <1>10 DEF Poll, ErrorStage, WriteStage, SwapPending, CallbackReturns, NewConnection, vars, ends
<1>11. CASE AddConnect \/ ConnectDestroyed \/ WriteComplete
  BY <1>11 DEF AddConnect, ConnectDestroyed, WriteComplete
<1>12. CASE UserStep
  BY <1>12 DEF UserStep, Send, SendFile, Shutdown, ForceClose, StartRead, StopRead, UserCalls
<1>13. CASE PeerSends \/ PeerCloses \/ PeerResets \/ PeerReads
  BY <1>13, PeerFacts DEF ends
<1> QED BY <1>3, <1>4, <1>5, <1>6, <1>8, <1>9, <1>10, <1>11, <1>12, <1>13 DEF Next, LoopStep, Over

\* Every step keeps OneTeardown.
LEMMA TeardownStep ==
  ASSUME TypeOK, TypeOK', Round, Life, Life', OneTeardown, [Next]_vars
  PROVE  OneTeardown'
<1>1. SUFFICES ASSUME Unharmed' PROVE ~aborted' /\ destroys' <= 1
  BY DEF OneTeardown, Unharmed, DestroyedOnce
<1>2. Unharmed
  BY <1>1, LapsesStay DEF Unharmed
<1>3. ~aborted'
  BY <1>2, AbortStep DEF OneTeardown, Unharmed
<1>4. destroys' <= 1
  <2>1. CASE state_' = "kConnecting"
    <3>1. destroys' = 0
      BY <2>1 DEF Life, Connecting
    <3> QED BY <3>1
  <2>2. CASE state_' # "kConnecting"
    <3>1. destroys' = 0 \/ destroys' = 1
      BY <1>1, <2>2 DEF Life, Leaving, Closing
    <3> QED BY <3>1
  <2> QED BY <2>1, <2>2
<1> QED BY <1>3, <1>4

-----------------------------------------------------------------------------
(***************************************************************************)
(* The output.                                                             *)
(***************************************************************************)
Sent == FinAfterData /\ Output /\ StreamIntact /\ ShortAnswers

\* A step that neither accepts nor writes anything and that does not shut down.
Silent ==
  /\ UNCHANGED <<outputBuffer_, wire, accepted>> /\ lapses \subseteq lapses'
  /\ sock'.finSent = sock.finSent /\ sock'.inflight <= sock.inflight
  /\ sock'.rst = "none" => sock.rst = "none"
  /\ isWriting(channel_)' => isWriting(channel_)
  /\ state_' = "kConnected" =>
       \/ state_ = "kConnected" /\ (isWriting(channel_) => isWriting(channel_)')
       \/ outputBuffer_ = << >> /\ ~sock.finSent

\* Such a step keeps all that is said of the output.
LEMMA SilentSent ==
  ASSUME TypeOK, TypeOK', Sent, Silent
  PROVE  Sent'
<1>1. FinAfterData'
  BY DEF Sent, Silent, FinAfterData
<1>2. Output'
  <2>1. state_' = "kConnected" => ~sock'.finSent /\ (outputBuffer_' # << >> => isWriting(channel_)')
    BY DEF Sent, Silent, Output
  <2>2. sock'.inflight <= Len(wire') /\ Len(wire') + Len(outputBuffer_') <= accepted'
    <3>1. sock.inflight \in 0..SndBuf /\ sock'.inflight \in 0..SndBuf
      BY DEF TypeOK, SocketType
    <3>2. wire \in Seq(Nat) /\ Len(wire) \in Nat
      BY DEF TypeOK
    <3>3. sock'.inflight <= sock.inflight /\ sock.inflight <= Len(wire)
      BY DEF Sent, Silent, Output
    <3>4. Len(wire') = Len(wire) /\ Len(wire') + Len(outputBuffer_') <= accepted'
      BY DEF Sent, Silent, Output
    <3> QED BY <3>1, <3>2, <3>3, <3>4, BoundsAssumption
  <2> QED BY <2>1, <2>2 DEF Output
<1>3. StreamIntact'
  BY DEF Sent, Silent, StreamIntact
<1>4. ShortAnswers'
  BY DEF Sent, Silent, ShortAnswers
<1> QED BY <1>1, <1>2, <1>3, <1>4 DEF Sent

\* Silent are the stages of handleEvent before handleWrite,
LEMMA SilentStages ==
  ASSUME TypeOK, Life, Poll \/ CloseStage \/ ErrorStage \/ ReadStage
  PROVE  Silent
<1>s. sock \in SocketType /\ sock.inflight \in 0..SndBuf
  BY DEF TypeOK, SocketType
<1>i. sock.inflight <= sock.inflight
  BY <1>s, BoundsAssumption
<1>z. 0 \in 0..MaxIn
  BY BoundsAssumption
<1>1. /\ UNCHANGED <<outputBuffer_, wire, accepted, lapses>>
  BY DEF Poll, CloseStage, ErrorStage, ReadStage, histVars, connVars, HandleClose, NoClose
<1>2. HandleClose \/ UNCHANGED <<state_, channel_>>
  BY DEF Poll, CloseStage, ErrorStage, ReadStage, connVars, NoClose
<1>3. /\ isWriting(channel_)' => isWriting(channel_)
      /\ state_' = "kConnected" => state_ = "kConnected"
          /\ (isWriting(channel_) => isWriting(channel_)')
  <2>1. disableAll(channel_).events = {}
    BY ChannelFacts DEF TypeOK
  <2> QED BY <1>2, <2>1 DEF HandleClose, isWriting
<1>4. /\ sock'.finSent = sock.finSent /\ sock'.inflight = sock.inflight
      /\ sock'.rst = "none" => sock.rst = "none"
  <2> DEFINE s == [sock EXCEPT !.rcvd = 0]
             p == [sock EXCEPT !.edge = FALSE]
  <2>1. s \in SocketType /\ s.finSent = sock.finSent /\ s.inflight = sock.inflight /\ s.rst
            = sock.rst
    BY <1>s, <1>z DEF SocketType
  <2>2. p \in SocketType /\ p.finSent = sock.finSent /\ p.inflight = sock.inflight /\ p.rst
            = sock.rst
    BY <1>s DEF SocketType
  <2>3. sock' \in {sock, p, Rearm(sock, channel_'), SockError(sock), s, SockError(s), Rearm(s,
                channel_')}
    BY DEF Poll, CloseStage, ErrorStage, ReadStage
  <2> HIDE DEF s, p
  <2> QED BY <1>s, <2>1, <2>2, <2>3, RearmFacts, SockErrorFacts
<1>5. sock'.inflight <= sock.inflight
  BY <1>i, <1>4
<1> QED BY <1>1, <1>3, <1>4, <1>5 DEF Silent

\* the functors,
LEMMA SilentFunctors ==
  ASSUME TypeOK, Life, \/ AddConnect \/ ConnectEstablished \/ ForceCloseInLoop
                       \/ ConnectDestroyed \/ WriteComplete
  PROVE  Silent
<1>s. sock \in SocketType /\ sock.inflight \in 0..SndBuf /\ channel_ \in ChannelType
  BY DEF TypeOK, SocketType
<1>i. sock.inflight <= sock.inflight
  BY <1>s, BoundsAssumption
<1>1. UNCHANGED <<outputBuffer_, wire, accepted, lapses>>
  BY DEF AddConnect, ConnectEstablished, ForceCloseInLoop, ConnectDestroyed, WriteComplete,
         RunFunctor, connVars, HandleClose, NoClose
<1>2. /\ sock'.finSent = sock.finSent /\ sock'.inflight = sock.inflight /\ sock'.rst = sock.rst
  <2>1. sock' \in {sock, Rearm(sock, channel_')}
    BY DEF AddConnect, ConnectEstablished, ForceCloseInLoop, ConnectDestroyed, WriteComplete
  <2> QED BY <1>s, <2>1, RearmFacts
<1>3. sock'.inflight <= sock.inflight
  BY <1>i, <1>2
<1>4. CASE ConnectEstablished
  <2>1. channel_' = enableReading(channel_) /\ QueueRuns("connectEstablished")
    BY <1>4, RunFacts DEF ConnectEstablished
  <2>2. outputBuffer_ = << >> /\ ~sock.finSent
    <3>1. Queued("connectEstablished")
      BY <2>1, QueueRunsFacts
    <3> QED BY <3>1 DEF Life, Connecting
  <2>3. isWriting(channel_)' => isWriting(channel_)
    BY <1>s, <2>1, ChannelFacts DEF isWriting
  <2> QED BY <1>1, <1>2, <1>3, <2>2, <2>3 DEF Silent
<1>5. CASE AddConnect \/ ForceCloseInLoop \/ ConnectDestroyed \/ WriteComplete
  <2>1. \/ UNCHANGED <<state_, channel_>>
        \/ state_' = "kDisconnected"
            /\ channel_' \in {disableAll(channel_), removeChannel(disableAll(channel_))}
        \/ state_' = state_ /\ channel_' = removeChannel(channel_)
    BY <1>5 DEF AddConnect, ForceCloseInLoop, ConnectDestroyed, WriteComplete, connVars,
                HandleClose, NoClose
  <2>2. /\ disableAll(channel_).events = {} /\ removeChannel(disableAll(channel_)).events = {}
        /\ removeChannel(channel_).events = channel_.events
    BY <1>s, ChannelFacts
  <2>3. /\ isWriting(channel_)' => isWriting(channel_)
        /\ state_' = "kConnected" => state_ = "kConnected"
            /\ (isWriting(channel_) => isWriting(channel_)')
    BY <2>1, <2>2 DEF isWriting
  <2> QED BY <1>1, <1>2, <1>3, <2>3 DEF Silent
<1> QED BY <1>4, <1>5

\* and everything else but send, sendFile, shutdown and handleWrite.
LEMMA SilentRest ==
  ASSUME TypeOK, \/ SwapPending \/ BatchDone \/ CallbackReturns \/ NewConnection
                 \/ PeerSends \/ PeerCloses \/ PeerResets \/ PeerReads \/ UNCHANGED vars
                 \/ ForceClose \/ StartRead \/ StopRead \/ \E t \in Threads : ThreadStep(t)
  PROVE  Silent
<1>s. sock \in SocketType /\ sock.inflight \in 0..SndBuf /\ channel_ \in ChannelType
  BY DEF TypeOK, SocketType
<1>i. sock.inflight <= sock.inflight
  BY <1>s, BoundsAssumption
<1>1. CASE SwapPending \/ BatchDone \/ CallbackReturns \/ NewConnection \/ UNCHANGED vars
  <2>1. UNCHANGED <<outputBuffer_, wire, accepted, lapses, sock, channel_, state_>>
    BY <1>1 DEF SwapPending, BatchDone, CallbackReturns, NewConnection, vars, connVars, histVars
  <2> QED BY <1>i, <2>1 DEF Silent, isWriting
<1>2. CASE PeerSends \/ PeerCloses \/ PeerResets \/ PeerReads
  BY <1>2, PeerFacts DEF Silent, isWriting, connVars, histVars
<1>3. CASE ForceClose
  <2>1. UNCHANGED <<outputBuffer_, wire, accepted, lapses, sock, channel_>> /\ state_'
            = "kDisconnecting"
    BY <1>3 DEF ForceClose
  <2> QED BY <1>i, <2>1 DEF Silent, isWriting
<1>4. CASE StartRead \/ StopRead
  <2>1. /\ UNCHANGED <<outputBuffer_, wire, accepted, state_>> /\ sock' = Rearm(sock, channel_')
        /\ channel_' \in {enableReading(channel_), disableReading(channel_)}
        /\ lapses \subseteq lapses'
    BY <1>4 DEF StartRead, StopRead
  <2>2. sock'.finSent = sock.finSent /\ sock'.inflight = sock.inflight /\ sock'.rst = sock.rst
    BY <1>s, <2>1, RearmFacts
  <2>3. isWriting(channel_)' <=> isWriting(channel_)
    BY <1>s, <2>1, ChannelFacts DEF isWriting
  <2>4. sock'.inflight <= sock.inflight
    BY <1>i, <2>2
  <2> QED BY <2>1, <2>2, <2>3, <2>4 DEF Silent
<1>5. ASSUME NEW t \in Threads, ThreadStep(t)
      PROVE  Silent
  <2>1. /\ UNCHANGED <<outputBuffer_, wire, accepted, sock, channel_>>
        /\ state_' \in {state_, "kDisconnecting"} /\ lapses \subseteq lapses'
    BY <1>5 DEF ThreadStep, ForceCloseTest, ForceCloseSet, ForceCloseQueue, Release, ThreadAt
  <2> QED BY <1>i, <2>1 DEF Silent, isWriting
<1> QED BY <1>1, <1>2, <1>3, <1>4, <1>5

\* The bytes of the next send continue the numbering.
LEMMA NumbersGrow ==
  ASSUME NEW a \in Nat, NEW n \in Nat, NEW b \in Seq(Nat), Len(b) = n,
         \A i \in 1..n : b[i] = a + i
  PROVE  [i \in 1..a |-> i] \o b = [i \in 1..(a + n) |-> i]
<1>1. PICK w \in Seq(Nat) : w = [i \in 1..a |-> i] /\ Len(w) = a /\ \A i \in 1..a : w[i] = i
  <2>1. [i \in 1..a |-> i] \in Seq(Nat) /\ Len([i \in 1..a |-> i]) = a
    OBVIOUS
  <2> QED BY <2>1
<1>2. PICK v \in Seq(Nat) : v = [i \in 1..(a + n) |-> i] /\ Len(v) = a + n
                            /\ \A i \in 1..(a + n) : v[i] = i
  <2>1. [i \in 1..(a + n) |-> i] \in Seq(Nat) /\ Len([i \in 1..(a + n) |-> i]) = a + n
    OBVIOUS
  <2> QED BY <2>1
<1>c. /\ w \o b \in Seq(Nat) /\ Len(w \o b) = Len(w) + Len(b)
      /\ \A i \in 1..(Len(w) + Len(b)) : (w \o b)[i] = IF i <= Len(w) THEN w[i] ELSE b[i - Len(w)]
  BY ConcatProperties
<1>3. PICK u \in Seq(Nat) : u = w \o b /\ Len(u) = Len(w) + Len(b)
        /\ \A i \in 1..(Len(w) + Len(b)) : u[i] = IF i <= Len(w) THEN w[i] ELSE b[i - Len(w)]
  BY <1>c, Zenon
<1>4. /\ Len(u) = a + n
      /\ \A i \in 1..(a + n) : u[i] = IF i <= a THEN w[i] ELSE b[i - a]
  BY <1>1, <1>3
<1>5. \A i \in 1..(a + n) : u[i] = v[i]
  <2> TAKE i \in 1..(a + n)
  <2>1. CASE i <= a
    BY <1>1, <1>2, <1>4, <2>1
  <2>2. CASE ~(i <= a)
    <3>1. i - a \in 1..n
      BY <2>2
    <3>2. b[i - a] = a + (i - a)
      BY <3>1
    <3> QED BY <1>2, <1>4, <2>2, <3>2
  <2> QED BY <2>1, <2>2
<1>6. u = v
  BY <1>2, <1>4, <1>5
<1> QED BY <1>1, <1>2, <1>3, <1>6

\* Concatenation is associative.
LEMMA Concat3 ==
  ASSUME NEW w \in Seq(Nat), NEW p \in Seq(Nat), NEW l \in Seq(Nat)
  PROVE  (w \o p) \o l = w \o (p \o l)
  OBVIOUS

\* handleWrite moves bytes from the front of the output to the end of the wire.
LEMMA WriteSent ==
  ASSUME TypeOK, TypeOK', Sent, WriteStage
  PROVE  Sent'
<1>s. sock \in SocketType /\ sock.inflight \in 0..SndBuf
  BY DEF TypeOK, SocketType
<1>1. UNCHANGED <<state_, accepted, lapses>>
  BY DEF WriteStage
<1>2. CASE /\ UNCHANGED <<channel_, outputBuffer_, wire>>
           /\ sock'.finSent = sock.finSent /\ sock'.inflight = sock.inflight
           /\ sock'.rst = "none" => sock.rst = "none"
  <2>1. sock'.inflight <= sock.inflight
    BY <1>s, <1>2, BoundsAssumption
  <2>2. Silent
    BY <1>1, <1>2, <2>1 DEF Silent, isWriting
  <2> QED BY <2>2, SilentSent
<1>3. ASSUME NEW k \in 1..Len(outputBuffer_),
             outputBuffer_' = SubSeq(outputBuffer_, k + 1, Len(outputBuffer_)),
             wire' = wire \o SubSeq(outputBuffer_, 1, k),
             sock'.inflight = sock.inflight + k, sock'.rst = sock.rst,
             \/ sock'.finSent = sock.finSent /\ UNCHANGED channel_
             \/ outputBuffer_' = << >>
                 /\ (sock'.finSent => sock.finSent \/ state_ = "kDisconnecting")
      PROVE  Sent'
  <2>0. outputBuffer_ \in Seq(Nat) /\ wire \in Seq(Nat) /\ Len(outputBuffer_) \in Nat
            /\ Len(wire) \in Nat
        /\ accepted \in Nat
    BY DEF TypeOK
  <2>1. PICK p \in Seq(Nat), l \in Seq(Nat) :
          /\ p = SubSeq(outputBuffer_, 1, k) /\ l = SubSeq(outputBuffer_, k + 1, Len(outputBuffer_))
          /\ Len(p) = k /\ Len(l) = Len(outputBuffer_) - k /\ p \o l = outputBuffer_
    <3>1. k \in 0..Len(outputBuffer_)
      OBVIOUS
    <3>2. /\ SubSeq(outputBuffer_, 1, k) \in Seq(Nat)
          /\ SubSeq(outputBuffer_, k + 1, Len(outputBuffer_)) \in Seq(Nat)
          /\ Len(SubSeq(outputBuffer_, 1, k)) = k
          /\ Len(SubSeq(outputBuffer_, k + 1, Len(outputBuffer_))) = Len(outputBuffer_) - k
          /\ SubSeq(outputBuffer_, 1, k) \o SubSeq(outputBuffer_, k + 1, Len(outputBuffer_))
               = outputBuffer_
      BY <2>0, <3>1, SplitSeq, Zenon
    <3> QED BY <3>2, Zenon
  <2>2. wire' = wire \o p /\ outputBuffer_' = l
    BY <1>3, <2>1
  <2>3. wire' \o outputBuffer_' = wire \o outputBuffer_
    <3>1. PICK w \in Seq(Nat) : w = wire
      BY <2>0, Zenon
    <3>2. (w \o p) \o l = w \o (p \o l)
      BY Concat3
    <3> QED BY <2>1, <2>2, <3>1, <3>2, Zenon
  <2>4. Len(wire') = Len(wire) + k /\ Len(outputBuffer_') = Len(outputBuffer_) - k
    BY <2>0, <2>1, <2>2
  <2>5. outputBuffer_ # << >>
    BY <2>0
  <2>6. ~sock.finSent
    BY <2>5 DEF Sent, FinAfterData
  <2>7. FinAfterData'
    BY <1>3, <2>6 DEF FinAfterData
  <2>8. Output'
    <3>1. state_' = "kConnected" => ~sock'.finSent
              /\ (outputBuffer_' # << >> => isWriting(channel_)')
      BY <1>1, <1>3, <2>5, <2>6 DEF Sent, Output, isWriting
    <3>2. sock.inflight <= Len(wire) /\ Len(wire) + Len(outputBuffer_) <= accepted
      BY DEF Sent, Output
    <3>3. sock.inflight + k <= Len(wire) + k
          /\ (Len(wire) + k) + (Len(outputBuffer_) - k) <= accepted
      <4>1. PICK x \in Nat, y \in Nat, z \in Nat :
              x = sock.inflight /\ y = Len(wire) /\ z = Len(outputBuffer_)
        BY <1>s, <2>0, BoundsAssumption
      <4>2. x <= y /\ y + z <= accepted
        BY <3>2, <4>1
      <4>3. k \in Nat /\ accepted \in Nat
        BY <2>0
      <4>4. x + k <= y + k /\ (y + k) + (z - k) <= accepted
        BY <4>2, <4>3
      <4> QED BY <4>1, <4>4
    <3>4. sock'.inflight <= Len(wire') /\ Len(wire') + Len(outputBuffer_') <= accepted'
      BY <1>1, <1>3, <2>4, <3>3
    <3> QED BY <3>1, <3>4 DEF Output
  <2>9. StreamIntact'
    BY <1>1, <1>3, <2>3 DEF Sent, StreamIntact
  <2>10. ShortAnswers'
    BY <1>1, <1>3, <2>5 DEF Sent, ShortAnswers
  <2> QED BY <2>7, <2>8, <2>9, <2>10 DEF Sent
<1> QED BY <1>2, <1>3, WriteStageFacts

\* shutdown() sends a FIN only when there is no output.
LEMMA ShutdownSent ==
  ASSUME TypeOK, TypeOK', Sent, Shutdown
  PROVE  Sent'
<1>1. /\ state_ = "kConnected" /\ state_' = "kDisconnecting"
      /\ sock' = shutdownWriteInLoop(sock, channel_)
      /\ UNCHANGED <<channel_, outputBuffer_, wire, accepted, lapses>>
  BY DEF Shutdown
<1>2. /\ sock'.rst = sock.rst /\ sock'.inflight = sock.inflight
      /\ sock'.finSent => sock.finSent \/ ~isWriting(channel_)
  BY <1>1, ShutdownFacts DEF TypeOK
<1>3. FinAfterData'
  BY <1>1, <1>2 DEF Sent, FinAfterData, Output
<1>4. Output'
  BY <1>1, <1>2 DEF Sent, Output
<1>5. StreamIntact' /\ ShortAnswers'
  BY <1>1, <1>2 DEF Sent, StreamIntact, ShortAnswers, isWriting
<1> QED BY <1>3, <1>4, <1>5 DEF Sent

\* A send hands over n bytes: all are written, or the write has failed, or the rest is
\* kept and EPOLLOUT asked for, or it is the rest of a file, which is lost.
LEMMA SendSent ==
  ASSUME TypeOK, TypeOK', Sent, NEW n \in Nat \ {0}, NEW k \in 0..n, DirectWrite(n, k),
         state_ = "kConnected", accepted' = accepted + n, lapses \subseteq lapses',
         \/ UNCHANGED <<outputBuffer_, channel_>>
            /\ (k = n \/ (WriteNow /\ WriteFails(sock) /\ k = 0))
         \/ /\ k < n /\ outputBuffer_' = outputBuffer_ \o SubSeq(Bytes(n), k + 1, n)
            /\ channel_' = applyEpollout(channel_)
         \/ /\ k < n /\ UNCHANGED outputBuffer_ /\ "fileCut" \in lapses'
            /\ channel_' \in {channel_, applyEpollout(channel_)}
  PROVE  Sent'
<1> DEFINE b == Bytes(n)
           p == SubSeq(b, 1, k)
           l == SubSeq(b, k + 1, n)
<1>0. /\ wire \in Seq(Nat) /\ outputBuffer_ \in Seq(Nat) /\ accepted \in Nat
          /\ channel_ \in ChannelType
      /\ sock \in SocketType /\ sock.inflight \in 0..SndBuf
  BY DEF TypeOK, SocketType
<1>1. /\ b \in Seq(Nat) /\ Len(b) = n /\ \A i \in 1..n : b[i] = accepted + i
      /\ p \in Seq(Nat) /\ l \in Seq(Nat) /\ Len(p) = k /\ Len(l) = n - k
  BY BytesType, DirectType
<1>2. /\ wire' = wire \o p /\ sock'.finSent = sock.finSent
      /\ sock'.inflight = sock.inflight + k /\ Len(wire') = Len(wire) + k
      /\ sock'.rst = "none" <=> sock.rst = "none"
      /\ WriteNow /\ ~WriteFails(sock) /\ k < n => sock.inflight + n > SndBuf
      /\ k > 0 => outputBuffer_ = << >>
  BY DirectType DEF DirectWrite, WriteNow
<1>3. /\ ~sock.finSent /\ (outputBuffer_ # << >> => isWriting(channel_))
      /\ sock.inflight <= Len(wire) /\ Len(wire) + Len(outputBuffer_) <= accepted
  BY DEF Sent, Output
<1>4. sock.rst = "none" => ~WriteFails(sock)
  BY <1>3 DEF WriteFails
<1>5. FinAfterData'
  BY <1>2, <1>3 DEF FinAfterData
<1>6. Output'
  <2>1. outputBuffer_' # << >> => isWriting(channel_)'
    <3>1. isWriting(applyEpollout(channel_))
      BY <1>0, EpolloutFacts DEF isWriting
    <3>2. channel_' = applyEpollout(channel_) \/ (UNCHANGED <<channel_, outputBuffer_>>)
      OBVIOUS
    <3> QED BY <1>3, <3>1, <3>2 DEF isWriting
  <2>2. Len(outputBuffer_') \in {Len(outputBuffer_), Len(outputBuffer_) + (n - k)}
    <3>1. PICK o \in Seq(Nat), r \in Seq(Nat) : o = outputBuffer_ /\ r = l
      BY <1>0, <1>1
    <3>2. Len(o \o r) = Len(o) + Len(r)
      BY ConcatProperties
    <3> QED BY <1>1, <3>1, <3>2
  <2>3. sock'.inflight <= Len(wire') /\ Len(wire') + Len(outputBuffer_') <= accepted'
    <3>1. PICK x \in Nat, y \in Nat, z \in Nat :
            x = sock.inflight /\ y = Len(wire) /\ z = Len(outputBuffer_)
      BY <1>0, BoundsAssumption
    <3>2. x <= y /\ y + z <= accepted
      BY <1>3, <3>1
    <3>3. /\ x + k <= y + k /\ (y + k) + z <= accepted + n
          /\ (y + k) + (z + (n - k)) <= accepted + n
      BY <1>0, <3>2
    <3> QED BY <1>2, <2>2, <3>1, <3>3
  <2> QED BY <1>2, <1>3, <2>1, <2>3 DEF Output
<1>7. StreamIntact'
  <2>1. SUFFICES ASSUME sock'.rst = "none", "fileCut" \notin lapses'
                 PROVE  wire' \o outputBuffer_' = [i \in 1..accepted' |-> i]
    BY DEF StreamIntact
  <2>2. ~WriteFails(sock) /\ wire \o outputBuffer_ = [i \in 1..accepted |-> i]
    BY <1>2, <1>4, <2>1 DEF Sent, StreamIntact
  <2>3. (wire \o outputBuffer_) \o b = [i \in 1..accepted' |-> i]
    <3>1. PICK a \in Nat, c \in Seq(Nat) : a = accepted /\ c = b
      BY <1>0, <1>1
    <3>2. Len(c) = n /\ n \in Nat /\ \A i \in 1..n : c[i] = a + i
      BY <1>1, <3>1
    <3>3. [i \in 1..a |-> i] \o c = [i \in 1..(a + n) |-> i]
      BY <3>2, NumbersGrow
    <3>4. accepted' = a + n
      BY <3>1
    <3> QED BY <2>2, <3>1, <3>3, <3>4
  <2>4. p \o l = b
    <3>1. k \in 0..Len(b) /\ l = SubSeq(b, k + 1, Len(b))
      BY <1>1
    <3> HIDE DEF b
    <3> QED BY <1>1, <3>1, SplitSeq
  <2>5. \/ k = n /\ UNCHANGED outputBuffer_
        \/ outputBuffer_' = outputBuffer_ \o l
    BY <2>1, <2>2
  <2> HIDE DEF b, p, l
  <2>6. wire' \o outputBuffer_' = (wire \o outputBuffer_) \o b
    <3>1. CASE k = n /\ UNCHANGED outputBuffer_
      <4>1. outputBuffer_ = << >> /\ outputBuffer_' = << >>
        BY <1>2, <3>1
      <4>2. l = << >>
        BY <1>1, <3>1, EmptySeq
      <4>3. p = b
        BY <1>1, <2>4, <4>2, ConcatEmptySeq
      <4>4. wire \o b \in Seq(Nat)
        BY <1>0, <1>1, ConcatProperties
      <4>5. (wire \o b) \o << >> = wire \o b /\ wire \o << >> = wire
        BY <1>0, <4>4, ConcatEmptySeq
      <4> QED BY <1>2, <4>1, <4>3, <4>5
    <3>2. CASE k > 0 /\ outputBuffer_' = outputBuffer_ \o l
      <4>1. outputBuffer_ = << >>
        BY <1>2, <3>2
      <4>2. << >> \o l = l /\ wire \o << >> = wire
        BY <1>0, <1>1, ConcatEmptySeq
      <4>3. (wire \o p) \o l = wire \o b
        <5>1. PICK w \in Seq(Nat), x \in Seq(Nat), y \in Seq(Nat) : w = wire /\ x = p /\ y = l
          BY <1>0, <1>1, Zenon
        <5>2. (w \o x) \o y = w \o (x \o y)
          BY Concat3
        <5> QED BY <2>4, <5>1, <5>2, Zenon
      <4> QED BY <1>2, <3>2, <4>1, <4>2, <4>3
    <3>3. CASE k = 0 /\ outputBuffer_' = outputBuffer_ \o l
      <4>1. p = << >>
        BY <1>1, <3>3, EmptySeq
      <4>2. l = b
        BY <1>1, <2>4, <4>1, ConcatEmptySeq
      <4>3. wire \o << >> = wire
        BY <1>0, ConcatEmptySeq
      <4>4. wire \o (outputBuffer_ \o b) = (wire \o outputBuffer_) \o b
        <5>1. PICK w \in Seq(Nat), o \in Seq(Nat), y \in Seq(Nat) :
                w = wire /\ o = outputBuffer_ /\ y = b
          BY <1>0, <1>1, Zenon
        <5>2. (w \o o) \o y = w \o (o \o y)
          BY Concat3
        <5> QED BY <5>1, <5>2, Zenon
      <4> QED BY <1>2, <3>3, <4>1, <4>2, <4>3, <4>4
    <3>4. k = 0 \/ k > 0
      OBVIOUS
    <3> QED BY <2>5, <3>1, <3>2, <3>3, <3>4, Zenon
  <2> QED BY <2>3, <2>6
<1>8. ShortAnswers'
  <2>1. SUFFICES ASSUME accepted' <= SndBuf, sock'.rst = "none"
                 PROVE  outputBuffer_' = << >> /\ ~isWriting(channel_)'
    BY DEF ShortAnswers
  <2>2. accepted <= SndBuf
    BY <1>0, <2>1, BoundsAssumption
  <2>3. outputBuffer_ = << >> /\ ~isWriting(channel_) /\ ~WriteFails(sock)
    BY <1>2, <1>4, <2>1, <2>2 DEF Sent, ShortAnswers
  <2>4. sock.inflight + n <= SndBuf
    <3>1. PICK x \in Nat, y \in Nat, z \in Nat :
            x = sock.inflight /\ y = Len(wire) /\ z = Len(outputBuffer_)
      BY <1>0, BoundsAssumption
    <3>2. x <= y /\ y + z <= accepted /\ accepted + n <= SndBuf
      BY <1>3, <2>1, <3>1
    <3>3. x + n <= SndBuf
      BY <1>0, <3>2, BoundsAssumption
    <3> QED BY <3>1, <3>3
  <2>5. ~(k < n)
    <3>1. WriteNow
      BY <2>3 DEF WriteNow
    <3>2. ~(sock.inflight + n > SndBuf)
      BY <1>0, <2>4, BoundsAssumption
    <3> QED BY <1>2, <2>3, <3>1, <3>2
  <2> QED BY <2>3, <2>5 DEF isWriting
<1> QED BY <1>5, <1>6, <1>7, <1>8 DEF Sent

\* Every step keeps what is said of the output.
LEMMA SentStep ==
  ASSUME TypeOK, TypeOK', Life, Sent, [Next]_vars
  PROVE  Sent'
<1>1. ASSUME NEW n \in SendSizes, Send(n)
      PROVE  Sent'
  <2>0. n \in Nat \ {0}
    BY BoundsAssumption
  <2>1. state_ = "kConnected" /\ accepted' = accepted + n /\ lapses' = lapses
    BY <1>1 DEF Send, Sends
  <2>2. PICK k \in 0..n :
           /\ DirectWrite(n, k)
           /\ \/ /\ UNCHANGED <<outputBuffer_, channel_>>
                 /\ k = n \/ (WriteNow /\ WriteFails(sock) /\ k = 0)
              \/ /\ k < n /\ outputBuffer_' = outputBuffer_ \o SubSeq(Bytes(n), k + 1, n)
                 /\ channel_' = applyEpollout(channel_)
    BY <1>1, <2>0, SendFacts
  <2> QED BY <2>0, <2>1, <2>2, SendSent
<1>2. ASSUME NEW n \in FileSizes, SendFile(n)
      PROVE  Sent'
  <2>0. n \in Nat \ {0}
    BY BoundsAssumption
  <2>1. state_ = "kConnected" /\ accepted' = accepted + n
    BY <1>2 DEF SendFile, Sends
  <2>2. PICK k \in 0..n :
           /\ DirectWrite(n, k)
           /\ UNCHANGED outputBuffer_
           /\ channel_' = channel_ \/ (0 < k /\ k < n /\ channel_' = applyEpollout(channel_))
           /\ k < n /\ ~(WriteNow /\ WriteFails(sock)) => "fileCut" \in lapses'
           /\ lapses' \in {lapses, lapses \cup {"fileCut"}}
    BY <1>2, <2>0, SendFileFacts
  <2>3. WriteFails(sock) /\ WriteNow => k = 0
    BY <2>0, <2>2 DEF DirectWrite
  <2> QED BY <2>0, <2>1, <2>2, <2>3, SendSent
<1>3. CASE Silent
  BY <1>3, SilentSent
<1> QED BY <1>1, <1>2, <1>3, SilentStages, SilentFunctors, SilentRest, WriteSent, ShutdownSent
        DEF Next, LoopStep, UserStep, Over

-----------------------------------------------------------------------------
(***************************************************************************)
(* The theorems.                                                           *)
(***************************************************************************)
Invariant == TypeOK /\ Round /\ Life /\ OneTeardown /\ Sent

\* The invariant holds at the start,
LEMMA InitHolds == Init => Invariant
<1> SUFFICES ASSUME Init PROVE Invariant
  OBVIOUS
<1>1. TypeOK
  BY TypeInit
<1>2. Round
  BY DEF Init, Round
<1>3. Queue = << >>
  BY <1>1, QueueMoves DEF Init
<1>4. QuietAfter(Queue)
  <2>1. Len(Queue) = 0
    BY <1>3
  <2> QED BY <2>1 DEF QuietAfter
<1>5. ~(destroys > 0)
  BY DEF Init
<1>6. Life
  <2>1. Connecting
    BY <1>3 DEF Init, Connecting
  <2>2. Leaving
    BY <1>4, <1>5 DEF Init, Leaving
  <2>3. Closing
    BY DEF Init, Closing
  <2> QED BY <2>1, <2>2, <2>3 DEF Life
<1>7. OneTeardown
  BY DEF Init, OneTeardown, DestroyedOnce
<1>8. Sent
  <2>1. wire = << >> /\ outputBuffer_ = << >> /\ accepted = 0 /\ ~sock.finSent /\ sock.inflight = 0
        /\ channel_ = NewChannel
    BY DEF Init
  <2>2. Len(wire) = 0 /\ Len(outputBuffer_) = 0 /\ wire \o outputBuffer_ = << >>
    BY <2>1
  <2>3. [i \in 1..accepted |-> i] = << >>
    BY <2>1
  <2>4. FinAfterData /\ Output
    BY <2>1, <2>2 DEF FinAfterData, Output
  <2>5. StreamIntact
    BY <2>2, <2>3 DEF StreamIntact
  <2>6. ShortAnswers
    BY <2>1 DEF ShortAnswers, NewChannel, isWriting
  <2> QED BY <2>4, <2>5, <2>6 DEF Sent
<1> QED BY <1>1, <1>2, <1>6, <1>7, <1>8 DEF Invariant

\* every step preserves it,
LEMMA InvariantStep == Invariant /\ [Next]_vars => Invariant'
<1> SUFFICES ASSUME TypeOK, Round, Life, OneTeardown, Sent, [Next]_vars PROVE Invariant'
  BY DEF Invariant
<1>1. TypeOK'
  BY TypeStep
<1>2. Round' /\ Life'
  BY RoundStep, LifeStep
<1>3. OneTeardown'
  BY <1>1, <1>2, TeardownStep
<1>4. Sent'
  BY <1>1, SentStep
<1> QED BY <1>1, <1>2, <1>3, <1>4 DEF Invariant

\* and so it always holds.
LEMMA InvariantHolds == Spec => []Invariant
<1>1. Init => Invariant
  BY InitHolds
<1>2. Invariant /\ [Next]_vars => Invariant'
  BY InvariantStep
<1> QED BY <1>1, <1>2, PTL DEF Spec

\* At every moment the channel of a closed connection is not in epoll, that of a freed
\* connection is known to nobody, and the FIN is not ahead of the output; the parts of
\* the invariant say how newConnection, the rounds of the loop, handleClose and
\* connectDestroyed see to it.
THEOREM ConnectionInvariant == Spec => []ConnectionInv
<1>1. Invariant => ConnectionInv
  BY ClosedAndFreed DEF Invariant, Life, Sent, ConnectionInv
<1> QED BY <1>1, InvariantHolds, PTL

\* The asserts of connectEstablished, handleClose and ~TcpConnection hold and
\* connectDestroyed runs at most once, however many threads call forceClose, unless one
\* of them races with the close or a closed connection is told to read again.
THEOREM OneTeardownAlways == Spec => []OneTeardown
<1>1. Invariant => OneTeardown
  BY DEF Invariant
<1> QED BY <1>1, InvariantHolds, PTL

\* sendInLoop and handleWrite neither lose, double nor reorder a byte.
THEOREM StreamIntactAlways == Spec => []StreamIntact
<1>1. Invariant => StreamIntact
  BY DEF Invariant, Sent
<1> QED BY <1>1, InvariantHolds, PTL

\* Whatever fits into the socket's send buffer is written by sendInLoop at once.
THEOREM ShortAnswersAlways == Spec => []ShortAnswers
<1>1. Invariant => ShortAnswers
  BY DEF Invariant, Sent
<1> QED BY <1>1, InvariantHolds, PTL
=============================================================================
