---------------------------- MODULE AsyncLogging ----------------------------
(***************************************************************************)
(* adl::asyncLogging (src/log/asyncLogging.cpp) after start(): front-end   *)
(* threads append messages to cur_, and a back-end thread takes the full   *)
(* buffers away, gives two empty ones back and writes the full ones to the *)
(* log file.  The buffers are unique_ptrs that are moved around, so each   *)
(* of the five places that hold one may be Null.                           *)
(*                                                                         *)
(* append and the exchange run under m_ and are one step each.  wait_for   *)
(* has a timeout and the exchange follows whether or not the predicate     *)
(* holds, so a notification can only make it come earlier: the back end    *)
(* may exchange at any moment.  A message is its number, its bytes are     *)
(* left out; adlBuffer's len_ is kept because its boundary matters.        *)
(***************************************************************************)
EXTENDS Integers, Sequences

CONSTANTS
  Size,             \* kLargeBuffer, the SIZE of an adlBuffer
  Lengths,          \* the lengths of the messages
  Limit,            \* the batch size at which the back end drops buffers (25)
  MaxAppends,       \* bound: how many messages are appended
  Null              \* a unique_ptr that was moved from

ASSUME SizeAssumption    == Size \in Nat /\ Size > 2
ASSUME LengthsAssumption == Lengths \subseteq 1..(Size - 1)   \* else append aborts
ASSUME LimitAssumption   == Limit \in Nat /\ Limit > 2
ASSUME MaxAppendsAssumption == MaxAppends \in Nat

Buffer == [len : 0..(Size - 1), log : Seq(1..MaxAppends)]
ASSUME NullAssumption == Null \notin Buffer

VARIABLES
  running_,
  cur_,
  prv_,
  transBufVec_,
  newBuf_1,
  newBuf_2,
  needToWriteBufVec_,
  pc,               \* where the back-end thread is
  written,          \* how many buffers of the batch have been written
  logged,           \* the messages given to logFile::append, in order
  flushed,          \* how many of them file.flush() has covered
  appended,         \* how many messages have been appended
  discarded,        \* history: the messages that append has thrown away
  dropped,          \* history: the back end was overloaded and dropped buffers
  owner             \* where the destructor is

backend  == <<newBuf_1, newBuf_2, needToWriteBufVec_, pc, written, logged, flushed,
              dropped>>
frontend == <<cur_, prv_, transBufVec_, appended, discarded>>
vars     == <<running_, frontend, backend, owner>>

PCs == {"while", "wait", "overload", "write", "refill", "exit"}

TypeOK ==
  /\ running_ \in BOOLEAN
  /\ cur_ \in Buffer \cup {Null} /\ prv_ \in Buffer \cup {Null}
  /\ newBuf_1 \in Buffer \cup {Null} /\ newBuf_2 \in Buffer \cup {Null}
  /\ transBufVec_ \in Seq(Buffer \cup {Null})
  /\ needToWriteBufVec_ \in Seq(Buffer \cup {Null})
  /\ pc \in PCs
  /\ written \in Nat /\ flushed \in Nat
  /\ logged \in Seq(1..MaxAppends)
  /\ appended \in 0..MaxAppends
  /\ discarded \subseteq [n : 1..MaxAppends, len : Lengths]
  /\ dropped \in BOOLEAN
  /\ owner \in {"using", "join", "done"}

-----------------------------------------------------------------------------
(* adlBuffer *)

Empty == [len |-> 0, log |-> << >>]

avail(b) == Size - 1 - b.len

BufAppend(b, n, len) == [len |-> b.len + len, log |-> Append(b.log, n)]

reset_Nothing(b) == b                    \* mutant: the buffer is not emptied

reset(b) == [len |-> 0, log |-> << >>]

-----------------------------------------------------------------------------
Init ==
  /\ running_ = TRUE
  /\ cur_ = Empty /\ prv_ = Empty
  /\ newBuf_1 = Empty /\ newBuf_2 = Empty
  /\ transBufVec_ = << >> /\ needToWriteBufVec_ = << >>
  /\ pc = "while"
  /\ written = 0 /\ flushed = 0
  /\ logged = << >>
  /\ appended = 0
  /\ discarded = {} /\ dropped = FALSE
  /\ owner = "using"

-----------------------------------------------------------------------------
(***************************************************************************)
(* append(str, len).  A message that does not fit in cur_ goes to a fresh  *)
(* buffer: the spare one, or a new one; one that does not fit there either *)
(* is discarded without a word.                                            *)
(***************************************************************************)
Fits(b, len) == avail(b) >= len + 1

AppendFits(len) ==
  /\ Fits(cur_, len)
  /\ cur_' = BufAppend(cur_, appended', len)
  /\ UNCHANGED <<prv_, transBufVec_, discarded>>

AppendSpills(len) ==
  /\ ~Fits(cur_, len)
  /\ transBufVec_' = Append(transBufVec_, cur_)
  /\ prv_' = Null
  /\ LET fresh == IF prv_ # Null THEN prv_ ELSE Empty
     IN  IF Fits(fresh, len)
           THEN cur_' = BufAppend(fresh, appended', len) /\ UNCHANGED discarded
           ELSE /\ cur_' = fresh
                /\ discarded' = discarded \cup {[n |-> appended', len |-> len]}

AppendMessage(len) ==
  /\ owner = "using"
  /\ running_
  /\ appended < MaxAppends
  /\ appended' = appended + 1
  /\ AppendFits(len) \/ AppendSpills(len)
  /\ UNCHANGED <<running_, backend, owner>>

-----------------------------------------------------------------------------
(* threadFunc *)

While ==
  /\ pc = "while"
  /\ \/ running_ /\ pc' = "wait" /\ UNCHANGED flushed
     \/ ~running_ /\ pc' = "exit" /\ flushed' = Len(logged)
  /\ UNCHANGED <<running_, frontend, newBuf_1, newBuf_2, needToWriteBufVec_, written,
                 logged, dropped, owner>>

\* cur_ joins the batch, cur_ and prv_ are replenished, the vectors are swapped.
Exchange_OnlyFull ==                     \* mutant: a timeout writes nothing
  /\ pc = "wait"
  /\ transBufVec_ # << >>
  /\ cur_' = newBuf_1 /\ newBuf_1' = Null
  /\ prv_' = newBuf_2 /\ newBuf_2' = Null
  /\ needToWriteBufVec_' = Append(transBufVec_, cur_)
  /\ transBufVec_' = needToWriteBufVec_
  /\ pc' = "overload"
  /\ written' = 0
  /\ UNCHANGED <<running_, appended, discarded, logged, flushed, dropped, owner>>

Exchange ==
  /\ pc = "wait"
  /\ cur_' = newBuf_1 /\ newBuf_1' = Null
  /\ prv_' = IF prv_ = Null THEN newBuf_2 ELSE prv_
  /\ newBuf_2' = IF prv_ = Null THEN Null ELSE newBuf_2
  /\ needToWriteBufVec_' = Append(transBufVec_, cur_)
  /\ transBufVec_' = needToWriteBufVec_
  /\ pc' = "overload"
  /\ written' = 0
  /\ UNCHANGED <<running_, appended, discarded, logged, flushed, dropped, owner>>

resize(v, n) == SubSeq(v, 1, n)

\* A batch of Limit buffers or more is cut down to its two oldest ones.
Overload ==
  /\ pc = "overload"
  /\ pc' = "write"
  /\ dropped' = (dropped \/ Len(needToWriteBufVec_) >= Limit)
  /\ needToWriteBufVec_' = IF Len(needToWriteBufVec_) >= Limit
                             THEN resize(needToWriteBufVec_, 2)
                             ELSE needToWriteBufVec_
  /\ UNCHANGED <<running_, frontend, newBuf_1, newBuf_2, written, logged, flushed, owner>>

WriteBuffer ==
  /\ pc = "write"
  /\ written < Len(needToWriteBufVec_)
  /\ written' = written + 1
  /\ logged' = logged \o needToWriteBufVec_[written + 1].log
  /\ UNCHANGED <<running_, frontend, newBuf_1, newBuf_2, needToWriteBufVec_, pc, flushed,
                 dropped, owner>>

\* The loop over the batch ends; at most two of its buffers are kept.
Trim_Nothing ==                          \* mutant: no resize after the loop
  /\ pc = "write"
  /\ written = Len(needToWriteBufVec_)
  /\ pc' = "refill"
  /\ UNCHANGED <<running_, frontend, newBuf_1, newBuf_2, needToWriteBufVec_, written,
                 logged, flushed, dropped, owner>>

Trim ==
  /\ pc = "write"
  /\ written = Len(needToWriteBufVec_)
  /\ pc' = "refill"
  /\ needToWriteBufVec_' = IF Len(needToWriteBufVec_) > 2
                             THEN resize(needToWriteBufVec_, 2)
                             ELSE needToWriteBufVec_
  /\ UNCHANGED <<running_, frontend, newBuf_1, newBuf_2, written, logged, flushed,
                 dropped, owner>>

back(v)     == v[Len(v)]
pop_back(v) == resize(v, Len(v) - 1)

\* The spare buffers are taken from the back of the batch, and the file is flushed.
Refill ==
  /\ pc = "refill"
  /\ LET after1 == IF newBuf_1 = Null THEN pop_back(needToWriteBufVec_)
                                      ELSE needToWriteBufVec_
     IN  /\ newBuf_1' = IF newBuf_1 = Null THEN reset(back(needToWriteBufVec_))
                                           ELSE newBuf_1
         /\ newBuf_2' = IF newBuf_2 = Null THEN reset(back(after1)) ELSE newBuf_2
         /\ needToWriteBufVec_' = IF newBuf_2 = Null THEN pop_back(after1) ELSE after1
  /\ flushed' = Len(logged)
  /\ pc' = "while"
  /\ UNCHANGED <<running_, frontend, written, logged, dropped, owner>>

-----------------------------------------------------------------------------
\* ~asyncLogging: no thread appends any more.
DtorStop ==
  /\ owner = "using"
  /\ running_' = FALSE
  /\ owner' = "join"
  /\ UNCHANGED <<frontend, backend>>

DtorJoin ==
  /\ owner = "join"
  /\ pc = "exit"
  /\ owner' = "done"
  /\ UNCHANGED <<running_, frontend, backend>>

Destroyed == owner = "done" /\ UNCHANGED vars

Backend == While \/ Exchange \/ Overload \/ WriteBuffer \/ Trim \/ Refill

Next ==
  \/ \E len \in Lengths : AppendMessage(len)
  \/ Backend
  \/ DtorStop \/ DtorJoin \/ Destroyed

Spec == Init /\ [][Next]_vars

\* The back-end thread is scheduled and its wait times out; the destructor returns
\* when the thread has ended.  Nobody has to append or to destroy the object.
FairSpec == Spec /\ WF_vars(Backend) /\ WF_vars(DtorJoin)

-----------------------------------------------------------------------------
(* Properties *)

\* The back end never takes back() of an empty vector, never dereferences a moved
\* pointer, and starts each round with two spare buffers and an empty vector (the
\* comment at asyncLogging.cpp:87, which nothing in the code enforces).
Live(v) == \A i \in 1..Len(v) : v[i] # Null

FrontEndOK ==
  /\ cur_ # Null
  /\ Live(transBufVec_)
  /\ prv_ = Null <=> transBufVec_ # << >>

SparesOK ==
  pc \in {"while", "wait", "exit"} =>
    newBuf_1 # Null /\ newBuf_2 # Null /\ needToWriteBufVec_ = << >>

BatchOK ==
  pc \in {"overload", "write", "refill"} =>
    /\ newBuf_1 = Null
    /\ Live(needToWriteBufVec_)
    /\ needToWriteBufVec_ # << >>
    /\ newBuf_2 = Null <=> Len(needToWriteBufVec_) > 1

TrimmedOK == pc = "refill" => Len(needToWriteBufVec_) <= 2

HandOff == FrontEndOK /\ SparesOK /\ BatchOK /\ TrimmedOK

\* HandOff with the types: no buffer ever holds more than SIZE - 1 characters.
LoggingInv == TypeOK /\ HandOff

\* The buffers that have yet to be written, the oldest first.
Unwritten ==
  IF pc \in {"overload", "write"}
    THEN SubSeq(needToWriteBufVec_, written + 1, Len(needToWriteBufVec_))
    ELSE << >>

Held == Unwritten \o Append(transBufVec_, cur_)

Increasing(s)  == \A i, j \in 1..Len(s) : i < j => s[i] < s[j]
Precedes(s, t) == \A i \in 1..Len(s), j \in 1..Len(t) : s[i] < t[j]
Contains(s, n) == \E i \in 1..Len(s) : s[i] = n

\* The messages of log and then those of the buffers bufs are in order, each once.
InOrder(log, bufs) ==
  /\ Increasing(log)
  /\ \A k \in 1..Len(bufs) : Increasing(bufs[k].log) /\ Precedes(log, bufs[k].log)
  /\ \A k, m \in 1..Len(bufs) : k < m => Precedes(bufs[k].log, bufs[m].log)

Kept(n, log, bufs) ==
  Contains(log, n) \/ \E k \in 1..Len(bufs) : Contains(bufs[k].log, n)

Discarded(n) == \E d \in discarded : d.n = n

\* The spare buffers are empty, and written counts buffers of this batch.
BetweenRounds ==
  /\ {prv_, newBuf_1, newBuf_2} \subseteq {Null, Empty}
  /\ pc = "overload" => written = 0
  /\ pc = "write" => written <= Len(needToWriteBufVec_)

\* No message is lost, duplicated or reordered between append and logFile::append
\* as long as the back end has not been overloaded, except that append throws away
\* the messages of exactly SIZE - 1 characters, which pass its first test and fit
\* no buffer.  Even when buffers are dropped, what is in the log and in the buffers
\* is in order and without duplicates, and a finished round is flushed.
Conservation ==
  /\ InOrder(logged, Held)
  /\ \A n \in 1..MaxAppends : Kept(n, logged, Held) => n <= appended /\ ~Discarded(n)
  /\ ~dropped => \A n \in 1..appended : Discarded(n) \/ Kept(n, logged, Held)
  /\ \A d \in discarded : d.len = Size - 1 /\ d.n <= appended
  /\ pc \in {"while", "wait", "exit"} => flushed = Len(logged)
  /\ BetweenRounds

\* What was appended is logged, also when the buffer never fills up, unless the
\* object is destroyed, the back end is overloaded or append has thrown it away.
MessagesLogged ==
  \A n \in 1..MaxAppends :
    appended >= n ~> \/ ~running_ \/ dropped \/ Discarded(n)
                     \/ Contains(logged, n)
=============================================================================
