# A TLA+ verification of adlServer

adlServer is a multi-threaded, epoll-based TCP and HTTP server in C++14 in the
style of muduo: one event loop per IO thread, connections that live in one loop,
an asynchronous logger and a few concurrency helpers. This directory models its
core in TLA+, checks the models with TLC and proves the central
properties with TLAPS. Paths below are relative to the repository root; the
code is under `src/`.

## 1. Inventory of the system

| Component | State it keeps | Operations | What makes it correct |
|---|---|---|---|
| `net/EventLoop` | `quit_`, `callingPendingFunctors_`, `pendingFunctors_` (under `mutex_`), `activeChannels_`, `wakeupFd_`, `connectSet_` | `loop`, `queueInLoop`, `runInLoop`, `quit`, `wakeup`, `handleRead`, `doPendingFunctors`, `addConnect`, `rmConnect` | no lost wakeup; functors run once, in order; `quit` ends the loop |
| `net/EventLoopThread` | `loop_`, `mutex_`, `cond_`, the thread | constructor, `threadFunc`, destructor | the constructor hands out a usable loop; the destructor joins; the loop outlives its users |
| `net/EventLoopThreadPool` | `loops_`, `threads_`, `started_` | `start`, `getNextLoop` | the loop chosen is the least loaded, as far as sizes read one by one can tell |
| `net/Channel`, `net/Epoller` | `events_`, `revents_`, `status_`; `channels_`, epoll's interest list | `enable…`, `disable…`, `remove`, `handleEvent`, `poll`, `updateChannel`, `removeChannel` | a channel is registered exactly while it wants events |
| `net/tcpConnection` | `state_`, `reading_`, `channel_`, `outputBuffer_`, `inputBuffer_` | `send`, `sendFile`, `shutdown`, `forceClose`, `startRead`, `stopRead`, `handleRead/Write/Close/Error`, `connectEstablished`, `connectDestroyed` | the byte stream is intact; one orderly teardown; nothing dangles |
| `net/tcpServer` | the acceptor, the loop pool | `start`, `newConnection`, `removeConnection` | every accepted connection is established, removed and freed |
| `net/Acceptor`, `net/Socket` | the listening socket, `idleFd_` | `listen`, `handleRead`; wrappers of system calls | accepts until EAGAIN, survives EMFILE |
| `net/netBuffer` | `buf_`, `r_`, `w_`, `alloc_` | `append`, `retrieve`, `checkCapcity`, `readFd` | indices in range; never reads 0 bytes for lack of room |
| `http/httpParser`, `httpServer`, `http/httpRespond` | the parse position and request | `parse`, `httpMessageCallback`, `respond` | a request split over segments parses as the whole one |
| `base/threadPool` | `tasks`, `running_state`, `idlThrNum` | `addTask`, the workers, destructor | tasks are taken in order and called once, no stranded task, destruction ends |
| `base/BlockingQueue`, `BoundedBlockingQueue` | a queue and condition variables | `put`, `take` | FIFO, bounded, nobody sleeps needlessly |
| `log/asyncLogging`, `log/adlBuffer` | `cur_`, `prv_`, `transBufVec_`, the back end's two spares and batch | `append`, `threadFunc`, destructor | no message lost, doubled or reordered; no null or empty-vector access |
| `log/logFile`, `log/fileUtil`, `log/Logging`, `log/logStream` | a rolling file and its stdio buffer; the global output and flush functions; formatting | `append`, `flush`, `rollfile`; `~Logger`, `LOG(FATAL)` | what was logged before a fatal message is on disk; files roll by size and by day; nothing is erased |
| `base/Thread`, `Singleton`, `timeStamp`, `currentThread`, `WeakCallback`, `tool` | small helpers | – | – |
| `net/coro` | coroutine echo server, not built | – | – |

How they interact. The main loop's acceptor calls `TcpServer::newConnection`,
which picks an IO loop and hands it the new `TcpConnection` with two functors
(`addConnect`, `connectEstablished`). From then on the connection lives in that
loop: epoll reports events to its channel, the channel calls the connection,
and the connection calls the client's callbacks. Closing goes through
`handleClose`, `TcpServer::removeConnection`, a queued `connectDestroyed` and the
last `shared_ptr`. Other threads reach a loop only through `queueInLoop` and
`quit`, which wake it with an eventfd.

What is hard about it: the wakeup protocol (edge-triggered eventfd, flag read
after the unlock); work that is queued in one round and run in the next, when
the state it was queued for has changed; several callbacks for one event;
edge-triggered writes with a full socket buffer; shared ownership as the only
protection against use after free; threads that are started inside constructors
and stopped by flags without locks; buffers that are moved between two threads.
`PROJECT.json` lists these hazards at their lines.

## 2. The modules

| Module | Models | Built on |
|---|---|---|
| `Executor` | the promise of an executor: tasks start one at a time, in submission order, each at most once | – |
| `EventLoop` | `EventLoop` and the poll of `Epoller` | refines `Executor` |
| `EventLoopThread` | `EventLoopThread`, and the part of `EventLoopThreadPool` that owns it | `EventLoop` |
| `EventLoopProofs` | TLAPS proofs | `EventLoopThread` |
| `Channel` | operators for `Channel` and `Epoller`'s registration | – |
| `TcpConnection` | one connection, its channel, its loop's rounds, the socket, the peer, `newConnection` and `removeConnection` | `Channel` |
| `TcpConnectionProofs` | TLAPS proofs | `TcpConnection` |
| `WorkerPool` | the promise of a pool: a task starts at most once, and overtakes fewer older tasks than there are workers | – |
| `ThreadPool` | `threadPool` | refines `WorkerPool` |
| `ThreadPoolProofs` | TLAPS proofs | `ThreadPool` |
| `AsyncLogging` | `asyncLogging` and `adlBuffer` | – |
| `AsyncLoggingProofs` | TLAPS proofs | `AsyncLogging` |
| `LogFile` | `logFile`, `fileApp`, `~Logger`, and `asyncLogging`'s constructor, `start()` and destructor around them | – |
| `LogFileProofs` | TLAPS proofs | `LogFile` |
| `TcpServer` | `TcpServer`, `Acceptor`, `getNextLoop`, the sub loops, the files of requests, and the descriptor table they share | – |
| `TcpServerProofs` | TLAPS proofs | `TcpServer`, `HttpParser` |
| `NetBuffer` | `netBuffer` and its `readFd` | – |
| `NetBufferProofs` | TLAPS proofs | `NetBuffer` |
| `BlockingQueue` | `BoundedBlockingQueue`, and `BlockingQueue` as the case without a limit | refines `Executor` |
| `BlockingQueueProofs` | TLAPS proofs | `BlockingQueue` |
| `HttpParser` | `httpParser` as operators on text | – |
| `HttpServer` | the message callback of `httpServer` on one connection, and its client | `HttpParser` |
| `MC_HttpServer` | the urls and bodies of the model | `HttpServer` |

Variables and definitions have the names of the code where TLA+ allows it. An
operator whose name has an underscore followed by a description
(`QueueInLoop_NeverWhileCalling`) is a mutant: the definition after it as a
plausible bug would change it. No specification uses it; it documents which bug
each property would catch.

**EventLoop.** `pc` is the place of the IO thread in `loop()` and
`doPendingFunctors()`. `queueInLoop` and `quit` are two steps, the change under
the mutex (or the store of the flag) and the write to the eventfd; `waking` holds
the threads in between. Functors and callbacks are entered and left, so that the
IO thread can call `queueInLoop` and `quit` from inside them. The eventfd is one
bit, and `ready` is epoll's ready list, so that a wakeup written while another
one is being read is represented as the kernel treats it. A poll reports no more
channels than `events_` has entries; the others stay on the list, and a poll that
fills `events_` doubles it (`eventsSize`). `epoll_wait` may also return without
events (`PollNothing`), and nothing may depend on it.

**EventLoopThread.** The owner's constructor, use and destructor against
`threadFunc`, with the whole of `EventLoop` as the loop that runs: the module extends
`EventLoop`, and every change of the loop's state is one of its actions, taken when
the two threads are at a place where they can take it. `refs` is the
set of `shared_ptr`s to the loop, among them the one that the loop's own wakeup
channel holds. A wakeup before `init()` goes nowhere because `wakeupFd_` is
indeterminate.

**TcpConnection.** The IO thread goes through poll, the four stages of
`Channel::handleEvent`, and the batch of functors. Bytes are numbers, so
`wire \o outputBuffer_` can be compared with what the client sent. The socket is
external: receive queue, FIN, reset, bytes in the send buffer, and whether epoll
has an edge to report; `Mask` is what `poll` would say, `Rearm` what `epoll_ctl`
does. `Ops` selects what the client's callbacks call, `Threads` are other
threads that call `forceClose`. A write that raises SIGPIPE may end the process
(`killed`) or return EPIPE, so the model stands for programs that ignore the
signal and for those that do not. Three things the code does to a connection
cannot be mended later; the history `lapses` records them, and the properties
that they break except them by name: `sendFile` drops the rest of a file
(`fileCut`), `startRead` is called on a closed connection (`lateRead`), and
`forceClose` in another thread writes over `kDisconnected` (`race`). `revents_` and
`ret` are cleared when nothing will read them again.

**ThreadPool.** The predicate of `cv_task.wait` and the wait are separate steps
because the destructor stores `running_state` without the mutex, and so are the pop
under `m_mutex` (`taken`) and the call after the unlock (`started`): another worker may
take a later task and call it in between. So the pool is no `Executor`, which starts
tasks in order; `WorkerPool` says what is left of the order. Tasks may call `addTask`;
clients do not while the destructor runs.

**AsyncLogging.** `append` and the exchange are atomic (both hold `m_`).
`wait_for` has a timeout and the exchange follows in any case, so the back end
may exchange at any moment and notifications need no state. A buffer is its
`len_` and the numbers of its messages; each of the five places that hold a
buffer may be `Null`. A message of `Size - 1` characters passes the test of `append`
and fits no buffer; the history `discarded` records it.

**LogFile.** When the back end of `asyncLogging` has bound `gOut` and `gFlush`, every
`LOG` goes straight to its `logFile`, past the buffers of `AsyncLogging`, so the file
is what threads share. `append` and `flush` hold `mutex_` and are one step each;
`~Logger` of a fatal message is three (`gOut`, `gFlush`, `abort`), and the two
bindings and `set_value` are steps of their own. A file is known by the second in
its name, `disk` is what all files hold in the order of writing, each message with
the process that wrote it and the size it gave the file. `writtenBytes_` is what
the process counts, from 0 also for a file that is not empty. `buffer_` is what
stdio still holds, which `abort()` discards and which stdio may write at any time
(`Spill`). `running_` is uninitialised before `start()`: a choice. A buffer that the
back end writes holds one message or none; `AsyncLogging` has the buffers. A
process that has ended may be started again, in the same second too.

**TcpServer.** Every system call of `Acceptor::handleRead` is a step, because the
sub loops open and close descriptors of the same table in between; the kernel
hands out the lowest free number, so that a number is reused as soon as it can
be. `accept4` reserves a descriptor before it looks at the queue (external), so
a full table is EMFILE even with nobody waiting. In `getNextLoop` every read of a size
and every comparison of `std::min_element` is a step (`best`, `next`, `seen`), since the
sub loops change `connectSet_` at the same time; the two sizes of a comparison may be
read in either order. `newConnection` then queues its two functors in two steps. A
sub loop is its queue and its `connectSet_`, run
one functor at a time; that the references of a batch die only with the batch is
covered by `Destruct`, which may come at any later time. A connection is closed
in state `kConnected` only; `TcpConnection` has the other ways. A client whose
connection is gone may connect again. The message callback
of `httpServer` opens the file of a request, or `404.html`, and `sendInLoop` closes it:
once (`SentWhole`), twice if the file was cut (`SentPart`, `CloseAgain`, in between any
thread may be given the number), or never (`NotRegular`, `NotSent`: a directory, an
empty file, a connection that is going down, output that is waiting, or a `sendfile` that
fails). What the second close does to whoever has the number is done; the history
`stolen` records it. The log file's own descriptor is not part of the table.

**NetBuffer.** `buf_` is a function on the addresses that are allocated, `alloc_`
what the code believes; the two differ inside `expansion()`. The bytes are
numbered, so that the readable part can be compared with the stream. The
iterations of the loops in `expansion` and `readFd` are steps.

**BlockingQueue.** All is done under one mutex, so what a thread does between two
waits is one step. `putters` and `takers` are the threads that compete for the
mutex, `notFull` and `notEmpty` those asleep.

**HttpParser, HttpServer.** Text is a sequence of symbols; a symbol is a character
or a piece of text whose inside the parser does not look at. Methods and
versions are two symbols, so that text can end inside them. A CR need not be
followed by an LF: the request line may contain such CRs (of a run of them the code
looks behind every other one only, `CRsSeen`), and at one in the header the code
starts again at the beginning of the line, for ever: the result `Loops`, after which
the connection and its loop are `stuck`. `strncmp` on the version reads behind the text,
into bytes of the buffer that are old: a choice (`beyond`). `stoi` throws on a
`Content-Length` that is no number, and nobody catches it; no client of the run
sends one. The client's stream
is cut into segments at every position, and `httpMessageCallback` runs once per
segment. `forceClose` and the `forceCloseInLoop` it queues are one step, since
the loop runs the functor before it polls again.

## 3. The runs

| Run | Checks | Result |
|---|---|---|
| `loop` | `NoLostWakeup`, its inductive invariant `LoopInv`, refinement of `Executor`, `FunctorsRun`, `QuitStops` | pass |
| `loop_thread` | `OwnerInv` (`LoopAlive`, `AlwaysJoined` and what makes them inductive: `HoldersOK`, `PhasesOK`, `QuitInv`), `ConstructorReturns`, `RunningLoopJoins` | pass |
| `connection` | every operation, with a second thread that calls `forceClose`: `OneTeardown`, `ConnectionInv` (`NoDanglingChannel`, `ClosedIsDeaf`, `FinAfterData` and what makes them inductive), `StreamIntact`, `ShortAnswers`; `OutputDrains`, `ShutdownCompletes`, `PeerCloseFrees` | pass |
| `pool` | `PoolInv` (`NoEmptyPop`, `NoStrandedTask`, `MutexInv`, `IdleCount`, `OnePlace`), refinement of `WorkerPool`, `TasksRun` | pass |
| `server` | `ServerInv` (`NoMissedClient`, `ConnectSets`, `FunctorsInOrder`, `ArrivalOrder`, `ScanInv`), `Descriptors`, `LeastLoaded`, `ClientsAnswered`, `ClosedFreed` | pass |
| `buffer` | `BufferInv` (`InMemory`), `RoomToRead`, `Intact` | pass |
| `queue` | `QueueInv` (`NoStrandedWaiter`), refinement of `Executor`, `ItemsTaken` | pass |
| `http` | `InStep` (`AnswersMatch`, `Aligned`), `Answered`, `RejectsOnlyBad` | pass |
| `logging` | `LoggingInv` (`HandOff`), `Conservation` (`InOrder`, `Kept`, `BetweenRounds`), `MessagesLogged` | pass |
| `logfile` | `LogInv` (`Handshake`, `BackendInv`, `FatalInv`, `RollInv`, `SizeInv`), `Complete`, `Rolling`; `NothingErased`, `ReachesDisk` | pass |

Every run of this table checks the `TypeOK` of its module too, as a
conjunct of an invariant. The configurations are named after the
modules, so that `tlc -config EventLoop.cfg EventLoop` repeats the first run.

Disagreements between the code and what its own comments or asserts say; each
is a run that TLC refutes with a short behaviour:

| Run | What happens |
|---|---|
| `connection_threads` | `forceClose` in another thread races with a close; `connectDestroyed` runs twice |
| `pool_stop` | a worker misses the destructor's `notify_all`; the join never returns |

The models also show the following, for which no run is kept. Where a formula is
given, checking it shows the behaviour.

* `loop()` begins with `quit_ = false` (`net/EventLoop.cpp:135`): a `quit()` after
  the constructor of an `EventLoopThread` has returned and before its thread has
  entered `loop()` is erased, and the destructor joins for ever:
  `(owner = "dtor") ~> (owner = "done")` in `EventLoopThread`.
* `sendInLoop` closes the file before it reads the part that `sendfile` could not
  send (`net/tcpConnection.cpp:246`, `268`), so that part is lost: `StreamIntact`
  without `fileCut`. EPOLLOUT stays registered with nothing to write, so
  `handleWrite` is called to write 0 bytes, a `shutdown()` waits for output that
  does not exist, and later output may wait too: `ShutdownCompletes` without
  `fileCut`. A file that finds output waiting is not sent at all.
* The descriptor of a cut file is closed a second time (`net/tcpConnection.cpp:271`,
  `277`); if another thread has been given the same number meanwhile, its socket, its
  file or the acceptor's spare descriptor is closed: `Descriptors` without `~stolen`,
  or `~stolen` itself.
* Some files are never closed: a URL that names a directory or an empty file
  (`httpServer.cpp:95`, `http/httpRespond.h:84`), a file whose `sendfile` fails, with
  EAGAIN for example, or that finds output waiting or the connection closed
  (`net/tcpConnection.cpp:218`, `225`, `248`, where `remaining` stays 0). They fill the
  table: `(\A l \in Loops : cpc[l] = "idle") => \A f \in Fds : owner[f] # File` in
  `TcpServer`. `Descriptors` says that nothing else is leaked, and `ClientsAnswered`
  that a full table is survived.
* `httpServer` calls `forceClose` right after `send` (`httpServer.cpp:86`), and
  `handleClose` drops `outputBuffer_`: an answer arrives whole only if it fits into
  the send buffer. `ShortAnswers` says that those which do are never kept back.
* `connectionCallback_` is not called on disconnection, although the comment at
  `net/tcpConnection.cpp:376` says so: every path to `connectDestroyed` has left
  `kConnected`, so `state_ # "kConnected"` whenever `connectDestroyed` runs.
* Tasks that are queued when a `threadPool` is destroyed are dropped, against the
  comment at `base/threadPool.h:72`: `owner = "done" => tasks = << >>`.
* Two workers of a `threadPool` may start tasks in another order than they were added
  in (`base/threadPool.h:81`): `SubSeq(taken, 1, Len(started)) = started`.
* `readFd` with a file offset adds only the size of the last read to it
  (`net/netBuffer.cpp:22`), so a file that takes three reads is read at wrong
  places: `Intact` with `2` among the `Offsets`.
* A request is rejected if a segment ends inside its method or its version,
  because text without a CR is taken for a whole line
  (`http/httpParser.cpp:39`, `61`, `96`): `RejectsOnlyBad` without `cut`. A POST with
  `Content-Length: 0` makes the loop of `parse` run for ever if more text follows
  (`http/httpParser.cpp:228`), and is not answered otherwise. A request that came
  in one segment with the end of another waits until more arrives: `Answered`
  without `piped`.
* A CR without an LF in a header line makes `requestHeadParse` start again at the
  beginning of that line and never return (`http/httpParser.cpp:122`), unless the text
  ends with the character behind it; the whole IO loop hangs: `~stuck`.
* Connections that are accepted before the sub loops have run their `addConnect`
  functors are not counted (`net/EventLoopThreadPool.cpp:19`), so a burst goes to
  one loop: `LeastLoaded` without `OnWay(Loops)`.
* If a sub loop takes the descriptor that `handleRead` has just closed, the spare
  descriptor is lost (`net/Acceptor.cpp:64`): `mpc = "poll" => idleFd_ # 0`. And
  while the table is full `handleRead` does not return, since `accept` fails with
  EMFILE and not with EAGAIN: `mpc = "accept" ~> mpc = "poll"`.
* The unlocked test of `loop_` (`net/EventLoopThread.cpp:30`) can hand out a loop
  before `init()` has made its poller: `owner = "constructed" => inited`.
* An `EventLoop` is never destroyed, because it owns a channel that owns it
  (`net/EventLoop.cpp:41`): `owner = "done" => refs = {}`.
* `startRead` does not look at `state_`; called by a write-complete callback that
  runs after `forceCloseInLoop` in the same batch it registers the channel of a
  closed connection again, and the assert of `handleClose` fails at the next
  event: `OneTeardown` without `lateRead`. A client that has called `stopRead` does
  not notice that its peer has closed: `PeerCloseFrees` without `Deaf`.
* Nothing in the repository ignores SIGPIPE, so a write to a dead connection ends
  the process before the EPIPE branch of `sendInLoop` is reached: `~killed`.
* Messages appended after the back end's last exchange are not written when the
  logger is destroyed: `owner = "done" /\ ~dropped => Len(logged) = appended`.
* A message of `kLargeBuffer - 1` characters passes the test of `append` and fits
  no buffer, so it is discarded (`log/asyncLogging.cpp:43`): `discarded = {}`.
* The destructor of an `asyncLogging` that was never started stores `running_ =
  false`, for which its back end does not look: it spins at
  `log/asyncLogging.cpp:58` and the join never returns:
  `(main = "joining") ~> (main = "done")` in `LogFile`.
* `gOut` and `gFlush` stay bound to the back end's local `logFile` after
  `~asyncLogging`, although the comment at `log/asyncLogging.cpp:63` wants no other
  thread to reach it: a `LOG` after that uses a destroyed object. The model lets
  nobody log then.
* A file that passes `rollSize_` in the second in which it was opened is not rolled
  (`log/logFile.h:47`), and a process started again in the same second appends to
  the old file with `writtenBytes_ = 0` (`log/fileUtil.cpp:129`), so that the file may
  pass `rollSize_` in a later second and go on: `Rolling` without the condition on the
  time, or with `Fits` reduced to its first line.
  The daily roll would not recover from a clock that is set back.

### Bounds, and why they are enough

* `EventLoop`: two other threads, one socket, three functors, and an `events_` of one
  entry instead of 16, so that two ready channels overflow and double it.
  Two wakeups and the reading of the eventfd can interleave in every order, a
  functor can be queued by each kind of caller, and a batch can grow while it
  runs. The safety results are proved without bounds.
* `EventLoopThread`: one owner and two functors; there is only one of each thread
  in the code.
* `TcpConnection`: a send buffer of 2 bytes and messages of 1 and 3, so that a
  message fits, fits partly, or meets a full buffer; a file of 3 bytes;
  `MaxCalls = 3` calls of the client and the other thread together, enough for
  send, close and one more; one unread segment, since `readFd` reads until
  EAGAIN. `MaxBytes = 4`: one long and one short message.
* `ThreadPool`: two workers, one client, three tasks: one worker may take what
  another was notified for.
* `TcpServer`: three descriptors, one of them the spare, two sub loops, and two
  clients at a time that come again: the table can be filled by connections, by files
  that were forgotten and by both, a client can be refused, the spare can be lost, and
  a second close can hit a socket, a file or the spare. After such a hit nothing more
  arrives (`Arrivals`), since `Descriptors` claims nothing then. The proofs have none of
  these bounds except `Arrivals`.
* `NetBuffer`: an initial size of 4 and messages of 1, 3, 4 and 9 bytes: less than,
  exactly, one less than and more than twice the room, so that a message fits,
  makes the buffer move, double once, or double more than once. `MaxBytes = 11`.
* `BlockingQueue`: capacity 2 with three producers and two consumers, so that on
  each side more threads can sleep than are notified.
* `HttpServer`: two requests; a url with a bare CR; no body, or one that looks like a
  blank line. Each request has a version of its own for keep-alive, and two for being
  bad: a header line without a space, and one with a bare CR.
* `AsyncLogging`: `Size = 4`, so a buffer holds one or two messages;
  `Limit = 4` instead of 25; `MaxAppends = 6` messages reach batches of three
  buffers (trimmed) and of four or more (overload). `Lengths` go up to `Size - 1`.
* `LogFile`: messages of 1 and 2 bytes and a `rollSize_` of 2, so that a file is
  filled exactly and passed; a day of two seconds, a clock of three and a check at
  every second append, so that the day changes between checks; three messages,
  two processes, one logging thread beside the back end.

### Deadlock

Deadlock is checked, and the terminal states have a stuttering action, except in:
`connection`, where a connection that has stopped reading does not notice a dead
peer and may wait for ever; the `ThreadPool`
runs, where the lost notification shown by `pool_stop` really blocks; and `server`, where
nothing arrives any more after a second close has hit a descriptor in use.

### Fairness

Weak fairness, but for `TcpServer`, on the steps of threads that are running: the operating
system schedules them, callbacks, functors and tasks return. There is none on
what a client, a peer or an owner may choose not to do (send, call, destroy,
close), with two exceptions: in `TcpConnection` the peer reads what it is sent, and
another thread that is in `forceClose` comes out of it and drops its pointer.
In `TcpServer` nothing is assumed of the clients: `ClientsAnswered` holds although
no connection may ever close and files that were forgotten stay open; a message callback
returns (weak fairness of `CallbackStep`). The functors of a sub loop
and the end of its batch have strong fairness (`LoopStep`, `Destruct`): a message callback
disables them while it runs, again and again if messages keep coming, but `loop()` calls
`doPendingFunctors` after the callbacks of every poll. In
`BlockingQueue` consumers keep calling `take` and nobody has to call `put`.
`NetBuffer` and `HttpServer` are sequential and have no fairness.
No fairness on `PollNothing` (the 10 s timeout must not be needed) or on
spurious wakeups. In `AsyncLogging` the timeout of `wait_for` is part of the
back end's progress, as in the code; so it is in `LogFile`, where neither the clock
nor stdio's own writes have to move and nobody has to log.

## 4. What is proved

`EventLoopProofs`, for any set of threads, channels and functors, and any initial size of
`events_`:

* `WakeupInvariant`: `Spec => []LoopInv`, where `LoopInv` is `TypeOK /\ WakeupInv`.
  `NoLostWakeup` speaks only of the IO
  thread in `epoll_wait` and is not inductive. The strengthening says that from
  the swap on, up to the next `epoll_wait`, a functor in `pendingFunctors_` is
  accompanied by a wakeup (`PendingHasWakeup`); this needs that
  `callingPendingFunctors_` is true exactly between the beginning and the end of
  `doPendingFunctors` (`CallingFlag`), which is why a functor's own `queueInLoop`
  wakes the loop, and that `handleRead` runs only before the swap
  (`WakeupReadable`).
* `NoLostWakeupAlways`: `Spec => []NoLostWakeup`, from that invariant.
* `LoopImplementsExecutor`: `Spec => ImplementsExecutor` with
  `submitted = executed \o functors \o pendingFunctors_`; the swap is a stutter
  because the local vector is empty when it happens (`LocalVector`).
* `OwnerInvariant`: `ThreadSpec => []OwnerInv`, for the loop inside an
  `EventLoopThread`. `LoopAlive` and `AlwaysJoined` follow from who holds the loop
  (`HoldersOK`) and from how far the two threads can be apart (`PhasesOK`): the
  destructor begins after the constructor, which does not return before `loop_` is
  set, and `loop_` is reset only when the loop has ended, which only the
  destructor's own `quit()` brings about. That the loop is still there when `quit()`
  writes to the eventfd, although `loop_` may be reset by then, is due to the
  `shared_ptr` in the loop's own wakeup channel. `PendingHasWakeup` is not part of the
  invariant because it is false here: a wakeup that comes before `init()` is lost.
  The rest of `WakeupInv` (`QuitInv`) survives, since nobody quits a loop and loses
  the wakeup for it once `loop()` has been entered.
* `ThreadImplementsExecutor`: `ThreadSpec => ImplementsExecutor`: every step is a step
  of `EventLoop` or changes neither queue nor vector.

`AsyncLoggingProofs`, for every buffer size above 2, every set of message lengths
below it, every overload limit above 2 and every number of messages:

* `HandOffAlways`: `Spec => []LoggingInv`, that is `TypeOK`, by which no buffer
  exceeds `SIZE - 1` characters, and `HandOff`. The code takes one or two buffers off the
  back of `needToWriteBufVec_` without looking at its size. The reason it may:
  `prv_` is null exactly when `transBufVec_` is not empty, so the back end gives
  away its second spare exactly when the batch has at least two buffers; and
  since it then takes exactly that many out of a batch cut down to two, the
  vector is empty when it is swapped the next time, as the comment at
  `asyncLogging.cpp:87` assumes.
* `ConservationAlways`: `Spec => []Conservation`. The buffers that hold messages are,
  in the order of the messages, those of the batch not yet written, `transBufVec_` and
  `cur_` (`Held`). The property says of them, and of what is logged, that all message
  numbers increase and that every number up to `appended` occurs, is discarded, or the
  back end was overloaded. It is stated by positions and not by joining the buffers, so
  that the proof needs no induction over the batch: an append adds the largest number
  to the last buffer or to a new one behind it, the exchange moves the same buffers
  from one place to another, a write moves the messages of the first buffer behind
  those in the log, and an overload takes a piece out of the middle. What makes it
  inductive is `BetweenRounds`, that the spares are empty when they become `cur_` and
  `prv_`, and `HandOff`, by which a buffer that is given back is reset and is none of
  those that hold messages.

`NetBufferProofs`, for every initial size, every chunk and every set of lengths:

* `InMemoryAlways`, `RoomToReadAlways`: `Spec => []BufferInv` (`TypeOK` and
  `InMemory`) and `Spec => []RoomToRead`. The strengthening is `Room`: the memory is as large
  as `alloc_` says and never full, except inside `expansion()`, and a message
  about to be copied leaves at least one byte free. It rests on the tests
  `writeable() <= len` being `<=` and not `<`: `checkCapcity` always leaves more than
  was asked for. `readFd` looks at the room only when a fifth or less is left,
  and what is more than a fifth is more than nothing.
* `IntactAlways`: `Spec => []Intact` if `Offsets = {0}`, that is, for everything but
  the `pread` of a file.

`BlockingQueueProofs`, for all finite sets of producers and consumers, any items
and any capacity:

* `TypeCorrect`: the queue stays within its capacity.
* `NoStrandedWaiterAlways`: `Spec => []QueueInv`: while a consumer sleeps, the queued items are no more
  than the consumers that are awake and on their way, and the same for producers
  and free places. The invariant is inductive as it stands because it counts: a
  `put` adds an item and moves one sleeper to `takers`; a `take` removes one of each.
* `QueueImplementsExecutor`: `Spec => ImplementsExecutor` with
  `submitted = taken \o queue`.

`ThreadPoolProofs`, for every finite set of workers, any callers and any tasks:

* `PoolInvariant`: `Spec => []PoolInv`. `NoStrandedTask` is not inductive alone: a
  worker that has tested its predicate and is about to wait would sleep on a task
  pushed in between. `MutexInv` excludes it: the worker holds `m_mutex` from the lock
  to the wait, `addTask` pushes under the same mutex, and so the queue is still empty
  when it goes to sleep. The destructor's store without the mutex is why the property
  speaks of a running pool only. `NoEmptyPop` needs the mutex too: nobody else pops
  between the test and `tasks.front()`. `IdleCount` is proved by counting a set that
  gains or loses one worker. `OnePlace` says where a task is: queued, in the hands of
  one worker between the pop and the call, or called.
* `PoolImplementsWorkerPool`: `Spec => ImplementsWorkerPool` with
  `submitted = taken \o tasks`. A push is a submission, a call is a start. The tasks that
  a call overtakes are older, so they have been taken, and not called, so by `OnePlace`
  each is in the hands of another worker that has not called it yet: fewer than there
  are workers.

`TcpServerProofs`, for any numbers of clients, sub loops, descriptors and files left open:

* `ServerInvariant`: `Spec => []ServerInv`. `ConnectSets` (an open connection is in the
  `connectSet_` of its own loop or on its way there, and a closed one in none) depends
  on what is queued: a second `addConnect` behind a close would put the connection
  back for good. `FunctorsInOrder` says what a queued functor will find, so
  `addConnect` and `connectEstablished` are there once, in this order, and before the
  close; and since `newConnection` queues the two in two steps, the second one must
  still belong to the connection that was accepted last (`ArrivalOrder`).
  `NoMissedClient` is inductive as it stands: `accept` is repeated until EAGAIN.
  `ScanInv` follows `min_element`: until `newConn` has its loop no other connection gets
  one, so a load can only fall, and a size that was read is at least the load less the
  `addConnect`s that were queued at the accept.
* `DescriptorsKept`: `Spec => []Descriptors`. The invariant is `~stolen => Table`, where
  `Table` says of the whole table what `Descriptors` says of its owners: a connection is
  alive exactly if it owns the number in `sockfd_` and it owns no other, the spare is
  the one that `idleFd_` names except between its close and its next open, and the file
  of a callback is its own until it closes it. The second close of a cut file either
  finds the number free and changes nothing, or sets `stolen`; a file that is forgotten
  keeps its number, which nobody else is given.
* `LeastLoadedAlways`: `Spec => []LeastLoaded`, from `ScanInv` when `min_element` has
  passed the last loop. A comparison keeps the bound: if the next loop was read smaller,
  its load is at most what was read plus the connections on their way to it, and what
  was read is at most what the best before it was read as; each connection is on its
  way to one loop, so that the allowances of the compared loops add up.
* `ParseStable`, about `HttpParser`, for texts over any symbols: if `parse` succeeds on
  a text, it returns the same on every text that begins with it, and whatever `strncmp`
  reads behind the text; and `parseSize_` is between 1 and the length of the text. So
  once a request is complete, what arrives behind it cannot change it, and
  `httpServer` retrieves bytes that are there. The argument goes line by line: which CRs
  `requestLineParse` looks behind depends on the text up to them only, so that the first
  one with an LF is the same in the longer text; the version is compared inside the text,
  because the request line ends with a CR; the lines of the header up to the blank one
  are the same; and the body is a piece of the old text. For a text that is not
  complete no such statement is true: see `RejectsOnlyBad` in section 3.

`LogFileProofs`, for any threads, message lengths, `rollSize_`, `flushEveryN_`,
`checkEveryN_` and length of a day:

* `LogInvariant`: `Spec => []LogInv`. `Handshake` follows from `BackendInv`, which ties
  the functions that are bound and the file to the place of the back end: `start()`
  returns after `set_value`, which comes after both bindings, whatever `running_` was
  at the beginning.
* `CompleteAlways`: `Spec => []Complete`. What `abort()` loses is `buffer_`; that this is
  never a message logged before the fatal one is `FatalInv`: once a thread has returned
  from `gFlush` the files hold all messages up to its own, and nothing another
  thread does between the three steps of `~Logger` takes them away.
* `RollingAlways`: `Spec => []Rolling`. It speaks of all files, while the code
  remembers only the current one; `RollInv` says that what it remembers is true of that
  file (`startOfPeriod_` is its day, `count_` bounds the messages of a later day, none
  passed `rollSize_` after the second of its name without a roll), and that no file and
  no message is of the future, so that a name is not used again except in its own second.
  The sizes are those of the files. What the code tests is `writtenBytes_`, which by
  `SizeInv` is the size less what an earlier process has left in the file; hence the
  second exception in `Fits`.
* `NothingErasedAlways`: `Spec => NothingErased`, an action property.

`TcpConnectionProofs`, for any send buffer, any lengths of messages and files, any
set of operations that callbacks may call, any other threads, and any number of
calls and bytes:

* `ConnectionInvariant`: `Spec => []ConnectionInv`. The argument is the life of the
  connection, told by its functors: `Queue` is the batch that runs and the queue behind
  it, as one sequence. `Connecting` lists the five things that can be in it before
  `connectEstablished`. `Leaving` holds whatever is called, also after a lapse: a
  connection that is not in `connectSet_` has a `connectDestroyed` to come or has had
  one, no callback of the client comes behind it (`QuietAfter`), and after it the
  channel is no longer touched; `NoDanglingChannel` follows. `Closing` is what is lost
  by a lapse of the teardown: a closed connection has the one `connectDestroyed` in
  the queue or behind it (`DestroyOnce`); `ClosedIsDeaf` follows. `Round` ties events and
  batch to the place in the loop. `FinAfterData` needs `Output`: what is kept back has
  asked for EPOLLOUT, so that `shutdownWriteInLoop` does not send a FIN before it.
* `OneTeardownAlways`: `Spec => []OneTeardown`: the asserts of `connectEstablished`,
  `handleClose` and the destructor cannot fail, and `connectDestroyed` runs at most
  once, unless `startRead` is called on a closed connection or a `forceClose` in another
  thread races with the close, the case of `connection_threads`.
* `StreamIntactAlways`: `Spec => []StreamIntact`: `sendInLoop` writes directly only when
  nothing waits, keeps exactly the rest, and `handleWrite` takes from the front.
* `ShortAnswersAlways`: `Spec => []ShortAnswers`: it is inductive with
  `sock.inflight <= Len(wire)` and `Len(wire) + Len(outputBuffer_) <= accepted`: what has
  been accepted in all fits, so every write has room for the whole message.

The assumptions are the `ASSUME`s of the modules: names of different things are
different, bounds are natural numbers, sets of threads are finite where they are
counted, lengths are below `SIZE` (otherwise `append` aborts).

Only model-checked:

* liveness, in all modules: fairness and `ENABLED` are outside the prover;
* `InStep`, `Answered` and `RejectsOnlyBad` of `HttpServer`: they compare what the parser
  returns with the stream of requests that the client builds by joining pieces of
  text, and what such a sequence holds for every list of requests takes induction over
  data. `ParseStable` is the part of them that does not.

## 5. What is not modelled

* Memory order: the models interleave atomic steps. `Singleton` (double-checked
  locking) and the races on members that are constructed after the thread that
  uses them has started are left out for that reason.
* `TcpConnection`: calls of `send`, `shutdown`, `startRead` and `stopRead` in
  other threads (raw `this` in the queued functor); the content of `inputBuffer_`;
  reuse of a file descriptor number after `close`.
* `LogFile`: errors of `fopen` (the process exits) and `fwrite` (ignored by the
  code), a clock that is set back, logging after `~asyncLogging`.
* The destructors of `TcpServer` and `Acceptor`: they stop the sub loops, which
  `EventLoopThread` models, and leave the open connections in loops that are never
  destroyed. No program in the repository gets there, since the main loop is
  never told to quit. Errors of `accept` other than EAGAIN, EINTR and EMFILE: they
  repeat the loop, or end the process with `LOG(FATAL)` (`net/Socket.cpp:163`).
* `Thread`: a promise set by the new thread before its function runs; only its
  own test uses it. The wrappers of system calls in `fileUtil` and `Socket`.
* `logStream`, `timeStamp`, `InetAddress` and the head of a log line: formatting.
* `net/coro`, `file_options`, `example`, tests: not part of the server.

## 6. Plan

Done, in this order: `EventLoop` with `Executor`, `EventLoopThread`, `Channel` and
`TcpConnection`, `ThreadPool` with `WorkerPool`, `AsyncLogging`, `NetBuffer`,
`BlockingQueue`, `HttpParser` and `HttpServer`, `TcpServer` with the files of requests,
`LogFile`; the proofs of section 4. Left:

1. Calls of `send` and `shutdown` in other threads, whose functors hold a raw `this`.
2. The construction of the members of `EventLoopThread` one after the other.
