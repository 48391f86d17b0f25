------------------------------ MODULE LogFile -------------------------------
(***************************************************************************)
(* adl::logFile (src/log/logFile.h) and its fileApp (src/log/fileUtil.cpp) *)
(* in the process that uses them: asyncLogging's constructor, start() and  *)
(* destructor in the main thread, its back end, which makes the file and   *)
(* binds Logger's global functions to it, and threads whose Loggers write  *)
(* to the file directly.  LOG(FATAL) aborts the process, which may be      *)
(* started again.                                                          *)
(*                                                                         *)
(* append and flush hold mutex_ and are one step each.  Messages are       *)
(* numbered in the order in which they are appended.  A file is known by   *)
(* the second in its name; what has been written with fwrite is in stdio's *)
(* buffer until it is flushed or stdio itself writes it.                   *)
(***************************************************************************)
EXTENDS Naturals, Sequences, FiniteSets, FiniteSetsExt

CONSTANTS
  Threads,          \* the threads that log
  Lengths,          \* the lengths of messages
  rollSize_,
  flushInterval_,
  checkEveryN_,
  kRollPerSeconds_, \* the seconds of a day
  MaxTime,          \* bound: the clock stops here
  MaxMessages,      \* bound: messages that are logged
  MaxRuns           \* bound: how often the process is started

ASSUME LogFileAssumption ==
  /\ Lengths \subseteq Nat \ {0}
  /\ rollSize_ \in Nat /\ flushInterval_ \in Nat
  /\ checkEveryN_ \in Nat \ {0} /\ kRollPerSeconds_ \in Nat \ {0}
  /\ MaxTime \in Nat \ {0} /\ MaxMessages \in Nat /\ MaxRuns \in Nat \ {0}

VARIABLES
  clock,            \* time(NULL)
  disk,             \* what the files hold, in the order in which it was written
  file,             \* the logFile, and what stdio holds of the file it writes
  bound,            \* which of gOut and gFlush are bound to the logFile
  running_,
  main,             \* where the main thread is
  bpc,              \* where the back end is
  fatalOf,          \* the message that each thread is logging FATAL, or 0
  flushed,          \* the threads that have called gFlush for it
  messages,         \* how many messages have been logged
  born,             \* history: how many of them by earlier processes
  fatal,            \* history: the message that ended the process, or 0
  runs              \* how often the process has been started

logVars  == <<disk, file>>
procVars == <<bound, running_, main, bpc>>
loggers  == <<fatalOf, flushed>>
histVars == <<messages, born, fatal, runs>>
vars     == <<clock, logVars, procVars, loggers, histVars>>

\* A message in a file: when and by which process it was written, and how large it
\* made the file, whoever wrote what was there before.
Entry == [file : 1..MaxTime, time : 1..MaxTime, run : 1..MaxRuns, size : Nat,
          id : 1..MaxMessages]

\* lastRoll_ is also the name of the file.
LogFileType == [buffer_ : Seq(Entry), writtenBytes_ : Nat, count_ : 0..(checkEveryN_ - 1),
                startOfPeriod_ : 0..MaxTime, lastRoll_ : 0..MaxTime,
                lastFlush_ : 0..MaxTime]

TypeOK ==
  /\ clock \in 1..MaxTime
  /\ disk \in Seq(Entry) /\ file \in LogFileType
  /\ bound \subseteq {"gOut", "gFlush"} /\ running_ \in BOOLEAN
  /\ main \in {"ctor", "constructed", "starting", "started", "joining", "done",
               "aborted"}
  /\ bpc \in {"spin", "open", "setFlush", "setOut", "ready", "while", "write",
              "flush", "exit"}
  /\ fatalOf \in [Threads -> 0..MaxMessages] /\ flushed \subseteq Threads
  /\ messages \in 0..MaxMessages /\ born \in 0..MaxMessages
  /\ fatal \in 0..MaxMessages /\ runs \in 1..MaxRuns

NoFile == [buffer_ |-> << >>, writtenBytes_ |-> 0, count_ |-> 0, startOfPeriod_ |-> 0,
           lastRoll_ |-> 0, lastFlush_ |-> 0]

\* The process is at the beginning of the constructor of asyncLogging, whose thread
\* td_ is there before the other members are.  running_ is never initialised.
Init ==
  /\ clock = 1 /\ disk = << >> /\ file = NoFile
  /\ bound = {} /\ running_ \in BOOLEAN /\ main = "ctor" /\ bpc = "spin"
  /\ fatalOf = [t \in Threads |-> 0] /\ flushed = {}
  /\ messages = 0 /\ born = 0 /\ fatal = 0 /\ runs = 1

-----------------------------------------------------------------------------
(***************************************************************************)
(* The file.  An operation on it says what it holds in stdio's buffer and  *)
(* what it adds to the disk: a record with the new value of both.          *)
(***************************************************************************)
Period(time) == (time \div kRollPerSeconds_) * kRollPerSeconds_

\* fopen(filename, "ae"): a file that is there keeps what it holds.
Opened_Truncated(d, name) ==             \* mutant: mode "we"
  SelectSeq(d, LAMBDA e : e.file # name)

Opened(d, name) == d

\* fflush, and fclose in ~fileApp.
flush(d, f) == [disk |-> d \o f.buffer_, file |-> [f EXCEPT !.buffer_ = << >>]]

\* A new file, unless the open one was opened in this second.
rollfile(d, f) ==
  IF clock <= f.lastRoll_
    THEN [disk |-> d, file |-> f]
    ELSE [disk |-> Opened(flush(d, f).disk, clock),
          file |-> [f EXCEPT !.buffer_ = << >>, !.writtenBytes_ = 0,
                             !.lastRoll_ = clock, !.lastFlush_ = clock,
                             !.startOfPeriod_ = Period(clock)]]

DayOver_Never(f) == FALSE                \* mutant: files are rolled by size only

DayOver(f) == Period(clock) # f.startOfPeriod_

\* append_unlocked, after the message has been written.
Check(d, f) ==
  LET counted == [f EXCEPT !.count_ = IF @ + 1 < checkEveryN_ THEN @ + 1 ELSE 0]
  IN  IF f.writtenBytes_ > rollSize_ THEN rollfile(d, f)
      ELSE IF counted.count_ # 0     THEN [disk |-> d, file |-> counted]
      ELSE IF DayOver(f)             THEN rollfile(d, counted)
      ELSE IF clock - f.lastFlush_ > flushInterval_
                            THEN flush(d, [counted EXCEPT !.lastFlush_ = clock])
      ELSE [disk |-> d, file |-> counted]

\* The size of a file: where the last message in it ends.
Of(s, name) == {k \in 1..Len(s) : s[k].file = name}

SizeOf(s, name) == IF Of(s, name) = {} THEN 0 ELSE s[Max(Of(s, name))].size

\* A message of a positive length, or one of the back end's empty buffers.  fileApp
\* begins to count at 0 also for a file that is not empty.
append(d, f, len) ==
  LET entry == [file |-> f.lastRoll_, time |-> clock, run |-> runs,
                size |-> SizeOf(d \o f.buffer_, f.lastRoll_) + len, id |-> messages + 1]
  IN  Check(d, [f EXCEPT !.writtenBytes_ = @ + len,
                         !.buffer_ = IF len > 0 THEN Append(@, entry) ELSE @])

Becomes(r) == disk' = r.disk /\ file' = r.file

-----------------------------------------------------------------------------
(***************************************************************************)
(* ~Logger in a thread.                                                    *)
(***************************************************************************)
Up == main # "aborted"

NewMessage == messages < MaxMessages /\ messages' = messages + 1

\* gOut(buf): to the file, or to stdout, of which nothing is kept here.
Log(t, len, isFatal) ==
  /\ main = "started" /\ fatalOf[t] = 0
  /\ NewMessage
  /\ IF "gOut" \in bound THEN Becomes(append(disk, file, len)) ELSE UNCHANGED logVars
  /\ fatalOf' = [fatalOf EXCEPT ![t] = IF isFatal THEN messages' ELSE 0]
  /\ UNCHANGED <<clock, procVars, flushed, born, fatal, runs>>

FatalFlush_Skipped(t) ==                 \* mutant: abort without gFlush
  /\ Up /\ fatalOf[t] # 0 /\ t \notin flushed
  /\ flushed' = flushed \cup {t}
  /\ UNCHANGED <<clock, logVars, procVars, fatalOf, histVars>>

FatalFlush(t) ==
  /\ Up /\ fatalOf[t] # 0 /\ t \notin flushed
  /\ flushed' = flushed \cup {t}
  /\ IF "gFlush" \in bound THEN Becomes(flush(disk, file)) ELSE UNCHANGED logVars
  /\ UNCHANGED <<clock, procVars, fatalOf, histVars>>

\* abort() ends the process and does not flush what stdio holds.
Abort(t) ==
  /\ Up /\ t \in flushed
  /\ main' = "aborted"
  /\ fatal' = fatalOf[t]
  /\ file' = [file EXCEPT !.buffer_ = << >>]
  /\ UNCHANGED <<clock, disk, bound, running_, bpc, loggers, messages, born, runs>>

-----------------------------------------------------------------------------
(***************************************************************************)
(* asyncLogging in the main thread.                                        *)
(***************************************************************************)
MainStep(from, to) ==
  /\ main \in from /\ main' = to
  /\ UNCHANGED <<clock, logVars, bound, bpc, loggers, histVars>>

Constructed == MainStep({"ctor"}, "constructed") /\ UNCHANGED running_

Start == MainStep({"constructed"}, "starting") /\ running_' = TRUE

\* f.get(): set_value has been called.
StartReturns_AtOnce ==                   \* mutant: start does not wait
  MainStep({"starting"}, "started") /\ UNCHANGED running_

StartReturns ==
  /\ bpc \notin {"spin", "open", "setFlush", "setOut", "ready"}
  /\ MainStep({"starting"}, "started") /\ UNCHANGED running_

\* The destructor, when no other thread logs any more, or without start().
Destroy ==
  /\ \A t \in Threads : fatalOf[t] = 0
  /\ MainStep({"constructed", "started"}, "joining") /\ running_' = FALSE

Joined == bpc = "exit" /\ MainStep({"joining"}, "done") /\ UNCHANGED running_

-----------------------------------------------------------------------------
(***************************************************************************)
(* threadFunc.                                                             *)
(***************************************************************************)
BackStep(from, to) ==
  /\ Up /\ bpc = from /\ bpc' = to
  /\ UNCHANGED <<clock, running_, main, loggers, born, fatal, runs>>

\* "while (!running_.load())": a busy wait.
BackSpins == Up /\ bpc = "spin" /\ ~running_ /\ UNCHANGED vars

BackStarts == running_ /\ BackStep("spin", "open") /\ UNCHANGED <<logVars, bound, messages>>

\* The constructor of logFile, with its first rollfile.
BackOpens ==
  /\ BackStep("open", "setFlush")
  /\ Becomes(rollfile(disk, NoFile))
  /\ UNCHANGED <<bound, messages>>

BackBinds(from, to, f) ==
  /\ BackStep(from, to)
  /\ bound' = bound \cup {f}
  /\ UNCHANGED <<logVars, messages>>

BackSetsFlush == BackBinds("setFlush", "setOut", "gFlush")
BackSetsOut   == BackBinds("setOut", "ready", "gOut")

\* p_.set_value(), and the rest up to the loop.
BackReady == BackStep("ready", "while") /\ UNCHANGED <<logVars, bound, messages>>

\* A round begins, by timeout or by notification; or the loop ends, and the file is
\* flushed and then closed as it leaves its scope.
BackRound == /\ running_ /\ BackStep("while", "write")
             /\ UNCHANGED <<logVars, bound, messages>>

BackExits == /\ ~running_ /\ BackStep("while", "exit")
             /\ Becomes(flush(disk, file)) /\ UNCHANGED <<bound, messages>>

\* A buffer of the batch: empty, or with a message that was given to
\* asyncLogging::append.
BackWrites ==
  /\ BackStep("write", "flush")
  /\ \E len \in Lengths \cup {0} :
       /\ IF len = 0 THEN UNCHANGED messages ELSE NewMessage
       /\ Becomes(append(disk, file, len))
  /\ UNCHANGED bound

BackFlushes_Never ==                     \* mutant: no flush at the end of a round
  BackStep("flush", "while") /\ UNCHANGED <<logVars, bound, messages>>

BackFlushes == /\ BackStep("flush", "while")
               /\ Becomes(flush(disk, file)) /\ UNCHANGED <<bound, messages>>

-----------------------------------------------------------------------------
\* stdio writes what it holds when its buffer is full.
Spill ==
  /\ Up /\ file.buffer_ # << >>
  /\ Becomes(flush(disk, file))
  /\ UNCHANGED <<clock, procVars, loggers, histVars>>

Tick ==
  /\ clock < MaxTime /\ clock' = clock + 1
  /\ UNCHANGED <<logVars, procVars, loggers, histVars>>

Ended == main \in {"aborted", "done"}

\* A process that has ended is started again.
Restart ==
  /\ Ended /\ runs < MaxRuns /\ runs' = runs + 1
  /\ file' = NoFile
  /\ bound' = {} /\ running_' \in BOOLEAN /\ main' = "ctor" /\ bpc' = "spin"
  /\ fatalOf' = [t \in Threads |-> 0] /\ flushed' = {}
  /\ born' = messages /\ fatal' = 0
  /\ UNCHANGED <<clock, disk, messages>>

Backend == BackStarts \/ BackOpens \/ BackSetsFlush \/ BackSetsOut \/ BackReady
           \/ BackRound \/ BackWrites \/ BackFlushes \/ BackExits

Next ==
  \/ \E t \in Threads, len \in Lengths, isFatal \in BOOLEAN : Log(t, len, isFatal)
  \/ \E t \in Threads : FatalFlush(t) \/ Abort(t)
  \/ Constructed \/ Start \/ StartReturns \/ Destroy \/ Joined
  \/ BackSpins \/ Backend
  \/ Spill \/ Tick \/ Restart
  \/ Ended /\ UNCHANGED vars

Spec == Init /\ [][Next]_vars

\* The back end is scheduled and its wait times out; start() and the destructor
\* return when they can.  Nobody has to log, and stdio's own writes and the clock
\* must not be needed.
FairSpec == Spec /\ WF_vars(Backend) /\ WF_vars(StartReturns \/ Joined)

-----------------------------------------------------------------------------
\* When start() has returned, Loggers write to an open file and LOG(FATAL) flushes
\* that file, also if the back end did not wait for start() because the memory of
\* running_ happened not to be zero.
Handshake ==
  main = "started" => bound = {"gOut", "gFlush"} /\ file.lastRoll_ > 0

\* What the back end has done so far decides which functions are bound, and the file
\* is there before they are; it ends only for the destructor, with nothing left in
\* stdio's buffer.
BackendInv ==
  /\ bpc \in {"spin", "open"} => file = NoFile
  /\ bpc \notin {"spin", "open"} => file.lastRoll_ > 0
  /\ "gFlush" \in bound <=> bpc \notin {"spin", "open", "setFlush"}
  /\ "gOut" \in bound <=> bpc \notin {"spin", "open", "setFlush", "setOut"}
  /\ main \in {"started", "aborted"} =>
       bpc \notin {"spin", "open", "setFlush", "setOut", "ready"}
  /\ main \in {"starting", "started"} => running_
  /\ bpc # "spin" => running_ \/ main \in {"joining", "done"}
  /\ bpc = "exit" => main \in {"joining", "done"} /\ file.buffer_ = << >>
  /\ main = "done" => bpc = "exit"

All == disk \o file.buffer_
In(i, s) == \E k \in 1..Len(s) : s[k].id = i

\* A thread that logs FATAL keeps the destructor away, and when its gFlush has
\* returned the files hold its message and all before it.
FatalInv ==
  /\ born <= messages
  /\ \A k \in 1..Len(All) : All[k].id <= messages
  /\ \A t \in Threads : fatalOf[t] # 0 =>
       main \in {"started", "aborted"} /\ fatalOf[t] <= messages
  /\ \A t \in flushed :
       fatalOf[t] # 0 /\ \A i \in (born + 1)..fatalOf[t] : In(i, disk)
  /\ fatal # 0 => main = "aborted"

\* The i-th message left its file within rollSize_, not counting what an earlier process
\* had left in it: a process that is started again in the second of the file's name.
Fits(s, i) ==
  \/ s[i].size <= rollSize_
  \/ \E k \in 1..(i - 1) : /\ s[k].file = s[i].file /\ s[k].run < s[i].run
                           /\ s[i].size <= rollSize_ + s[k].size

Late(e) == Period(e.time) # Period(e.file)
LateIn(name, s) == {k \in 1..Len(s) : s[k].file = name /\ Late(s[k])}

\* What logFile remembers of its file is true of it: the day it belongs to, that it is
\* not too large yet, and that count_ covers the messages of a later day; and no file
\* and no message is of the future.
RollInv ==
  /\ file.lastRoll_ <= clock
  /\ \A k \in 1..Len(All) : All[k].file <= All[k].time /\ All[k].time <= clock
  /\ file.lastRoll_ > 0 =>
       /\ file.startOfPeriod_ = Period(file.lastRoll_)
       /\ \A k \in 1..Len(All) : All[k].file = file.lastRoll_ /\ All[k].time > All[k].file
                                   => Fits(All, k)
       /\ Cardinality(LateIn(file.lastRoll_, All)) <= file.count_

\* writtenBytes_ is the size of the file, but for what an earlier process has left in
\* it; no file is newer than the one that is written.
SizeInv ==
  /\ \A k \in 1..Len(All) :
       /\ All[k].run <= runs
       /\ file.lastRoll_ = 0 => All[k].run < runs
       /\ file.lastRoll_ > 0 => All[k].file <= file.lastRoll_
  /\ Up /\ file.lastRoll_ > 0 =>
       \/ SizeOf(All, file.lastRoll_) = file.writtenBytes_
       \/ \E k \in 1..Len(All) :
            /\ All[k].file = file.lastRoll_ /\ All[k].run < runs
            /\ SizeOf(All, file.lastRoll_) = All[k].size + file.writtenBytes_

\* The handshake of start() with the back end, what LOG(FATAL) may rely on, and what
\* logFile knows of its file.
LogInv == TypeOK /\ Handshake /\ BackendInv /\ FatalInv /\ RollInv /\ SizeInv

\* The files in the order in which they were written, and then stdio's buffer, hold
\* every message of this process once and in order, across rolls by size and by
\* day, flushes, and the files that an earlier process has left.  After LOG(FATAL)
\* the files themselves hold all messages up to the fatal one, whatever the other
\* threads do between its three steps, and after the destructor all messages.
Complete ==
  /\ \A i, j \in 1..Len(All) : i < j => All[i].id < All[j].id
  /\ Up => \A i \in (born + 1)..messages : In(i, All)
  /\ fatal # 0 => \A i \in (born + 1)..fatal : In(i, disk)
  /\ main = "done" => \A i \in (born + 1)..messages : In(i, disk)

\* A file ends with the message that takes it over rollSize_, with two exceptions: in
\* the second in which it was opened it cannot be rolled, and what an earlier process
\* wrote to it in that second is not counted by the one that is started again.  And it
\* holds at most checkEveryN_ messages of a later day than its own, although the day
\* is looked at only now and then.
Rolling ==
  \A i \in 1..Len(All) :
    /\ \A j \in (i + 1)..Len(All) :
         All[i].file = All[j].file /\ All[i].time > All[i].file => Fits(All, i)
    /\ Cardinality(LateIn(All[i].file, All)) <= checkEveryN_

\* What a file holds is never changed or removed, also when a process that is
\* started again in the same second opens a file of the same name.
NothingErased ==
  [][Len(disk) <= Len(disk') /\ SubSeq(disk', 1, Len(disk)) = disk]_disk

\* A message does not stay in stdio's buffer: it is flushed by the next round of the
\* back end at the latest, unless the process is aborted first.
ReachesDisk ==
  \A i \in 1..MaxMessages : In(i, file.buffer_) ~> (In(i, disk) \/ ~Up)
=============================================================================
