--------------------------- MODULE LogFileProofs ----------------------------
(***************************************************************************)
(* Proofs about LogFile for any number of threads, every roll size, flush  *)
(* interval, check interval and length of a day, and all values of the     *)
(* bounds: the handshake of start(), that no message is lost, doubled or   *)
(* reordered, that files are rolled in time and never truncated.           *)
(***************************************************************************)
EXTENDS LogFile, FiniteSetTheorems, SequenceTheorems, TLAPS

\* The beginning of a day comes no later than the time, and days are in order.
LEMMA PeriodFacts ==
  ASSUME NEW s \in Nat, NEW t \in Nat
  PROVE  Period(t) \in Nat /\ Period(t) <= t /\ (s <= t => Period(s) <= Period(t))
<1> USE LogFileAssumption
<1>1. (s \div kRollPerSeconds_) \in Nat /\ (t \div kRollPerSeconds_) \in Nat
  OBVIOUS
<1>2. (t \div kRollPerSeconds_) * kRollPerSeconds_ <= t
  OBVIOUS
<1>3. s <= t => (s \div kRollPerSeconds_) <= (t \div kRollPerSeconds_)
  OBVIOUS
<1>4. s <= t => (s \div kRollPerSeconds_) * kRollPerSeconds_ <= (t \div kRollPerSeconds_) * kRollPerSeconds_
  BY <1>1, <1>3
<1> QED BY <1>1, <1>2, <1>4 DEF Period

\* A set of naturals with a bound has a greatest element.
LEMMA Greatest ==
  ASSUME NEW S, NEW n \in Nat, S \subseteq 0..n, S # {}
  PROVE  Max(S) \in S /\ \A y \in S : y <= Max(S)
<1> DEFINE R == OpToRel(<, Nat)
           T == {n - x : x \in S}
<1>1. IsWellFoundedOn(R, Nat) /\ R = {ss \in Nat \X Nat : ss[1] < ss[2]}
  <2>1. IsWellFoundedOn(R, Nat)
    BY NatLessThanWellFounded
  <2>2. R = {ss \in Nat \X Nat : ss[1] < ss[2]}
    BY Zenon DEF OpToRel
  <2> QED BY <2>1, <2>2
<1> HIDE DEF R
<1>2. T \subseteq Nat /\ T # {}
  <2>1. ASSUME NEW x \in S PROVE n - x \in Nat
    <3>1. x \in 0..n
      OBVIOUS
    <3> QED BY <3>1
  <2>2. T \subseteq Nat
    BY <2>1, Zenon
  <2> QED BY <2>2, Zenon
<1>3. PICK t \in T : \A y \in T : ~(<<y, t>> \in R)
  BY <1>1, <1>2, WFMin
<1>4. PICK x \in S : t = n - x
  BY <1>3
<1>5. ASSUME NEW y \in S PROVE y <= x
  <2>1. n - y \in T /\ n - y \in Nat /\ t \in Nat
    BY <1>2, <1>3
  <2>2. <<n - y, t>> \in Nat \X Nat /\ <<n - y, t>> \notin R
    BY <1>3, <2>1
  <2>3. ~(<<n - y, t>>[1] < <<n - y, t>>[2])
    BY <1>1, <2>2
  <2>4. x \in 0..n /\ y \in 0..n
    OBVIOUS
  <2> QED BY <1>4, <2>1, <2>3, <2>4
<1>6. \A y \in S : x >= y
  <2>1. \A y \in S : y \in Nat /\ x \in Nat
    OBVIOUS
  <2> QED BY <1>5, <2>1
<1>7. Max(S) \in S /\ \A y \in S : Max(S) >= y
  BY <1>6, Zenon DEF Max
<1>8. PICK m \in S : m = Max(S)
  BY <1>7
<1>9. \A y \in S : y \in Nat
  OBVIOUS
<1> QED BY <1>7, <1>8, <1>9

\* The size of a file is 0 or what its last message made it.
LEMMA SizeFacts ==
  ASSUME NEW s \in Seq(Entry), NEW name
  PROVE  /\ SizeOf(s, name) \in Nat
         /\ \/ SizeOf(s, name) = 0
            \/ \E k \in 1..Len(s) : s[k].file = name /\ s[k].size = SizeOf(s, name)
<1>1. CASE Of(s, name) = {}
  BY <1>1 DEF SizeOf
<1>2. CASE Of(s, name) # {}
  <2>1. Len(s) \in Nat /\ Of(s, name) \subseteq 0..Len(s)
    BY DEF Of
  <2>2. Max(Of(s, name)) \in Of(s, name)
    BY <1>2, <2>1, Greatest
  <2>3. PICK k \in 1..Len(s) : k = Max(Of(s, name)) /\ s[k].file = name
    BY <2>2 DEF Of
  <2>4. SizeOf(s, name) = s[k].size
    BY <1>2, <2>3 DEF SizeOf
  <2>5. s[k] \in Entry
    OBVIOUS
  <2>6. s[k].size \in Nat
    BY <2>5 DEF Entry
  <2> QED BY <2>3, <2>4, <2>6
<1> QED BY <1>1, <1>2

\* A message more is the end of its file.
LEMMA SizeAppend ==
  ASSUME NEW s \in Seq(Entry), NEW e \in Entry
  PROVE  SizeOf(Append(s, e), e.file) = e.size
<1>1. PICK u : u = Append(s, e)
  OBVIOUS
<1>2. Len(u) = Len(s) + 1 /\ Len(s) \in Nat /\ u[Len(u)] = e
  BY <1>1
<1>3. Len(u) \in Of(u, e.file) /\ Of(u, e.file) \subseteq 0..Len(u)
  BY <1>2 DEF Of
<1>4. Max(Of(u, e.file)) \in Of(u, e.file) /\ Len(u) <= Max(Of(u, e.file))
  BY <1>2, <1>3, Greatest
<1>5. PICK k : k = Max(Of(u, e.file))
  OBVIOUS
<1>6. k = Len(u)
  <2>1. k \in 0..Len(u) /\ Len(u) <= k
    BY <1>3, <1>4, <1>5
  <2> QED BY <1>2, <2>1
<1>7. SizeOf(u, e.file) = u[k].size
  BY <1>3, <1>5 DEF SizeOf
<1> QED BY <1>1, <1>2, <1>6, <1>7

-----------------------------------------------------------------------------
(***************************************************************************)
(* The operations on the file.                                             *)
(***************************************************************************)
ResultType(r) == r.disk \in Seq(Entry) /\ r.file \in LogFileType

\* What stdio held is on the disk.
Flushed(r, d, f) ==
  /\ r.disk = d \o f.buffer_ /\ r.file.buffer_ = << >>
  /\ r.file.lastRoll_ = f.lastRoll_ /\ r.file.startOfPeriod_ = f.startOfPeriod_
  /\ r.file.count_ = f.count_ /\ r.file.writtenBytes_ = f.writtenBytes_

\* Nothing, or the old file is closed and one is open that has the second as its name.
Rolled(r, d, f) ==
  /\ r.file.count_ = f.count_
  /\ clock <= f.lastRoll_ => r.disk = d /\ r.file = f
  /\ clock > f.lastRoll_ =>
       /\ r.disk = d \o f.buffer_ /\ r.file.buffer_ = << >>
       /\ r.file.lastRoll_ = clock /\ r.file.startOfPeriod_ = Period(clock)
       /\ r.file.writtenBytes_ = 0

\* What is on the disk and in stdio's buffer stays the same sequence.  The file is
\* rolled; or it is not too large, or was opened in this second, and the message is
\* counted, or it is still the day of the file, or the second in which it was opened.
Checked(r, d, f) ==
  /\ \/ r.disk = d /\ r.file.buffer_ = f.buffer_
     \/ r.disk = d \o f.buffer_ /\ r.file.buffer_ = << >>
  /\ \/ /\ clock > f.lastRoll_ /\ r.file.lastRoll_ = clock
        /\ r.file.startOfPeriod_ = Period(clock) /\ r.file.buffer_ = << >>
        /\ r.file.writtenBytes_ = 0
     \/ /\ r.file.lastRoll_ = f.lastRoll_ /\ r.file.writtenBytes_ = f.writtenBytes_
        /\ r.file.startOfPeriod_ = f.startOfPeriod_
        /\ f.writtenBytes_ <= rollSize_ \/ clock <= f.lastRoll_
        /\ r.file.count_ = f.count_ + 1 \/ clock <= f.lastRoll_ \/ ~DayOver(f)

\* flush, with fclose, moves what stdio holds to the disk.
LEMMA FlushFacts ==
  ASSUME NEW STATE d, d \in Seq(Entry), NEW STATE f, f \in LogFileType
  PROVE  ResultType(flush(d, f)) /\ Flushed(flush(d, f), d, f)
<1>1. f.buffer_ \in Seq(Entry)
  BY DEF LogFileType
<1>2. d \o f.buffer_ \in Seq(Entry)
  BY <1>1
<1>3. << >> \in Seq(Entry)
  OBVIOUS
<1>4. [f EXCEPT !.buffer_ = << >>] \in LogFileType
  BY <1>3 DEF LogFileType
<1> QED BY <1>2, <1>4 DEF flush, LogFileType, ResultType, Flushed

\* rollfile opens a new file unless the open one has the second as its name.
LEMMA RollFacts ==
  ASSUME clock \in 1..MaxTime, NEW STATE d, d \in Seq(Entry), NEW STATE f, f \in LogFileType
  PROVE  ResultType(rollfile(d, f)) /\ Rolled(rollfile(d, f), d, f)
<1> USE DEF ResultType, Rolled
<1>1. CASE clock <= f.lastRoll_
  BY <1>1 DEF rollfile, LogFileType
<1>2. CASE clock > f.lastRoll_
  <2>1. ~(clock <= f.lastRoll_)
    BY <1>2 DEF LogFileType
  <2>2. Period(clock) \in 0..MaxTime /\ clock \in 0..MaxTime
    BY PeriodFacts, LogFileAssumption
  <2>3. rollfile(d, f) = [disk |-> d \o f.buffer_,
                          file |-> [f EXCEPT !.buffer_ = << >>, !.writtenBytes_ = 0,
                                             !.lastRoll_ = clock, !.lastFlush_ = clock,
                                             !.startOfPeriod_ = Period(clock)]]
    BY <2>1 DEF rollfile, Opened, flush
  <2>4. f.buffer_ \in Seq(Entry) /\ << >> \in Seq(Entry)
    BY DEF LogFileType
  <2>5. d \o f.buffer_ \in Seq(Entry)
    BY <2>4
  <2> HIDE DEF Period
  <2> DEFINE g == [f EXCEPT !.buffer_ = << >>, !.writtenBytes_ = 0, !.lastRoll_ = clock,
                            !.lastFlush_ = clock, !.startOfPeriod_ = Period(clock)]
  <2>6. /\ g \in LogFileType /\ g.buffer_ = << >> /\ g.lastRoll_ = clock
        /\ g.startOfPeriod_ = Period(clock) /\ g.count_ = f.count_ /\ g.writtenBytes_ = 0
    BY <2>2, <2>4 DEF LogFileType
  <2>7. rollfile(d, f).disk = d \o f.buffer_ /\ rollfile(d, f).file = g
    BY <2>3
  <2> HIDE DEF g
  <2> QED BY <2>1, <2>5, <2>6, <2>7
<1>3. clock \in Nat /\ f.lastRoll_ \in Nat
  BY LogFileAssumption DEF LogFileType
<1>4. clock <= f.lastRoll_ \/ clock > f.lastRoll_
  BY <1>3
<1> QED BY <1>1, <1>2, <1>4, Zenon

\* append_unlocked after it has written: whatever it does, no message moves.
LEMMA CheckFacts ==
  ASSUME clock \in 1..MaxTime, NEW STATE d, d \in Seq(Entry), NEW STATE f, f \in LogFileType
  PROVE  ResultType(Check(d, f)) /\ Checked(Check(d, f), d, f)
<1> USE LogFileAssumption
<1> DEFINE n == IF f.count_ + 1 < checkEveryN_ THEN f.count_ + 1 ELSE 0
           counted == [f EXCEPT !.count_ = n]
           timed   == [counted EXCEPT !.lastFlush_ = clock]
<1>t. /\ f.writtenBytes_ \in Nat /\ f.lastRoll_ \in Nat /\ f.count_ \in Nat
      /\ f.buffer_ \in Seq(Entry)
  BY DEF LogFileType
<1>n. n \in 0..(checkEveryN_ - 1) /\ (n # 0 => n = f.count_ + 1)
  BY <1>t
<1>k. Check(d, f) = IF f.writtenBytes_ > rollSize_ THEN rollfile(d, f)
                    ELSE IF counted.count_ # 0 THEN [disk |-> d, file |-> counted]
                    ELSE IF DayOver(f) THEN rollfile(d, counted)
                    ELSE IF clock - f.lastFlush_ > flushInterval_ THEN flush(d, timed)
                    ELSE [disk |-> d, file |-> counted]
  BY DEF Check
<1> HIDE DEF n
<1>c. /\ counted \in LogFileType
      /\ counted.buffer_ = f.buffer_ /\ counted.lastRoll_ = f.lastRoll_
      /\ counted.startOfPeriod_ = f.startOfPeriod_ /\ counted.writtenBytes_ = f.writtenBytes_
      /\ counted.count_ # 0 => counted.count_ = f.count_ + 1
  BY <1>n DEF LogFileType
<1> HIDE DEF counted
<1>f. /\ timed \in LogFileType
      /\ timed.buffer_ = f.buffer_ /\ timed.lastRoll_ = f.lastRoll_
      /\ timed.startOfPeriod_ = f.startOfPeriod_ /\ timed.writtenBytes_ = f.writtenBytes_
  <2>1. clock \in 0..MaxTime
    OBVIOUS
  <2> QED BY <1>c, <2>1 DEF LogFileType
<1> HIDE DEF timed
<1>0. clock <= f.lastRoll_ \/ clock > f.lastRoll_
  BY <1>t
<1>1. CASE f.writtenBytes_ > rollSize_
  <2>1. Check(d, f) = rollfile(d, f)
    BY <1>1, <1>k
  <2>2. ResultType(Check(d, f)) /\ Rolled(Check(d, f), d, f)
    BY <2>1, RollFacts
  <2> QED BY <1>0, <2>2 DEF Rolled, Checked
<1>2. CASE f.writtenBytes_ <= rollSize_ /\ counted.count_ # 0
  <2>1. Check(d, f) = [disk |-> d, file |-> counted]
    BY <1>2, <1>k, <1>t
  <2> QED BY <1>c, <1>2, <2>1 DEF ResultType, Checked
<1>3. CASE f.writtenBytes_ <= rollSize_ /\ counted.count_ = 0 /\ DayOver(f)
  <2>1. Check(d, f) = rollfile(d, counted)
    BY <1>3, <1>k, <1>t
  <2>2. ResultType(Check(d, f)) /\ Rolled(Check(d, f), d, counted)
    BY <1>c, <2>1, RollFacts
  <2> QED BY <1>0, <1>c, <1>3, <2>2 DEF Rolled, Checked
<1>4. CASE f.writtenBytes_ <= rollSize_ /\ counted.count_ = 0 /\ ~DayOver(f)
  <2>1. Check(d, f) = flush(d, timed) \/ Check(d, f) = [disk |-> d, file |-> counted]
    BY <1>4, <1>k, <1>t
  <2>2. CASE Check(d, f) = flush(d, timed)
    <3>1. ResultType(Check(d, f)) /\ Flushed(Check(d, f), d, timed)
      BY <1>f, <2>2, FlushFacts
    <3> QED BY <1>f, <1>4, <3>1 DEF Flushed, Checked
  <2>3. CASE Check(d, f) = [disk |-> d, file |-> counted]
    BY <1>c, <1>4, <2>3 DEF ResultType, Checked
  <2> QED BY <2>1, <2>2, <2>3
<1> QED BY <1>1, <1>2, <1>3, <1>4, <1>t

\* The message of length len that is appended now, and the file when it is written.
NewEntry(len) == [file |-> file.lastRoll_, time |-> clock, run |-> runs,
                  size |-> SizeOf(disk \o file.buffer_, file.lastRoll_) + len,
                  id |-> messages + 1]
Written(len)  == [file EXCEPT !.writtenBytes_ = file.writtenBytes_ + len,
                              !.buffer_ = IF len > 0 THEN Append(file.buffer_, NewEntry(len))
                                                     ELSE file.buffer_]

\* append puts one message, or none, behind the others.
LEMMA AppendFacts ==
  ASSUME TypeOK, file.lastRoll_ > 0, NEW len \in Nat, len > 0 => messages < MaxMessages
  PROVE  /\ len > 0 => NewEntry(len) \in Entry
         /\ Written(len) \in LogFileType
         /\ Written(len).buffer_ = IF len > 0 THEN Append(file.buffer_, NewEntry(len))
                                              ELSE file.buffer_
         /\ Written(len).lastRoll_ = file.lastRoll_ /\ Written(len).count_ = file.count_
         /\ Written(len).startOfPeriod_ = file.startOfPeriod_
         /\ Written(len).writtenBytes_ = file.writtenBytes_ + len
         /\ ResultType(append(disk, file, len))
         /\ Checked(append(disk, file, len), disk, Written(len))
<1> USE LogFileAssumption
<1>1. /\ file.buffer_ \in Seq(Entry) /\ file.writtenBytes_ \in Nat
      /\ file.lastRoll_ \in 0..MaxTime
  BY DEF TypeOK, LogFileType
<1>2. file.lastRoll_ \in 1..MaxTime /\ file.writtenBytes_ + len \in Nat
  BY <1>1
<1>3. ASSUME len > 0 PROVE NewEntry(len) \in Entry
  <2>1. messages + 1 \in 1..MaxMessages
    BY <1>3 DEF TypeOK
  <2>2. disk \o file.buffer_ \in Seq(Entry)
    BY <1>1 DEF TypeOK
  <2>3. SizeOf(disk \o file.buffer_, file.lastRoll_) \in Nat
    BY <2>2, SizeFacts
  <2>4. SizeOf(disk \o file.buffer_, file.lastRoll_) + len \in Nat
    BY <2>3
  <2> HIDE DEF SizeOf
  <2> QED BY <1>2, <2>1, <2>4 DEF TypeOK, NewEntry, Entry
<1> DEFINE b == IF len > 0 THEN Append(file.buffer_, NewEntry(len)) ELSE file.buffer_
<1>4. b \in Seq(Entry)
  <2> HIDE DEF NewEntry
  <2> QED BY <1>1, <1>3
<1>5. Written(len) = [file EXCEPT !.writtenBytes_ = file.writtenBytes_ + len, !.buffer_ = b]
  BY DEF Written
<1>6. append(disk, file, len) = Check(disk, Written(len))
  BY DEF append, Written, NewEntry
<1> HIDE DEF b
<1>7. /\ Written(len) \in LogFileType /\ Written(len).buffer_ = b
      /\ Written(len).lastRoll_ = file.lastRoll_ /\ Written(len).count_ = file.count_
      /\ Written(len).startOfPeriod_ = file.startOfPeriod_
      /\ Written(len).writtenBytes_ = file.writtenBytes_ + len
  BY <1>2, <1>4, <1>5 DEF LogFileType, TypeOK
<1>8. ResultType(append(disk, file, len)) /\ Checked(append(disk, file, len), disk, Written(len))
  BY <1>6, <1>7, CheckFacts DEF TypeOK
<1> QED BY <1>3, <1>7, <1>8 DEF b

-----------------------------------------------------------------------------
(***************************************************************************)
(* What the operations do to the messages.                                 *)
(***************************************************************************)
LEMMA ConcatAppend ==
  ASSUME NEW S, NEW s \in Seq(S), NEW t \in Seq(S), NEW e \in S
  PROVE  s \o Append(t, e) = Append(s \o t, e)
OBVIOUS

\* The file and the disk have their types.
FileOK == disk \in Seq(Entry) /\ file \in LogFileType

\* flush() moves what stdio holds to the disk and forgets nothing.
LEMMA FlushStep ==
  ASSUME TypeOK, Becomes(flush(disk, file))
  PROVE  /\ FileOK' /\ All' = All
         /\ disk' = disk \o file.buffer_ /\ file'.buffer_ = << >>
         /\ file'.lastRoll_ = file.lastRoll_ /\ file'.count_ = file.count_
         /\ file'.startOfPeriod_ = file.startOfPeriod_
         /\ file'.writtenBytes_ = file.writtenBytes_
<1>1. ResultType(flush(disk, file)) /\ Flushed(flush(disk, file), disk, file)
  BY FlushFacts DEF TypeOK
<1>2. disk \o file.buffer_ \in Seq(Entry)
  BY DEF TypeOK, LogFileType
<1>3. disk' = disk \o file.buffer_ /\ file'.buffer_ = << >>
  BY <1>1 DEF Flushed, Becomes
<1>4. All' = All
  BY <1>2, <1>3 DEF All
<1> QED BY <1>1, <1>3, <1>4 DEF ResultType, Flushed, Becomes, FileOK

\* The first file of a process.
LEMMA OpenStep ==
  ASSUME TypeOK, file = NoFile, Becomes(rollfile(disk, NoFile))
  PROVE  /\ FileOK' /\ All' = All
         /\ disk' = disk /\ file'.buffer_ = << >>
         /\ file'.lastRoll_ = clock /\ file'.count_ = 0
         /\ file'.startOfPeriod_ = Period(clock) /\ file'.writtenBytes_ = 0
<1>1. ResultType(rollfile(disk, file)) /\ Rolled(rollfile(disk, file), disk, file)
  BY RollFacts DEF TypeOK
<1>2. clock > file.lastRoll_ /\ file.buffer_ = << >> /\ file.count_ = 0
  BY DEF TypeOK, NoFile
<1>3. disk \o << >> = disk
  BY DEF TypeOK
<1>4. disk' = disk /\ file'.buffer_ = << >>
  BY <1>1, <1>2, <1>3 DEF Rolled, Becomes
<1>5. All' = All
  BY <1>2, <1>4 DEF All
<1> QED BY <1>1, <1>2, <1>4, <1>5 DEF ResultType, Rolled, Becomes, FileOK

\* append: what was on the disk or in stdio's buffer stays where it was in the
\* sequence of both, and what is on the disk stays there.
LEMMA AppendStep ==
  ASSUME TypeOK, file.lastRoll_ > 0, NEW len \in Nat, len > 0 => messages < MaxMessages,
         Becomes(append(disk, file, len))
  PROVE  /\ FileOK' /\ file'.lastRoll_ > 0
         /\ len = 0 => All' = All
         /\ len > 0 => NewEntry(len) \in Entry /\ All' = Append(All, NewEntry(len))
         /\ disk' = disk \/ \E s \in Seq(Entry) : disk' = disk \o s
<1> DEFINE r == append(disk, file, len)
<1>1. ResultType(r) /\ Checked(r, disk, Written(len))
  BY AppendFacts
<1>2. Written(len) \in LogFileType
  BY AppendFacts
<1>3. Written(len).buffer_ = IF len > 0 THEN Append(file.buffer_, NewEntry(len))
                                        ELSE file.buffer_
  BY AppendFacts
<1>4. len > 0 => NewEntry(len) \in Entry
  BY AppendFacts
<1>5. Written(len).lastRoll_ = file.lastRoll_
  BY AppendFacts
<1>6. disk' = r.disk /\ file' = r.file
  BY DEF Becomes
<1> HIDE DEF r, NewEntry, Written
<1>7. Written(len).buffer_ \in Seq(Entry)
  BY <1>2 DEF LogFileType
<1>8. \/ disk' = disk /\ file'.buffer_ = Written(len).buffer_
      \/ disk' = disk \o Written(len).buffer_ /\ file'.buffer_ = << >>
  BY <1>1, <1>6 DEF Checked
<1>9. All' = disk \o Written(len).buffer_
  <2>1. CASE disk' = disk /\ file'.buffer_ = Written(len).buffer_
    BY <2>1 DEF All
  <2>2. CASE disk' = disk \o Written(len).buffer_ /\ file'.buffer_ = << >>
    <3>1. disk \o Written(len).buffer_ \in Seq(Entry)
      BY <1>7 DEF TypeOK
    <3>2. (disk \o Written(len).buffer_) \o << >> = disk \o Written(len).buffer_
      BY <3>1, ConcatEmptySeq
    <3> QED BY <2>2, <3>2 DEF All
  <2> QED BY <1>8, <2>1, <2>2
<1>10. file.buffer_ \in Seq(Entry) /\ disk \in Seq(Entry) /\ clock > 0
  BY DEF TypeOK, LogFileType
<1>11. len = 0 => All' = All
  BY <1>3, <1>9 DEF All
<1>12. ASSUME len > 0 PROVE All' = Append(All, NewEntry(len))
  <2>1. All' = disk \o Append(file.buffer_, NewEntry(len))
    BY <1>3, <1>9, <1>12
  <2>2. NewEntry(len) \in Entry
    BY <1>4, <1>12
  <2> QED BY <1>10, <2>1, <2>2, ConcatAppend DEF All
<1>13. file'.lastRoll_ > 0
  BY <1>1, <1>5, <1>6, <1>10 DEF Checked
<1> QED BY <1>1, <1>4, <1>6, <1>7, <1>8, <1>11, <1>12, <1>13 DEF ResultType, FileOK

-----------------------------------------------------------------------------
(***************************************************************************)
(* The invariant.                                                          *)
(***************************************************************************)
LEMMA NoFileType == NoFile \in LogFileType
<1>1. << >> \in Seq(Entry)
  OBVIOUS
<1> QED BY <1>1, LogFileAssumption DEF NoFile, LogFileType

\* The types hold at the start.
LEMMA TypeInit == Init => TypeOK
BY NoFileType, LogFileAssumption DEF Init, TypeOK

\* Only what is logged before the back end has bound gOut goes to stdout.
LEMMA LoggedToFile ==
  ASSUME BackendInv, main = "started"
  PROVE  "gOut" \in bound /\ file.lastRoll_ > 0
BY DEF BackendInv

\* Every step keeps the types.
LEMMA TypeStep ==
  ASSUME TypeOK, BackendInv, [Next]_vars
  PROVE  TypeOK'
<1> USE LogFileAssumption
<1>f. ASSUME FileOK', UNCHANGED <<clock, running_, main, loggers, born, fatal, runs>>,
             bound' \subseteq {"gOut", "gFlush"}, messages' \in 0..MaxMessages,
             bpc' \in {"spin", "open", "setFlush", "setOut", "ready", "while", "write",
                       "flush", "exit"}
      PROVE  TypeOK'
  BY <1>f DEF TypeOK, FileOK, loggers
<1>1. ASSUME NEW t \in Threads, NEW len \in Lengths, NEW isFatal \in BOOLEAN,
             Log(t, len, isFatal)
      PROVE  TypeOK'
  <2>1. len \in Nat /\ len > 0 /\ messages < MaxMessages
    BY <1>1 DEF Log, NewMessage
  <2>2. Becomes(append(disk, file, len)) /\ file.lastRoll_ > 0
    BY <1>1, LoggedToFile DEF Log
  <2>3. FileOK'
    BY <2>1, <2>2, AppendStep
  <2>4. messages' \in 0..MaxMessages
    BY <1>1 DEF Log, NewMessage, TypeOK
  <2>5. fatalOf' \in [Threads -> 0..MaxMessages]
    BY <1>1, <2>4 DEF Log, TypeOK
  <2> QED BY <1>1, <2>3, <2>4, <2>5 DEF Log, TypeOK, FileOK, procVars
<1>2. ASSUME NEW t \in Threads, FatalFlush(t) PROVE TypeOK'
  <2>1. FileOK'
    BY <1>2, FlushStep DEF FatalFlush, FileOK, TypeOK, logVars
  <2> QED BY <1>2, <2>1 DEF FatalFlush, TypeOK, FileOK, procVars, histVars
<1>3. ASSUME NEW t \in Threads, Abort(t) PROVE TypeOK'
  <2>1. FileOK'
    <3>1. << >> \in Seq(Entry)
      OBVIOUS
    <3> QED BY <1>3, <3>1 DEF Abort, TypeOK, FileOK, LogFileType
  <2>2. fatalOf[t] \in 0..MaxMessages
    BY DEF TypeOK
  <2> QED BY <1>3, <2>1, <2>2 DEF Abort, TypeOK, FileOK, loggers
<1>4. ASSUME NEW from, NEW to \in {"constructed", "starting", "started", "joining", "done"},
             MainStep(from, to), running_' \in BOOLEAN
      PROVE  TypeOK'
  BY <1>4 DEF MainStep, TypeOK, logVars, loggers, histVars
<1>5. Constructed \/ Start \/ StartReturns \/ Destroy \/ Joined => TypeOK'
  <2>1. running_ \in BOOLEAN
    BY DEF TypeOK
  <2> QED BY <1>4, <2>1 DEF Constructed, Start, StartReturns, Destroy, Joined
<1>6. CASE BackStarts \/ BackReady \/ BackRound
  <2>1. FileOK'
    BY <1>6 DEF BackStarts, BackReady, BackRound, TypeOK, FileOK, logVars
  <2> QED BY <1>f, <1>6, <2>1 DEF BackStarts, BackReady, BackRound, BackStep, TypeOK, logVars
<1>7. CASE BackOpens
  <2>1. file = NoFile
    BY <1>7 DEF BackOpens, BackStep, BackendInv
  <2>2. FileOK'
    BY <1>7, <2>1, OpenStep DEF BackOpens
  <2> QED BY <1>f, <1>7, <2>2 DEF BackOpens, BackStep, TypeOK
<1>8. CASE BackSetsFlush \/ BackSetsOut
  <2>1. FileOK'
    BY <1>8 DEF BackSetsFlush, BackSetsOut, BackBinds, TypeOK, FileOK, logVars
  <2> QED BY <1>f, <1>8, <2>1 DEF BackSetsFlush, BackSetsOut, BackBinds, BackStep, TypeOK
<1>9. CASE BackWrites
  <2>1. PICK len \in Lengths \cup {0} :
          /\ IF len = 0 THEN UNCHANGED messages ELSE NewMessage
          /\ Becomes(append(disk, file, len))
    BY <1>9 DEF BackWrites
  <2>2. len \in Nat /\ file.lastRoll_ > 0 /\ (len > 0 => messages < MaxMessages)
    <3>1. len \in Nat /\ (len > 0 => messages < MaxMessages)
      BY <2>1 DEF NewMessage
    <3>2. bpc = "write"
      BY <1>9 DEF BackWrites, BackStep
    <3>3. file.lastRoll_ > 0
      BY <3>2 DEF BackendInv
    <3> QED BY <3>1, <3>3
  <2>3. FileOK'
    BY <2>1, <2>2, AppendStep
  <2>4. messages' \in 0..MaxMessages
    BY <2>1 DEF NewMessage, TypeOK
  <2> QED BY <1>f, <1>9, <2>3, <2>4 DEF BackWrites, BackStep, TypeOK
<1>10. CASE BackFlushes \/ BackExits
  <2>1. FileOK'
    BY <1>10, FlushStep DEF BackFlushes, BackExits
  <2> QED BY <1>f, <1>10, <2>1 DEF BackFlushes, BackExits, BackStep, TypeOK
<1>11. CASE Spill
  <2>1. FileOK'
    BY <1>11, FlushStep DEF Spill
  <2> QED BY <1>11, <2>1 DEF Spill, TypeOK, FileOK, procVars, loggers, histVars
<1>12. CASE Tick
  BY <1>12 DEF Tick, TypeOK, logVars, procVars, loggers, histVars
<1>13. CASE Restart
  BY <1>13, NoFileType DEF Restart, TypeOK
<1>14. CASE UNCHANGED vars
  BY <1>14 DEF vars, logVars, procVars, loggers, histVars, TypeOK
<1> QED BY <1>1, <1>2, <1>3, <1>5, <1>6, <1>7, <1>8, <1>9, <1>10, <1>11, <1>12, <1>13, <1>14
        DEF Next, Backend, BackSpins

\* The back end's progress decides what is bound and which file is open.
LEMMA BackendStep ==
  ASSUME TypeOK, BackendInv, FatalInv, [Next]_vars
  PROVE  BackendInv'
<1> USE LogFileAssumption
<1>1. ASSUME NEW t \in Threads, NEW len \in Lengths, NEW isFatal \in BOOLEAN,
             Log(t, len, isFatal)
      PROVE  BackendInv'
  <2>1. len \in Nat /\ len > 0 /\ messages < MaxMessages
    BY <1>1 DEF Log, NewMessage
  <2>2. Becomes(append(disk, file, len)) /\ file.lastRoll_ > 0
    BY <1>1, LoggedToFile DEF Log
  <2>3. file'.lastRoll_ > 0
    BY <2>1, <2>2, AppendStep
  <2>4. main = "started" /\ UNCHANGED procVars
    BY <1>1 DEF Log
  <2> QED BY <2>3, <2>4 DEF BackendInv, procVars
<1>2. ASSUME FileOK', file'.lastRoll_ = file.lastRoll_, file'.buffer_ = << >>,
             bpc \notin {"spin", "open"}, UNCHANGED procVars
      PROVE  BackendInv'
  BY <1>2 DEF BackendInv, procVars
<1>3. ASSUME NEW t \in Threads, FatalFlush(t) PROVE BackendInv'
  <2>1. main \in {"started", "aborted"}
    BY <1>3 DEF FatalFlush, FatalInv
  <2>2. bpc \notin {"spin", "open"} /\ "gFlush" \in bound
    BY <2>1 DEF BackendInv
  <2>3. Becomes(flush(disk, file)) /\ UNCHANGED procVars
    BY <1>3, <2>2 DEF FatalFlush
  <2> QED BY <1>2, <2>2, <2>3, FlushStep
<1>4. ASSUME NEW t \in Threads, Abort(t) PROVE BackendInv'
  <2>1. main = "started"
    BY <1>4 DEF Abort, Up, FatalInv
  <2>2. file'.lastRoll_ = file.lastRoll_ /\ main' = "aborted" /\ UNCHANGED <<bound, running_, bpc>>
    BY <1>4 DEF Abort, TypeOK, LogFileType
  <2> QED BY <2>1, <2>2 DEF BackendInv
<1>5. CASE Constructed \/ Start \/ StartReturns
  BY <1>5 DEF Constructed, Start, StartReturns, MainStep, BackendInv, logVars
<1>6. CASE Destroy \/ Joined
  BY <1>6 DEF Destroy, Joined, MainStep, BackendInv, logVars
<1>7. CASE BackStarts \/ BackReady \/ BackRound
  BY <1>7 DEF BackStarts, BackReady, BackRound, BackStep, BackendInv, logVars, Up
<1>8. CASE BackOpens
  <2>1. file = NoFile
    BY <1>8 DEF BackOpens, BackStep, BackendInv
  <2>2. file'.lastRoll_ = clock /\ clock > 0
    BY <1>8, <2>1, OpenStep DEF BackOpens, TypeOK
  <2>3. bpc = "open" /\ bpc' = "setFlush" /\ UNCHANGED <<bound, running_, main>>
    BY <1>8 DEF BackOpens, BackStep
  <2> QED BY <2>2, <2>3 DEF BackendInv
<1>9. CASE BackSetsFlush \/ BackSetsOut
  BY <1>9 DEF BackSetsFlush, BackSetsOut, BackBinds, BackStep, BackendInv, logVars
<1>10. CASE BackWrites
  <2>1. PICK len \in Lengths \cup {0} :
          /\ IF len = 0 THEN UNCHANGED messages ELSE NewMessage
          /\ Becomes(append(disk, file, len))
    BY <1>10 DEF BackWrites
  <2>2. len \in Nat /\ file.lastRoll_ > 0 /\ (len > 0 => messages < MaxMessages)
    <3>1. len \in Nat /\ (len > 0 => messages < MaxMessages)
      BY <2>1 DEF NewMessage
    <3>2. bpc = "write"
      BY <1>10 DEF BackWrites, BackStep
    <3>3. file.lastRoll_ > 0
      BY <3>2 DEF BackendInv
    <3> QED BY <3>1, <3>3
  <2>3. file'.lastRoll_ > 0
    BY <2>1, <2>2, AppendStep
  <2>4. bpc = "write" /\ bpc' = "flush" /\ UNCHANGED <<bound, running_, main>>
    BY <1>10 DEF BackWrites, BackStep
  <2> QED BY <2>3, <2>4 DEF BackendInv
<1>11. CASE BackFlushes \/ BackExits
  <2>1. file'.lastRoll_ = file.lastRoll_ /\ file'.buffer_ = << >>
    BY <1>11, FlushStep DEF BackFlushes, BackExits
  <2>2. \/ bpc = "flush" /\ bpc' = "while"
        \/ bpc = "while" /\ bpc' = "exit" /\ ~running_
    BY <1>11 DEF BackFlushes, BackExits, BackStep
  <2>3. UNCHANGED <<bound, running_, main>>
    BY <1>11 DEF BackFlushes, BackExits, BackStep
  <2> QED BY <2>1, <2>2, <2>3 DEF BackendInv
<1>12. CASE Spill
  <2>1. bpc \notin {"spin", "open"}
    BY <1>12 DEF Spill, BackendInv, NoFile
  <2> QED BY <1>2, <1>12, <2>1, FlushStep DEF Spill
<1>13. CASE Tick
  BY <1>13 DEF Tick, BackendInv, logVars, procVars
<1>14. CASE Restart
  BY <1>14 DEF Restart, BackendInv
<1>15. CASE UNCHANGED vars
  BY <1>15 DEF vars, logVars, procVars, BackendInv
<1> QED BY <1>1, <1>3, <1>4, <1>5, <1>6, <1>7, <1>8, <1>9, <1>10, <1>11, <1>12, <1>13, <1>14, <1>15
        DEF Next, Backend, BackSpins

-----------------------------------------------------------------------------
(***************************************************************************)
(* The messages.                                                           *)
(***************************************************************************)
\* No step changes what is on the disk, and the messages on the disk and in stdio's
\* buffer stay, or one is put behind them; only the end of a process loses those that
\* were in the buffer.
DiskGrows == \E s \in Seq(Entry) : disk' = disk \o s

\* What a step does to the messages: one more is at the end of what was written,
Logged ==
  /\ messages' = messages + 1
  /\ \E len \in Lengths : NewEntry(len) \in Entry /\ All' = Append(All, NewEntry(len))

\* nothing changes,
Kept == All' = All /\ messages' = messages

\* or the process ends and what stdio still held is gone.
Lost == All' = disk /\ disk' = disk /\ messages' = messages

\* Each step does one of the three, and the disk only grows.
LEMMA MessageStep ==
  ASSUME TypeOK, BackendInv, FatalInv, [Next]_vars
  PROVE  /\ DiskGrows
         /\ \/ born' = born /\ (Kept \/ Logged)
            \/ born' = born /\ Lost /\ main' = "aborted"
            \/ Lost /\ Restart
<1> USE LogFileAssumption
<1>0. disk \in Seq(Entry) /\ file.buffer_ \in Seq(Entry)
  BY DEF TypeOK, LogFileType
<1>a. ASSUME disk' = disk PROVE DiskGrows
  <2>1. disk' = disk \o << >>
    BY <1>0, <1>a, ConcatEmptySeq
  <2>2. << >> \in Seq(Entry)
    OBVIOUS
  <2> QED BY <2>1, <2>2 DEF DiskGrows
<1>b. ASSUME UNCHANGED logVars PROVE DiskGrows /\ All' = All
  BY <1>a, <1>b DEF logVars, All
<1>c. ASSUME NEW len \in Lengths \cup {0}, Becomes(append(disk, file, len)), file.lastRoll_ > 0,
             IF len = 0 THEN UNCHANGED messages ELSE NewMessage
      PROVE  DiskGrows /\ (Kept \/ Logged)
  <2>1. len \in Nat /\ (len > 0 => messages < MaxMessages)
    BY <1>c DEF NewMessage
  <2>2. /\ len = 0 => All' = All
        /\ len > 0 => NewEntry(len) \in Entry /\ All' = Append(All, NewEntry(len))
        /\ disk' = disk \/ \E s \in Seq(Entry) : disk' = disk \o s
    BY <1>c, <2>1, AppendStep
  <2>3. DiskGrows
    BY <1>a, <2>2 DEF DiskGrows
  <2>4. CASE len = 0
    BY <1>c, <2>2, <2>3, <2>4 DEF Kept
  <2>5. CASE len > 0
    <3>1. len \in Lengths /\ messages' = messages + 1
      BY <1>c, <2>5 DEF NewMessage
    <3> QED BY <2>2, <2>3, <2>5, <3>1 DEF Logged
  <2> QED BY <2>1, <2>4, <2>5
<1>d. ASSUME Becomes(flush(disk, file)) PROVE DiskGrows /\ All' = All
  BY <1>0, <1>d, FlushStep DEF DiskGrows
<1>1. ASSUME NEW t \in Threads, NEW len \in Lengths, NEW isFatal \in BOOLEAN,
             Log(t, len, isFatal)
      PROVE  DiskGrows /\ born' = born /\ (Kept \/ Logged)
  <2>1. Becomes(append(disk, file, len)) /\ file.lastRoll_ > 0
    BY <1>1, LoggedToFile DEF Log
  <2>2. len # 0 /\ NewMessage /\ born' = born
    BY <1>1 DEF Log
  <2> QED BY <1>c, <2>1, <2>2
<1>2. ASSUME NEW t \in Threads, FatalFlush(t) PROVE DiskGrows /\ born' = born /\ Kept
  BY <1>2, <1>b, <1>d DEF FatalFlush, Kept, histVars
<1>3. ASSUME NEW t \in Threads, Abort(t)
      PROVE  DiskGrows /\ born' = born /\ Lost /\ main' = "aborted"
  <2>1. disk' = disk /\ file'.buffer_ = << >> /\ main' = "aborted" /\ born' = born /\ messages' = messages
    BY <1>3 DEF Abort, TypeOK, LogFileType
  <2>2. All' = disk
    BY <1>0, <2>1, ConcatEmptySeq DEF All
  <2> QED BY <1>a, <2>1, <2>2 DEF Lost, Up
<1>4. CASE Constructed \/ Start \/ StartReturns \/ Destroy \/ Joined
  <2>1. UNCHANGED <<logVars, histVars>>
    BY <1>4 DEF Constructed, Start, StartReturns, Destroy, Joined, MainStep
  <2> QED BY <1>b, <2>1 DEF Kept, histVars
<1>5. CASE BackStarts \/ BackReady \/ BackRound \/ BackSetsFlush \/ BackSetsOut
  <2>1. UNCHANGED <<logVars, messages, born>>
    BY <1>5 DEF BackStarts, BackReady, BackRound, BackSetsFlush, BackSetsOut, BackBinds, BackStep
  <2> QED BY <1>b, <2>1 DEF Kept
<1>6. CASE BackOpens
  <2>1. file = NoFile
    BY <1>6 DEF BackOpens, BackStep, BackendInv
  <2>2. disk' = disk /\ All' = All
    BY <1>6, <2>1, OpenStep DEF BackOpens
  <2> QED BY <1>a, <1>6, <2>2 DEF BackOpens, BackStep, Kept
<1>7. CASE BackWrites
  <2>1. file.lastRoll_ > 0 /\ born' = born
    BY <1>7 DEF BackWrites, BackStep, BackendInv
  <2> QED BY <1>c, <1>7, <2>1 DEF BackWrites
<1>8. CASE BackFlushes \/ BackExits
  <2>1. Becomes(flush(disk, file)) /\ UNCHANGED <<messages, born>>
    BY <1>8 DEF BackFlushes, BackExits, BackStep
  <2> QED BY <1>d, <2>1 DEF Kept
<1>9. CASE Spill
  BY <1>d, <1>9 DEF Spill, Kept, histVars
<1>10. CASE Tick
  BY <1>b, <1>10 DEF Tick, Kept, histVars
<1>11. CASE Restart
  <2>1. disk' = disk /\ file'.buffer_ = << >> /\ born' = messages /\ messages' = messages
    BY <1>11 DEF Restart, NoFile
  <2>2. All' = disk
    BY <1>0, <2>1, ConcatEmptySeq DEF All
  <2> QED BY <1>a, <1>11, <2>1, <2>2 DEF Lost
<1>12. CASE UNCHANGED vars
  BY <1>b, <1>12 DEF vars, Kept, histVars
<1> QED BY <1>1, <1>2, <1>3, <1>4, <1>5, <1>6, <1>7, <1>8, <1>9, <1>10, <1>11, <1>12
        DEF Next, Backend, BackSpins

\* What is in a sequence is also in one that begins with it.
LEMMA InConcat ==
  ASSUME NEW s \in Seq(Entry), NEW t \in Seq(Entry), NEW i, In(i, s) \/ In(i, t)
  PROVE  In(i, s \o t)
<1>1. CASE In(i, s)
  <2>1. PICK k \in 1..Len(s) : s[k].id = i
    BY <1>1 DEF In
  <2>2. k \in 1..Len(s \o t) /\ (s \o t)[k] = s[k]
    OBVIOUS
  <2> QED BY <2>1, <2>2 DEF In
<1>2. CASE In(i, t)
  <2>1. PICK k \in 1..Len(t) : t[k].id = i
    BY <1>2 DEF In
  <2>2. Len(s) + k \in 1..Len(s \o t) /\ (s \o t)[Len(s) + k] = t[k]
    OBVIOUS
  <2> QED BY <2>1, <2>2 DEF In
<1> QED BY <1>1, <1>2

\* A message stays, and a new one is there, when an entry is appended.
LEMMA InAppend ==
  ASSUME NEW s \in Seq(Entry), NEW e \in Entry, NEW i, In(i, s) \/ i = e.id
  PROVE  In(i, Append(s, e))
<1>1. CASE In(i, s)
  <2>1. PICK k \in 1..Len(s) : s[k].id = i
    BY <1>1 DEF In
  <2>2. k \in 1..Len(Append(s, e)) /\ Append(s, e)[k] = s[k]
    OBVIOUS
  <2> QED BY <2>1, <2>2 DEF In
<1>2. CASE i = e.id
  <2>1. Len(s) + 1 \in 1..Len(Append(s, e)) /\ Append(s, e)[Len(s) + 1] = e
    OBVIOUS
  <2> QED BY <1>2, <2>1 DEF In
<1> QED BY <1>1, <1>2

\* The messages are in the order in which they were logged, and none is of the future.
Ordered(s, n) ==
  /\ \A k \in 1..Len(s) : s[k].id <= n
  /\ \A i, j \in 1..Len(s) : i < j => s[i].id < s[j].id

\* An entry with the next number keeps the order.
LEMMA OrderedAppend ==
  ASSUME NEW s \in Seq(Entry), NEW n \in Nat, Ordered(s, n), NEW e \in Entry, e.id = n + 1
  PROVE  Ordered(Append(s, e), n + 1)
<1>0. \A k \in 1..Len(s) : s[k].id \in Nat
  <2>1. \A k \in 1..Len(s) : s[k] \in Entry
    OBVIOUS
  <2>2. \A k \in 1..Len(s) : s[k].id \in 1..MaxMessages
    BY <2>1 DEF Entry
  <2> HIDE DEF Entry
  <2> QED BY <2>2, LogFileAssumption
<1>1. /\ Len(Append(s, e)) = Len(s) + 1 /\ Len(s) \in Nat
      /\ \A k \in 1..Len(s) : Append(s, e)[k] = s[k] /\ s[k].id \in Nat
      /\ Append(s, e)[Len(s) + 1] = e
  BY <1>0
<1>2. \A k \in 1..Len(s) : s[k].id <= n
  BY DEF Ordered
<1>3. \A k \in 1..(Len(s) + 1) : Append(s, e)[k].id <= n + 1
  BY <1>1, <1>2
<1>4. ASSUME NEW i \in 1..(Len(s) + 1), NEW j \in 1..(Len(s) + 1), i < j
      PROVE  Append(s, e)[i].id < Append(s, e)[j].id
  <2>1. CASE j = Len(s) + 1
    BY <1>1, <1>2, <1>4, <2>1
  <2>2. CASE j \in 1..Len(s)
    <3>1. i \in 1..Len(s) /\ s[i].id < s[j].id
      BY <1>1, <1>4, <2>2 DEF Ordered
    <3> QED BY <1>1, <2>2, <3>1
  <2> QED BY <1>1, <2>1, <2>2
<1> QED BY <1>1, <1>3, <1>4 DEF Ordered

\* What abort() leaves, the part on disk, is still in order.
LEMMA OrderedPrefix ==
  ASSUME NEW s \in Seq(Entry), NEW t \in Seq(Entry), NEW n \in Nat, Ordered(s \o t, n)
  PROVE  Ordered(s, n)
<1>1. \A k \in 1..Len(s) : k \in 1..Len(s \o t) /\ (s \o t)[k] = s[k]
  OBVIOUS
<1> QED BY <1>1 DEF Ordered

\* Messages stay in the order in which they were logged, in files and in buffer_.
LEMMA OrderStep ==
  ASSUME TypeOK, BackendInv, FatalInv, [Next]_vars, Ordered(All, messages)
  PROVE  Ordered(All, messages)'
<1>0. disk \in Seq(Entry) /\ file.buffer_ \in Seq(Entry) /\ messages \in Nat /\ All \in Seq(Entry)
  BY LogFileAssumption DEF TypeOK, LogFileType, All
<1>1. Kept \/ Logged \/ Lost
  BY MessageStep
<1>2. CASE Kept
  BY <1>2 DEF Kept, Ordered
<1>3. CASE Logged
  <2>1. PICK len \in Lengths : NewEntry(len) \in Entry /\ All' = Append(All, NewEntry(len))
    BY <1>3 DEF Logged
  <2>2. NewEntry(len).id = messages + 1 /\ messages' = messages + 1
    BY <1>3 DEF NewEntry, Logged
  <2>3. PICK e \in Entry : e = NewEntry(len)
    BY <2>1
  <2>4. Ordered(Append(All, e), messages + 1)
    BY <1>0, <2>2, <2>3, OrderedAppend
  <2> QED BY <2>1, <2>2, <2>3, <2>4 DEF Ordered
<1>4. CASE Lost
  <2>1. Ordered(disk, messages)
    BY <1>0, OrderedPrefix DEF All
  <2> QED BY <1>4, <2>1 DEF Lost, Ordered
<1> QED BY <1>1, <1>2, <1>3, <1>4

\* Which steps end a process and which begin one.
MainMoves == Constructed \/ Start \/ StartReturns \/ Destroy \/ Joined

\* Which steps start or end a process, or move its loggers.
LEMMA ProcessStep ==
  ASSUME TypeOK, BackendInv, FatalInv, [Next]_vars
  PROVE  /\ Up' => Up \/ Restart
         /\ \/ fatal' = fatal /\ UNCHANGED loggers /\ (main' = main \/ MainMoves)
            \/ \E t \in Threads : Abort(t) \/ FatalFlush(t)
            \/ \E t \in Threads, len \in Lengths, isFatal \in BOOLEAN : Log(t, len, isFatal)
            \/ Restart
<1>1. \A t \in Threads, len \in Lengths, isFatal \in BOOLEAN :
        Log(t, len, isFatal) => (Up' => Up)
  BY DEF Log, procVars, Up
<1>2. \A t \in Threads : FatalFlush(t) \/ Abort(t) => (Up' => Up)
  BY DEF FatalFlush, Abort, Up
<1>3. CASE MainMoves
  <2>1. fatal' = fatal /\ UNCHANGED loggers /\ (Up' => Up)
    BY <1>3 DEF MainMoves, Constructed, Start, StartReturns, Destroy, Joined, MainStep, Up, histVars
  <2> QED BY <1>3, <2>1
<1>4. CASE Backend
  BY <1>4 DEF Backend, BackStarts, BackOpens, BackSetsFlush, BackSetsOut, BackBinds, BackReady,
              BackRound, BackWrites, BackFlushes, BackExits, BackStep, Up
<1>5. CASE Spill \/ Tick
  BY <1>5 DEF Spill, Tick, Up, procVars, histVars
<1>6. CASE UNCHANGED vars
  BY <1>6 DEF vars, Up, procVars, histVars
<1> QED BY <1>1, <1>2, <1>3, <1>4, <1>5, <1>6 DEF Next, BackSpins, MainMoves

\* Every message of the process is on the disk or in stdio's buffer.
AllThere == \A i \in (born + 1)..messages : In(i, All)

\* The messages of this process up to number n are on disk.
OnDisk(n) == \A i \in (born + 1)..n : In(i, disk)

\* While the process runs nothing that it has logged is lost.
LEMMA ThereStep ==
  ASSUME TypeOK, BackendInv, FatalInv, [Next]_vars, Up => AllThere
  PROVE  (Up => AllThere)'
<1>0. All \in Seq(Entry) /\ messages \in Nat /\ born \in Nat
  BY LogFileAssumption DEF TypeOK, LogFileType, All
<1> SUFFICES ASSUME Up' PROVE AllThere'
  OBVIOUS
<1>1. CASE Restart
  <2>1. born' = messages /\ messages' = messages
    BY <1>1 DEF Restart
  <2>2. (born' + 1)..messages' = {}
    BY <1>0, <2>1
  <2> QED BY <2>2 DEF AllThere
<1>2. CASE ~Restart
  <2>1. AllThere
    BY <1>2, ProcessStep
  <2>2. born' = born /\ (Kept \/ Logged)
    BY <1>2, MessageStep DEF Up
  <2>3. CASE Kept
    BY <2>1, <2>2, <2>3 DEF Kept, AllThere, In
  <2>4. CASE Logged
    <3>1. PICK len \in Lengths : NewEntry(len) \in Entry /\ All' = Append(All, NewEntry(len))
      BY <2>4 DEF Logged
    <3>2. NewEntry(len).id = messages + 1 /\ messages' = messages + 1
      BY <2>4 DEF NewEntry, Logged
    <3>3. PICK e \in Entry : e = NewEntry(len)
      BY <3>1
    <3>4. ASSUME NEW i \in (born + 1)..(messages + 1) PROVE In(i, Append(All, e))
      <4>1. In(i, All) \/ i = e.id
        BY <1>0, <2>1, <3>2, <3>3 DEF AllThere
      <4> QED BY <1>0, <4>1, InAppend
    <3> QED BY <2>2, <3>1, <3>2, <3>3, <3>4 DEF AllThere, In
  <2> QED BY <2>2, <2>3, <2>4
<1> QED BY <1>1, <1>2

\* The disk never loses a message.
LEMMA OnDiskStep ==
  ASSUME TypeOK, BackendInv, FatalInv, [Next]_vars, born' = born,
         NEW n \in Nat, OnDisk(n)
  PROVE  OnDisk(n)'
<1>1. PICK s \in Seq(Entry) : disk' = disk \o s
  BY MessageStep DEF DiskGrows
<1>2. ASSUME NEW i \in (born + 1)..n PROVE In(i, disk \o s)
  BY InConcat DEF OnDisk, TypeOK
<1> QED BY <1>1, <1>2 DEF OnDisk, In

\* A flush puts every message on the disk.
LEMMA FlushedAll ==
  ASSUME TypeOK, Up => AllThere, Up, Becomes(flush(disk, file)), born' = born,
         NEW n \in Nat, n <= messages
  PROVE  OnDisk(n)'
<1>1. disk' = All
  BY FlushStep DEF All
<1>2. \A i \in (born + 1)..n : i \in (born + 1)..messages
  BY LogFileAssumption DEF TypeOK
<1> QED BY <1>1, <1>2 DEF AllThere, OnDisk, In

\* After gFlush of a fatal message all messages up to it are on disk.
LEMMA FatalStep ==
  ASSUME TypeOK, BackendInv, FatalInv, [Next]_vars, Up => AllThere, Ordered(All, messages)
  PROVE  FatalInv'
<1> USE LogFileAssumption
<1>0. messages \in Nat /\ born \in Nat /\ fatalOf \in [Threads -> Nat]
  BY DEF TypeOK
<1>1. born' <= messages'
  BY <1>0, MessageStep DEF Kept, Logged, Lost, Restart, FatalInv
<1>2. \A k \in 1..Len(All') : All'[k].id <= messages'
  BY OrderStep DEF Ordered
<1>k. ASSUME born' = born, NEW t \in flushed, fatalOf'[t] = fatalOf[t]
      PROVE  t \in Threads /\ fatalOf[t] # 0 /\ OnDisk(fatalOf[t])'
  <2>1. t \in Threads /\ fatalOf[t] \in Nat /\ fatalOf[t] # 0 /\ OnDisk(fatalOf[t])
    BY <1>0, <1>k DEF TypeOK, FatalInv, OnDisk
  <2>2. PICK n \in Nat : n = fatalOf[t]
    BY <2>1
  <2>3. OnDisk(n)'
    BY <1>k, <2>1, <2>2, OnDiskStep
  <2> QED BY <1>k, <2>1, <2>2, <2>3 DEF OnDisk
<1>3. CASE fatal' = fatal /\ UNCHANGED loggers /\ (main' = main \/ MainMoves)
  <2>1. born' = born /\ messages' \in Nat /\ messages <= messages'
    <3>1. ~(Lost /\ Restart) \/ born' = born
      <4>1. Restart => (main' # main \/ fatal' # fatal) /\ ~MainMoves
        BY DEF Restart, Ended, MainMoves, Constructed, Start, StartReturns, Destroy, Joined, MainStep
      <4> QED BY <1>3, <4>1
    <3> QED BY <1>0, <3>1, MessageStep DEF Kept, Logged, Lost
  <2>2. ASSUME NEW t \in Threads, fatalOf[t] # 0
        PROVE  main' \in {"started", "aborted"} /\ fatalOf[t] <= messages'
    <3>1. main \in {"started", "aborted"} /\ fatalOf[t] <= messages
      BY <2>2 DEF FatalInv
    <3>2. main' = main
      BY <1>3, <2>2, <3>1 DEF MainMoves, Constructed, Start, StartReturns, Destroy, Joined, MainStep
    <3> QED BY <1>0, <2>1, <3>1, <3>2
  <2>3. ASSUME NEW t \in flushed PROVE fatalOf[t] # 0 /\ OnDisk(fatalOf[t])'
    BY <1>k, <1>3, <2>1 DEF loggers
  <2>4. fatal' # 0 => main' = "aborted"
    BY <1>3 DEF FatalInv, MainMoves, Constructed, Start, StartReturns, Destroy, Joined, MainStep
  <2> QED BY <1>1, <1>2, <1>3, <2>2, <2>3, <2>4 DEF FatalInv, OnDisk, loggers
<1>4. ASSUME NEW u \in Threads, NEW len \in Lengths, NEW isFatal \in BOOLEAN,
             Log(u, len, isFatal)
      PROVE  FatalInv'
  <2>1. /\ main = "started" /\ main' = main /\ fatalOf[u] = 0 /\ messages' = messages + 1
        /\ flushed' = flushed /\ born' = born /\ fatal' = fatal
        /\ fatalOf' = [fatalOf EXCEPT ![u] = IF isFatal THEN messages' ELSE 0]
    BY <1>4 DEF Log, NewMessage, procVars
  <2>2. \A t \in Threads : fatalOf'[t] <= messages'
    BY <1>0, <2>1 DEF FatalInv
  <2>3. ASSUME NEW t \in flushed' PROVE fatalOf'[t] # 0 /\ OnDisk(fatalOf[t])'
    <3>1. t \in Threads /\ fatalOf'[t] = fatalOf[t]
      BY <1>0, <2>1 DEF FatalInv, TypeOK
    <3> QED BY <1>k, <2>1, <3>1
  <2>4. fatal' = 0
    BY <2>1 DEF FatalInv
  <2> QED BY <1>1, <1>2, <2>1, <2>2, <2>3, <2>4 DEF FatalInv, OnDisk
<1>5. ASSUME NEW u \in Threads, FatalFlush(u) PROVE FatalInv'
  <2>1. /\ Up /\ fatalOf[u] # 0 /\ flushed' = flushed \cup {u} /\ fatalOf' = fatalOf
        /\ born' = born /\ fatal' = fatal /\ messages' = messages /\ main' = main
    BY <1>5 DEF FatalFlush, procVars, histVars
  <2>2. Becomes(flush(disk, file))
    <3>1. "gFlush" \in bound
      BY <2>1 DEF FatalInv, BackendInv
    <3> QED BY <1>5, <3>1 DEF FatalFlush
  <2>3. OnDisk(fatalOf[u])'
    <3>1. PICK n \in Nat : n = fatalOf[u]
      BY <1>0
    <3>2. n <= messages
      BY <2>1, <3>1 DEF FatalInv
    <3>3. OnDisk(n)'
      BY <2>1, <2>2, <3>2, FlushedAll
    <3> QED BY <2>1, <3>1, <3>3 DEF OnDisk
  <2>4. \A t \in flushed' : fatalOf'[t] # 0 /\ OnDisk(fatalOf[t])'
    BY <1>k, <2>1, <2>3
  <2> QED BY <1>1, <1>2, <2>1, <2>4 DEF FatalInv, OnDisk
<1>6. ASSUME NEW u \in Threads, Abort(u) PROVE FatalInv'
  <2>1. main' = "aborted" /\ fatalOf' = fatalOf /\ flushed' = flushed /\ born' = born /\ messages' = messages
    BY <1>6 DEF Abort, loggers
  <2>2. \A t \in flushed' : fatalOf'[t] # 0 /\ OnDisk(fatalOf[t])'
    BY <1>k, <2>1
  <2> QED BY <1>1, <1>2, <2>1, <2>2 DEF FatalInv, OnDisk
<1>7. CASE Restart
  BY <1>1, <1>2, <1>7 DEF Restart, FatalInv
<1> QED BY <1>3, <1>4, <1>5, <1>6, <1>7, ProcessStep

\* The messages up to the fatal one, or all of them, are on the disk when the process
\* has ended.
EndedOnDisk ==
  /\ fatal # 0 => OnDisk(fatal)
  /\ main = "done" => OnDisk(messages)

\* A process that has ended left everything up to its fatal message on disk.
LEMMA EndedStep ==
  ASSUME TypeOK, BackendInv, FatalInv, [Next]_vars, Up => AllThere, EndedOnDisk
  PROVE  EndedOnDisk'
<1> USE LogFileAssumption
<1>0. messages \in Nat /\ born \in Nat /\ fatal \in Nat
  BY DEF TypeOK
<1>1. ASSUME born' = born, NEW n \in Nat, OnDisk(n) PROVE OnDisk(n)'
  BY <1>1, OnDiskStep
<1>2. CASE Restart
  BY <1>2 DEF Restart, EndedOnDisk
<1>3. ASSUME ~Restart, fatal' # 0 PROVE OnDisk(fatal)'
  <2>1. born' = born
    BY <1>3, MessageStep
  <2>2. CASE \E t \in Threads : Abort(t)
    <3>1. PICK t \in Threads : Abort(t)
      BY <2>2
    <3>2. fatal' = fatalOf[t] /\ fatalOf[t] \in Nat /\ OnDisk(fatalOf[t])
      BY <3>1 DEF Abort, FatalInv, OnDisk, TypeOK
    <3>3. PICK n \in Nat : n = fatalOf[t]
      BY <3>2
    <3> QED BY <1>1, <2>1, <3>2, <3>3 DEF OnDisk
  <2>3. CASE fatal' = fatal
    <3>1. PICK n \in Nat : n = fatal
      BY <1>0
    <3> QED BY <1>1, <1>3, <2>1, <2>3, <3>1 DEF OnDisk, EndedOnDisk
  <2>4. fatal' = fatal \/ \E t \in Threads : Abort(t)
    BY <1>3, ProcessStep DEF Log, FatalFlush, histVars
  <2> QED BY <2>2, <2>3, <2>4
<1>4. ASSUME ~Restart, main' = "done" PROVE OnDisk(messages)'
  <2>1. born' = born
    BY <1>4, MessageStep
  <2>2. main = "done" \/ Joined
    BY <1>4, ProcessStep DEF MainMoves, Constructed, Start, StartReturns, Destroy, MainStep,
                             Abort, FatalFlush, Log, procVars
  <2>3. bpc = "exit" /\ file.buffer_ = << >>
    BY <2>2 DEF BackendInv, Joined
  <2>4. messages' = messages
    <3>1. ASSUME NEW t \in Threads, NEW len \in Lengths, NEW isFatal \in BOOLEAN,
                 Log(t, len, isFatal)
          PROVE  FALSE
      BY <2>3, <3>1 DEF Log, BackendInv
    <3>2. \A t \in Threads : FatalFlush(t) \/ Abort(t) => messages' = messages
      BY DEF FatalFlush, Abort, histVars
    <3>3. MainMoves => messages' = messages
      BY DEF MainMoves, Constructed, Start, StartReturns, Destroy, Joined, MainStep, histVars
    <3>4. ~Backend
      BY <2>3 DEF Backend, BackStarts, BackOpens, BackSetsFlush, BackSetsOut, BackBinds,
                  BackReady, BackRound, BackWrites, BackFlushes, BackExits, BackStep
    <3>5. Spill \/ Tick \/ UNCHANGED vars => messages' = messages
      BY DEF Spill, Tick, vars, histVars
    <3> QED BY <1>4, <3>1, <3>2, <3>3, <3>4, <3>5 DEF Next, BackSpins, MainMoves
  <2>5. OnDisk(messages)
    <3>1. CASE main = "done"
      BY <3>1 DEF EndedOnDisk
    <3>2. CASE Joined
      <4>1. Up /\ disk \in Seq(Entry)
        BY <3>2 DEF Joined, MainStep, Up, TypeOK
      <4>2. All = disk
        BY <2>3, <4>1, ConcatEmptySeq DEF All
      <4> QED BY <4>1, <4>2 DEF AllThere, OnDisk
    <3> QED BY <2>2, <3>1, <3>2
  <2>6. PICK n \in Nat : n = messages
    BY <1>0
  <2> QED BY <1>1, <2>1, <2>4, <2>5, <2>6 DEF OnDisk
<1> QED BY <1>2, <1>3, <1>4 DEF EndedOnDisk

-----------------------------------------------------------------------------
(***************************************************************************)
(* Rolling.                                                                *)
(***************************************************************************)
Past(s, c) == \A k \in 1..Len(s) : s[k].file <= s[k].time /\ s[k].time <= c

\* Of the file: every message before the last one left it small enough.
Small(s, name) ==
  \A k \in 1..Len(s) : s[k].file = name /\ s[k].time > s[k].file => Fits(s, k)

\* Of all files.
SmallBefore(s) ==
  \A i, j \in 1..Len(s) :
    i < j /\ s[i].file = s[j].file /\ s[i].time > s[i].file => Fits(s, i)

\* Whether a message fits depends on those before it.
LEMMA FitsSame ==
  ASSUME NEW s, NEW u, NEW k \in Nat \ {0}, \A j \in 1..k : u[j] = s[j]
  PROVE  Fits(u, k) <=> Fits(s, k)
<1>1. u[k] = s[k] /\ \A j \in 1..(k - 1) : u[j] = s[j]
  OBVIOUS
<1> QED BY <1>1 DEF Fits

\* No file has more late entries than the appends between two looks at the clock.
FewLate(s) == \A name \in Nat : Cardinality(LateIn(name, s)) <= checkEveryN_

\* The fields of an entry.
LEMMA EntryFacts ==
  ASSUME NEW e \in Entry
  PROVE  /\ e.file \in Nat /\ e.file > 0 /\ e.time \in Nat /\ e.size \in Nat
         /\ e.run \in Nat
<1>1. /\ e.file \in 1..MaxTime /\ e.time \in 1..MaxTime /\ e.size \in Nat
      /\ e.run \in 1..MaxRuns
  BY DEF Entry
<1> QED BY <1>1, LogFileAssumption

\* The late entries of a file can be counted.
LEMMA LateFinite ==
  ASSUME NEW s \in Seq(Entry), NEW name
  PROVE  IsFiniteSet(LateIn(name, s)) /\ Cardinality(LateIn(name, s)) \in Nat
<1>1. Len(s) \in Nat /\ IsFiniteSet(1..Len(s))
  BY FS_Interval
<1>2. LateIn(name, s) \subseteq 1..Len(s)
  BY DEF LateIn
<1> QED BY <1>1, <1>2, FS_Subset, FS_CardinalityType

\* Less of the messages cannot break what holds of them.
LEMMA RollPrefix ==
  ASSUME NEW s \in Seq(Entry), NEW t \in Seq(Entry)
  PROVE  /\ \A c : Past(s \o t, c) => Past(s, c)
         /\ \A name : Small(s \o t, name) => Small(s, name)
         /\ SmallBefore(s \o t) => SmallBefore(s)
         /\ \A name : Cardinality(LateIn(name, s)) <= Cardinality(LateIn(name, s \o t))
         /\ FewLate(s \o t) => FewLate(s)
<1>1. \A k \in 1..Len(s) : k \in 1..Len(s \o t) /\ (s \o t)[k] = s[k]
  OBVIOUS
<1>2. s \o t \in Seq(Entry)
  OBVIOUS
<1>3. \A c : Past(s \o t, c) => Past(s, c)
  BY <1>1 DEF Past
<1>f. ASSUME NEW k \in 1..Len(s) PROVE Fits(s \o t, k) <=> Fits(s, k)
  <2>1. PICK u : u = s \o t
    OBVIOUS
  <2>2. k \in Nat \ {0} /\ \A j \in 1..k : u[j] = s[j]
    BY <1>1, <2>1
  <2> QED BY <2>1, <2>2, FitsSame
<1>4. \A name : Small(s \o t, name) => Small(s, name)
  BY <1>1, <1>f DEF Small
<1>5. SmallBefore(s \o t) => SmallBefore(s)
  BY <1>1, <1>f DEF SmallBefore
<1>6. ASSUME NEW name
      PROVE  Cardinality(LateIn(name, s)) <= Cardinality(LateIn(name, s \o t))
  <2>1. LateIn(name, s) \subseteq LateIn(name, s \o t)
    BY <1>1 DEF LateIn
  <2> QED BY <1>2, <2>1, LateFinite, FS_Subset
<1>7. FewLate(s \o t) => FewLate(s)
  <2>1. ASSUME FewLate(s \o t), NEW name \in Nat
        PROVE  Cardinality(LateIn(name, s)) <= checkEveryN_
    <3>1. Cardinality(LateIn(name, s)) <= Cardinality(LateIn(name, s \o t))
      BY <1>6
    <3>2. Cardinality(LateIn(name, s \o t)) <= checkEveryN_
      BY <2>1 DEF FewLate
    <3>3. Cardinality(LateIn(name, s)) \in Nat /\ Cardinality(LateIn(name, s \o t)) \in Nat
      BY <1>2, LateFinite
    <3> QED BY <3>1, <3>2, <3>3, LogFileAssumption
  <2> QED BY <2>1 DEF FewLate
<1> QED BY <1>3, <1>4, <1>5, <1>6, <1>7

\* As long as it is the day of a file, or its second, nothing in it is late.
LEMMA NoneLate ==
  ASSUME NEW s \in Seq(Entry), NEW c \in Nat, Past(s, c), NEW name \in Nat,
         c <= name \/ Period(c) = Period(name)
  PROVE  LateIn(name, s) = {} /\ Cardinality(LateIn(name, s)) = 0
<1>1. ASSUME NEW k \in 1..Len(s), s[k].file = name PROVE ~Late(s[k])
  <2>1. s[k].file \in Nat /\ s[k].time \in Nat
    <3>1. s[k] \in Entry
      OBVIOUS
    <3> QED BY <3>1, EntryFacts
  <2>2. name <= s[k].time /\ s[k].time <= c
    BY <1>1 DEF Past
  <2>3. CASE c <= name
    <3>1. s[k].time = name
      BY <2>1, <2>2, <2>3
    <3> QED BY <1>1, <3>1 DEF Late
  <2>4. CASE Period(c) = Period(name)
    <3>1. Period(name) <= Period(s[k].time) /\ Period(s[k].time) <= Period(c)
      BY <2>1, <2>2, PeriodFacts
    <3>2. Period(name) \in Nat /\ Period(s[k].time) \in Nat
      BY <2>1, PeriodFacts
    <3> QED BY <1>1, <2>4, <3>1, <3>2 DEF Late
  <2> QED BY <2>3, <2>4
<1>2. LateIn(name, s) = {}
  BY <1>1 DEF LateIn
<1> QED BY <1>2, FS_EmptySet

\* One message more.
LEMMA RollAppend ==
  ASSUME NEW s \in Seq(Entry), NEW e \in Entry
  PROVE  /\ \A c : Past(s, c) /\ e.file <= e.time /\ e.time <= c => Past(Append(s, e), c)
         /\ \A name : Small(s, name) /\ (e.time > e.file => Fits(Append(s, e), Len(s) + 1))
                        => Small(Append(s, e), name)
         /\ SmallBefore(s) /\ Small(s, e.file) => SmallBefore(Append(s, e))
         /\ \A name : name # e.file => LateIn(name, Append(s, e)) = LateIn(name, s)
         /\ \A name : Cardinality(LateIn(name, Append(s, e)))
                        <= Cardinality(LateIn(name, s)) + 1
<1>1. /\ Len(Append(s, e)) = Len(s) + 1 /\ Len(s) \in Nat
      /\ \A k \in 1..Len(s) : Append(s, e)[k] = s[k]
      /\ Append(s, e)[Len(s) + 1] = e
  OBVIOUS
<1> DEFINE u == Append(s, e)
<1>2. u \in Seq(Entry)
  OBVIOUS
<1> HIDE DEF u
<1>3. \A k \in 1..(Len(s) + 1) :
        (k \in 1..Len(s) /\ u[k] = s[k]) \/ (k = Len(s) + 1 /\ u[k] = e)
  BY <1>1 DEF u
<1>4. Len(u) = Len(s) + 1
  BY <1>1 DEF u
<1>5. \A c : Past(s, c) /\ e.file <= e.time /\ e.time <= c => Past(u, c)
  BY <1>3, <1>4 DEF Past
<1>f. ASSUME NEW k \in 1..Len(s) PROVE Fits(u, k) <=> Fits(s, k)
  <2>1. k \in Nat \ {0} /\ \A j \in 1..k : u[j] = s[j]
    BY <1>1 DEF u
  <2> QED BY <2>1, FitsSame
<1>6. \A name : Small(s, name) /\ (e.time > e.file => Fits(u, Len(s) + 1)) => Small(u, name)
  BY <1>3, <1>4, <1>f DEF Small
<1>7. ASSUME SmallBefore(s), Small(s, e.file) PROVE SmallBefore(u)
  <2>1. ASSUME NEW i \in 1..(Len(s) + 1), NEW j \in 1..(Len(s) + 1),
               i < j, u[i].file = u[j].file, u[i].time > u[i].file
        PROVE  Fits(u, i)
    <3>1. i \in 1..Len(s) /\ u[i] = s[i]
      BY <1>1, <1>3, <2>1
    <3>2. CASE j \in 1..Len(s) /\ u[j] = s[j]
      BY <1>7, <1>f, <2>1, <3>1, <3>2 DEF SmallBefore
    <3>3. CASE u[j] = e
      BY <1>7, <1>f, <2>1, <3>1, <3>3 DEF Small
    <3> QED BY <1>3, <3>2, <3>3
  <2> QED BY <1>4, <2>1 DEF SmallBefore
<1>8. ASSUME NEW name PROVE LateIn(name, u) \subseteq LateIn(name, s) \cup {Len(s) + 1}
  BY <1>3, <1>4 DEF LateIn
<1>9. ASSUME NEW name, name # e.file PROVE LateIn(name, u) = LateIn(name, s)
  <2>1. LateIn(name, u) \subseteq LateIn(name, s)
    BY <1>3, <1>4, <1>9 DEF LateIn
  <2>2. LateIn(name, s) \subseteq LateIn(name, u)
    <3>1. \A k \in 1..Len(s) : k \in 1..Len(u) /\ u[k] = s[k]
      BY <1>1 DEF u
    <3> QED BY <3>1 DEF LateIn
  <2> QED BY <2>1, <2>2
<1>10. ASSUME NEW name PROVE Cardinality(LateIn(name, u)) <= Cardinality(LateIn(name, s)) + 1
  <2> DEFINE L == LateIn(name, s)
             M == L \cup {Len(s) + 1}
  <2>1. IsFiniteSet(L) /\ Cardinality(L) \in Nat
    BY LateFinite
  <2>2. IsFiniteSet(M) /\ Cardinality(M) \in Nat /\ Cardinality(M) <= Cardinality(L) + 1
    <3> HIDE DEF L
    <3>1. IsFiniteSet(L \cup {Len(s) + 1})
      BY <2>1, FS_AddElement
    <3>2. Cardinality(L \cup {Len(s) + 1})
            = IF Len(s) + 1 \in L THEN Cardinality(L) ELSE Cardinality(L) + 1
      BY <2>1, FS_AddElement
    <3> QED BY <2>1, <3>1, <3>2
  <2>3. Cardinality(LateIn(name, u)) \in Nat /\ Cardinality(LateIn(name, u)) <= Cardinality(M)
    BY <1>2, <1>8, <2>2, LateFinite, FS_Subset
  <2> QED BY <2>1, <2>2, <2>3
<1> QED BY <1>5, <1>6, <1>7, <1>9, <1>10 DEF u

\* RollInv and Rolling, of messages s, a logFile f and the time c.
RollOK(s, f, c) ==
  /\ f.lastRoll_ <= c /\ Past(s, c)
  /\ f.lastRoll_ > 0 =>
       /\ f.startOfPeriod_ = Period(f.lastRoll_) /\ Small(s, f.lastRoll_)
       /\ Cardinality(LateIn(f.lastRoll_, s)) <= f.count_
  /\ SmallBefore(s) /\ FewLate(s)

\* The fields of a file.
LEMMA FileFacts ==
  ASSUME NEW f \in LogFileType
  PROVE  /\ f.lastRoll_ \in Nat /\ f.count_ \in Nat /\ f.count_ < checkEveryN_
         /\ f.writtenBytes_ \in Nat
<1>1. f.lastRoll_ \in 0..MaxTime /\ f.count_ \in 0..(checkEveryN_ - 1) /\ f.writtenBytes_ \in Nat
  BY DEF LogFileType
<1> QED BY <1>1, LogFileAssumption

\* The logFile goes on with its file, and time with it; messages may be lost.
LEMMA RollSame ==
  ASSUME NEW s \in Seq(Entry), NEW t \in Seq(Entry), NEW f \in LogFileType, NEW c \in Nat,
         RollOK(s \o t, f, c), NEW g \in LogFileType, NEW d \in Nat, c <= d,
         g.lastRoll_ = f.lastRoll_, g.startOfPeriod_ = f.startOfPeriod_, g.count_ = f.count_
  PROVE  RollOK(s, g, d)
<1>0. s \o t \in Seq(Entry)
  OBVIOUS
<1>1. Past(s, c) /\ SmallBefore(s) /\ FewLate(s)
  BY RollPrefix DEF RollOK
<1>2. Past(s, d)
  <2>1. \A k \in 1..Len(s) : s[k] \in Entry
    OBVIOUS
  <2>2. \A k \in 1..Len(s) : s[k].time \in Nat
    BY <2>1, EntryFacts
  <2> QED BY <1>1, <2>2 DEF Past
<1>3. g.lastRoll_ <= d
  BY FileFacts DEF RollOK
<1>4. ASSUME g.lastRoll_ > 0
      PROVE  /\ g.startOfPeriod_ = Period(g.lastRoll_) /\ Small(s, g.lastRoll_)
             /\ Cardinality(LateIn(g.lastRoll_, s)) <= g.count_
  <2>1. Small(s, g.lastRoll_)
    BY <1>4, RollPrefix DEF RollOK
  <2>2. /\ Cardinality(LateIn(f.lastRoll_, s)) <= Cardinality(LateIn(f.lastRoll_, s \o t))
        /\ Cardinality(LateIn(f.lastRoll_, s \o t)) <= f.count_
    BY <1>4, RollPrefix DEF RollOK
  <2>3. /\ Cardinality(LateIn(f.lastRoll_, s)) \in Nat
        /\ Cardinality(LateIn(f.lastRoll_, s \o t)) \in Nat /\ f.count_ \in Nat
    BY <1>0, LateFinite, FileFacts
  <2> QED BY <1>4, <2>1, <2>2, <2>3 DEF RollOK
<1> QED BY <1>1, <1>2, <1>3, <1>4 DEF RollOK

\* The logFile has a new file, with the second as its name.
LEMMA RollNew ==
  ASSUME NEW s \in Seq(Entry), NEW c \in Nat, Past(s, c), SmallBefore(s), FewLate(s),
         NEW g \in LogFileType, g.lastRoll_ = c, g.startOfPeriod_ = Period(c)
  PROVE  RollOK(s, g, c)
<1>1. Small(s, c)
  <2>1. ASSUME NEW k \in 1..Len(s), s[k].file = c, s[k].time > s[k].file PROVE FALSE
    <3>1. s[k] \in Entry
      OBVIOUS
    <3>2. s[k].time \in Nat
      BY <3>1, EntryFacts
    <3> QED BY <2>1, <3>2 DEF Past
  <2> QED BY <2>1 DEF Small
<1>2. Cardinality(LateIn(c, s)) = 0 /\ g.count_ \in Nat
  BY NoneLate, FileFacts
<1> QED BY <1>1, <1>2 DEF RollOK

\* The messages a file has are within bounds before and after one more.
LEMMA RollMore ==
  ASSUME NEW s \in Seq(Entry), NEW f \in LogFileType, NEW c \in Nat, RollOK(s, f, c),
         f.lastRoll_ > 0, NEW e \in Entry, e.file = f.lastRoll_, e.time = c
  PROVE  Past(Append(s, e), c) /\ SmallBefore(Append(s, e)) /\ FewLate(Append(s, e))
<1>0. Append(s, e) \in Seq(Entry) /\ f.lastRoll_ \in Nat /\ f.count_ \in Nat /\ f.count_ < checkEveryN_
  BY FileFacts
<1>1. Past(Append(s, e), c)
  BY RollAppend DEF RollOK
<1>2. SmallBefore(Append(s, e))
  BY RollAppend DEF RollOK
<1>3. ASSUME NEW name \in Nat
      PROVE  Cardinality(LateIn(name, Append(s, e))) <= checkEveryN_
  <2>1. CASE name # e.file
    BY <2>1, RollAppend DEF RollOK, FewLate
  <2>2. CASE name = e.file
    <3>1. Cardinality(LateIn(name, Append(s, e))) <= Cardinality(LateIn(name, s)) + 1
      BY RollAppend
    <3>2. Cardinality(LateIn(name, s)) <= f.count_
      BY <2>2 DEF RollOK
    <3>3. Cardinality(LateIn(name, Append(s, e))) \in Nat /\ Cardinality(LateIn(name, s)) \in Nat
      BY <1>0, LateFinite
    <3> QED BY <1>0, <3>1, <3>2, <3>3, LogFileAssumption
  <2> QED BY <2>1, <2>2
<1> QED BY <1>1, <1>2, <1>3 DEF FewLate

\* The logFile keeps its file after a message, e, or after an empty buffer: it is not too
\* large, and its count_ covers what is late in it.
LEMMA RollKeep ==
  ASSUME NEW s \in Seq(Entry), NEW f \in LogFileType, NEW c \in Nat, RollOK(s, f, c),
         f.lastRoll_ > 0, NEW u \in Seq(Entry), Past(u, c), SmallBefore(u), FewLate(u),
         Small(u, f.lastRoll_),
         Cardinality(LateIn(f.lastRoll_, u)) <= Cardinality(LateIn(f.lastRoll_, s)) + 1,
         NEW g \in LogFileType, g.lastRoll_ = f.lastRoll_, g.startOfPeriod_ = f.startOfPeriod_,
         g.count_ = f.count_ + 1 \/ c <= f.lastRoll_ \/ Period(c) = f.startOfPeriod_
  PROVE  RollOK(u, g, c)
<1>0. /\ f.lastRoll_ \in Nat /\ f.count_ \in Nat /\ g.count_ \in Nat
      /\ Cardinality(LateIn(f.lastRoll_, u)) \in Nat /\ Cardinality(LateIn(f.lastRoll_, s)) \in Nat
  BY FileFacts, LateFinite
<1>1. f.startOfPeriod_ = Period(f.lastRoll_) /\ f.lastRoll_ <= c
      /\ Cardinality(LateIn(f.lastRoll_, s)) <= f.count_
  BY DEF RollOK
<1>2. Cardinality(LateIn(f.lastRoll_, u)) <= g.count_
  <2>1. CASE g.count_ = f.count_ + 1
    BY <1>0, <1>1, <2>1
  <2>2. CASE c <= f.lastRoll_ \/ Period(c) = f.startOfPeriod_
    <3>1. Cardinality(LateIn(f.lastRoll_, u)) = 0
      BY <1>0, <1>1, <2>2, NoneLate
    <3> QED BY <1>0, <3>1
  <2> QED BY <2>1, <2>2
<1> QED BY <1>1, <1>2 DEF RollOK

\* A message that writtenBytes_ does not count as too many fits.
LEMMA CountedFits ==
  ASSUME NEW s \in Seq(Entry), NEW e \in Entry, NEW b \in Nat, NEW len \in Nat, NEW r,
         e.size = SizeOf(s, e.file) + len, e.run = r, b + len <= rollSize_,
         \/ SizeOf(s, e.file) = b
         \/ \E k \in 1..Len(s) : /\ s[k].file = e.file /\ s[k].run < r
                                 /\ SizeOf(s, e.file) = s[k].size + b
  PROVE  Fits(Append(s, e), Len(s) + 1)
<1>1. PICK u : u = Append(s, e)
  OBVIOUS
<1>2. PICK n \in Nat : n = Len(s)
  OBVIOUS
<1>3. u[n + 1] = e /\ (\A k \in 1..n : u[k] = s[k]) /\ 1..((n + 1) - 1) = 1..n
  BY <1>1, <1>2
<1>4. CASE SizeOf(s, e.file) = b
  BY <1>1, <1>2, <1>3, <1>4 DEF Fits
<1>5. ASSUME NEW k \in 1..Len(s), s[k].file = e.file, s[k].run < r,
             SizeOf(s, e.file) = s[k].size + b
      PROVE  Fits(u, n + 1)
  <2>1. s[k] \in Entry
    OBVIOUS
  <2>2. s[k].size \in Nat /\ rollSize_ \in Nat
    BY <2>1, LogFileAssumption DEF Entry
  <2>3. e.size <= rollSize_ + s[k].size
    BY <1>5, <2>2
  <2>4. k \in 1..((n + 1) - 1) /\ u[k] = s[k]
    BY <1>2, <1>3
  <2> QED BY <1>3, <1>5, <2>3, <2>4 DEF Fits
<1> QED BY <1>1, <1>2, <1>4, <1>5

\* append, whether or not it rolls the file.
LEMMA AppendRolls ==
  ASSUME TypeOK, file.lastRoll_ > 0, NEW len \in Nat, len > 0 => messages < MaxMessages,
         Becomes(append(disk, file, len)), RollOK(All, file, clock), SizeInv, Up
  PROVE  RollOK(All', file', clock)
<1> USE LogFileAssumption
<1>0. /\ All \in Seq(Entry) /\ file \in LogFileType /\ clock \in Nat
      /\ file.lastRoll_ \in Nat /\ file.writtenBytes_ \in Nat
  BY FileFacts DEF TypeOK, All, LogFileType
<1>1. FileOK' /\ All' \in Seq(Entry)
  <2>1. FileOK'
    BY AppendStep
  <2> QED BY <2>1 DEF FileOK, All, LogFileType
<1> DEFINE r == append(disk, file, len)
           w == Written(len)
<1>2. Checked(r, disk, w)
  BY AppendFacts
<1>3. /\ w.lastRoll_ = file.lastRoll_ /\ w.count_ = file.count_
      /\ w.startOfPeriod_ = file.startOfPeriod_ /\ w.writtenBytes_ = file.writtenBytes_ + len
  BY AppendFacts
<1>4. file' = r.file
  BY DEF Becomes
<1> HIDE DEF r, w
<1>5. \/ file'.lastRoll_ = clock /\ file'.startOfPeriod_ = Period(clock)
      \/ /\ file'.lastRoll_ = file.lastRoll_ /\ file'.startOfPeriod_ = file.startOfPeriod_
         /\ file.writtenBytes_ + len <= rollSize_ \/ clock <= file.lastRoll_
         /\ \/ file'.count_ = file.count_ + 1
            \/ clock <= file.lastRoll_ \/ Period(clock) = file.startOfPeriod_
  BY <1>2, <1>3, <1>4 DEF Checked, DayOver
<1>6. /\ Past(All', clock) /\ SmallBefore(All') /\ FewLate(All')
      /\ \/ clock > file.lastRoll_ /\ file.writtenBytes_ + len > rollSize_
         \/ Small(All', file.lastRoll_)
      /\ Cardinality(LateIn(file.lastRoll_, All')) <= Cardinality(LateIn(file.lastRoll_, All)) + 1
  <2>1. CASE len = 0
    <3>1. All' = All
      BY <2>1, AppendStep
    <3>2. Cardinality(LateIn(file.lastRoll_, All)) \in Nat
      BY <1>0, LateFinite
    <3> QED BY <3>1, <3>2 DEF RollOK
  <2>2. CASE len > 0
    <3>1. NewEntry(len) \in Entry /\ All' = Append(All, NewEntry(len))
      BY <2>2, AppendStep
    <3>2. /\ NewEntry(len).file = file.lastRoll_ /\ NewEntry(len).time = clock
          /\ NewEntry(len).run = runs
          /\ NewEntry(len).size = SizeOf(All, file.lastRoll_) + len
      BY DEF NewEntry, All
    <3>3. PICK e \in Entry : e = NewEntry(len)
      BY <3>1
    <3>4. PICK s \in Seq(Entry) : s = All
      BY <1>0
    <3>5. /\ e.file = file.lastRoll_ /\ e.time = clock /\ e.run = runs
          /\ e.size = SizeOf(s, file.lastRoll_) + len
      BY <3>2, <3>3, <3>4
    <3>6. All' = Append(s, e)
      BY <3>1, <3>3, <3>4
    <3>7. PICK f \in LogFileType, c \in Nat : f = file /\ c = clock
      BY <1>0
    <3>8. Past(Append(s, e), c) /\ SmallBefore(Append(s, e)) /\ FewLate(Append(s, e))
      BY <3>4, <3>5, <3>7, RollMore
    <3>9. Cardinality(LateIn(f.lastRoll_, Append(s, e))) <= Cardinality(LateIn(f.lastRoll_, s)) + 1
      BY RollAppend
    <3>10. (e.time > e.file => Fits(Append(s, e), Len(s) + 1)) => Small(Append(s, e), f.lastRoll_)
      BY <3>4, <3>7, RollAppend DEF RollOK
    <3>11. file.writtenBytes_ + len <= rollSize_ => Fits(Append(s, e), Len(s) + 1)
      BY <1>0, <3>4, <3>5, CountedFits DEF SizeInv
    <3> QED BY <1>0, <3>4, <3>5, <3>6, <3>7, <3>8, <3>9, <3>10, <3>11
  <2> QED BY <2>1, <2>2
<1>7. PICK g \in LogFileType, u \in Seq(Entry) : g = file' /\ u = All'
  BY <1>1 DEF FileOK
<1>8. CASE g.lastRoll_ = clock /\ g.startOfPeriod_ = Period(clock)
  BY <1>0, <1>6, <1>7, <1>8, RollNew
<1>9. CASE /\ g.lastRoll_ = file.lastRoll_ /\ g.startOfPeriod_ = file.startOfPeriod_
           /\ file.writtenBytes_ + len <= rollSize_ \/ clock <= file.lastRoll_
           /\ \/ g.count_ = file.count_ + 1
              \/ clock <= file.lastRoll_ \/ Period(clock) = file.startOfPeriod_
  <2>1. Small(u, file.lastRoll_)
    BY <1>0, <1>6, <1>7, <1>9
  <2> QED BY <1>0, <1>6, <1>7, <1>9, <2>1, RollKeep
<1> QED BY <1>5, <1>7, <1>8, <1>9

\* Every step keeps the invariant of rolling.
LEMMA RollStep ==
  ASSUME TypeOK, BackendInv, FatalInv, RollOK(All, file, clock), SizeInv, [Next]_vars
  PROVE  RollOK(All', file', clock')
<1> USE LogFileAssumption
<1>0. /\ disk \in Seq(Entry) /\ file.buffer_ \in Seq(Entry) /\ All \in Seq(Entry)
      /\ file \in LogFileType /\ clock \in Nat /\ file.lastRoll_ \in Nat
  BY FileFacts DEF TypeOK, All, LogFileType
<1>t. TypeOK'
  BY TypeStep
<1>f. file' \in LogFileType /\ clock' \in Nat
  BY <1>t DEF TypeOK
<1>a. ASSUME All' = All \/ All' = disk, clock <= clock', file'.lastRoll_ = file.lastRoll_,
             file'.startOfPeriod_ = file.startOfPeriod_, file'.count_ = file.count_
      PROVE  RollOK(All', file', clock')
  <2>1. PICK g \in LogFileType, d \in Nat : g = file' /\ d = clock'
    BY <1>f
  <2>2. << >> \in Seq(Entry) /\ All \o << >> = All
    BY <1>0, ConcatEmptySeq
  <2>3. RollOK(All, g, d)
    BY <1>0, <1>a, <2>1, <2>2, RollSame
  <2>4. RollOK(disk, g, d)
    BY <1>0, <1>a, <2>1, RollSame DEF All
  <2> QED BY <1>a, <2>1, <2>3, <2>4
<1>1. ASSUME NEW t \in Threads, NEW len \in Lengths, NEW isFatal \in BOOLEAN,
             Log(t, len, isFatal)
      PROVE  RollOK(All', file', clock')
  <2>1. len \in Nat /\ messages < MaxMessages /\ clock' = clock
    BY <1>1 DEF Log, NewMessage
  <2>2. Becomes(append(disk, file, len)) /\ file.lastRoll_ > 0 /\ Up
    BY <1>1, LoggedToFile DEF Log, Up
  <2> QED BY <2>1, <2>2, AppendRolls
<1>2. ASSUME NEW t \in Threads, FatalFlush(t) PROVE RollOK(All', file', clock')
  <2>1. clock' = clock
    BY <1>2 DEF FatalFlush
  <2>2. CASE Becomes(flush(disk, file))
    BY <1>0, <1>a, <2>1, <2>2, FlushStep
  <2>3. CASE UNCHANGED logVars
    BY <1>0, <1>a, <2>1, <2>3 DEF logVars, All
  <2> QED BY <1>2, <2>2, <2>3 DEF FatalFlush
<1>3. ASSUME NEW t \in Threads, Abort(t) PROVE RollOK(All', file', clock')
  <2>1. /\ disk' = disk /\ clock' = clock /\ file'.buffer_ = << >>
        /\ file'.lastRoll_ = file.lastRoll_ /\ file'.count_ = file.count_
        /\ file'.startOfPeriod_ = file.startOfPeriod_
    BY <1>0, <1>3 DEF Abort, LogFileType
  <2>2. All' = disk
    BY <1>0, <2>1, ConcatEmptySeq DEF All
  <2> QED BY <1>0, <1>a, <2>1, <2>2
<1>4. CASE MainMoves \/ BackStarts \/ BackReady \/ BackRound \/ BackSetsFlush \/ BackSetsOut
  <2>1. UNCHANGED <<logVars, clock>>
    BY <1>4 DEF MainMoves, Constructed, Start, StartReturns, Destroy, Joined, MainStep, BackStarts,
                BackReady, BackRound, BackSetsFlush, BackSetsOut, BackBinds, BackStep
  <2> QED BY <1>0, <1>a, <2>1 DEF logVars, All
<1>5. CASE BackOpens
  <2>1. file = NoFile /\ clock' = clock
    BY <1>5 DEF BackOpens, BackStep, BackendInv
  <2>2. All' = All /\ file'.lastRoll_ = clock /\ file'.startOfPeriod_ = Period(clock)
    BY <1>5, <2>1, OpenStep DEF BackOpens
  <2>3. PICK g \in LogFileType : g = file'
    BY <1>f
  <2>4. RollOK(All, g, clock)
    BY <1>0, <2>2, <2>3, RollNew DEF RollOK
  <2> QED BY <2>1, <2>2, <2>3, <2>4
<1>6. CASE BackWrites
  <2>1. PICK len \in Lengths \cup {0} :
          /\ IF len = 0 THEN UNCHANGED messages ELSE NewMessage
          /\ Becomes(append(disk, file, len))
    BY <1>6 DEF BackWrites
  <2>2. len \in Nat /\ file.lastRoll_ > 0 /\ (len > 0 => messages < MaxMessages)
    <3>1. len \in Nat /\ (len > 0 => messages < MaxMessages)
      BY <2>1 DEF NewMessage
    <3>2. bpc = "write"
      BY <1>6 DEF BackWrites, BackStep
    <3>3. file.lastRoll_ > 0
      BY <3>2 DEF BackendInv
    <3> QED BY <3>1, <3>3
  <2>3. clock' = clock /\ Up
    BY <1>6 DEF BackWrites, BackStep
  <2> QED BY <2>1, <2>2, <2>3, AppendRolls
<1>7. CASE BackFlushes \/ BackExits \/ Spill
  <2>1. Becomes(flush(disk, file)) /\ clock' = clock
    BY <1>7 DEF BackFlushes, BackExits, BackStep, Spill
  <2> QED BY <1>0, <1>a, <2>1, FlushStep
<1>8. CASE Tick
  <2>1. clock <= clock' /\ UNCHANGED logVars
    BY <1>0, <1>8 DEF Tick
  <2> QED BY <1>a, <2>1 DEF logVars, All
<1>9. CASE Restart
  <2>1. disk' = disk /\ clock' = clock /\ file'.buffer_ = << >> /\ file'.lastRoll_ = 0
    BY <1>9 DEF Restart, NoFile
  <2>2. All' = disk
    BY <1>0, <2>1, ConcatEmptySeq DEF All
  <2>3. Past(disk, clock) /\ SmallBefore(disk) /\ FewLate(disk)
    BY <1>0, RollPrefix DEF RollOK, All
  <2> QED BY <1>0, <2>1, <2>2, <2>3 DEF RollOK
<1>10. CASE UNCHANGED vars
  BY <1>0, <1>a, <1>10 DEF vars, logVars, All
<1> QED BY <1>1, <1>2, <1>3, <1>4, <1>5, <1>6, <1>7, <1>8, <1>9, <1>10
        DEF Next, Backend, BackSpins, MainMoves

-----------------------------------------------------------------------------
(***************************************************************************)
(* The size of the file and writtenBytes_.                                 *)
(***************************************************************************)

\* SizeInv of messages s and a logFile f, of process r.
Runs(s, f, r) ==
  \A k \in 1..Len(s) : /\ s[k].run <= r
                       /\ f.lastRoll_ = 0 => s[k].run < r
                       /\ f.lastRoll_ > 0 => s[k].file <= f.lastRoll_

Counted(s, name, b, r) ==
  \/ SizeOf(s, name) = b
  \/ \E k \in 1..Len(s) : /\ s[k].file = name /\ s[k].run < r
                          /\ SizeOf(s, name) = s[k].size + b

LEMMA SizeParts ==
  SizeInv <=> /\ Runs(All, file, runs)
              /\ Up /\ file.lastRoll_ > 0 => Counted(All, file.lastRoll_, file.writtenBytes_, runs)
BY DEF SizeInv, Runs, Counted

\* append: the message makes the file larger by its length, and a new file is empty.
LEMMA AppendCounts ==
  ASSUME TypeOK, file.lastRoll_ > 0, NEW len \in Nat, len > 0 => messages < MaxMessages,
         Becomes(append(disk, file, len)), SizeInv, Up
  PROVE  Runs(All', file', runs) /\ Counted(All', file'.lastRoll_, file'.writtenBytes_, runs)
<1> USE LogFileAssumption
<1>0. /\ All \in Seq(Entry) /\ file \in LogFileType /\ clock \in Nat /\ runs \in Nat
      /\ file.lastRoll_ \in Nat /\ file.writtenBytes_ \in Nat
  BY FileFacts DEF TypeOK, All, LogFileType
<1>1. PICK s \in Seq(Entry), f \in LogFileType : s = All /\ f = file
  BY <1>0
<1>2. /\ Runs(s, f, runs) /\ Counted(s, f.lastRoll_, f.writtenBytes_, runs)
      /\ f.lastRoll_ \in Nat /\ f.lastRoll_ > 0 /\ f.writtenBytes_ \in Nat
  BY <1>0, <1>1, SizeParts
<1> DEFINE r == append(disk, file, len)
           w == Written(len)
<1>3. Checked(r, disk, w)
  BY AppendFacts
<1>4. w.lastRoll_ = f.lastRoll_ /\ w.writtenBytes_ = f.writtenBytes_ + len
  BY <1>1, AppendFacts
<1>5. file' = r.file
  BY DEF Becomes
<1> HIDE DEF r, w
<1>6. \/ clock > f.lastRoll_ /\ file'.lastRoll_ = clock /\ file'.writtenBytes_ = 0
      \/ file'.lastRoll_ = f.lastRoll_ /\ file'.writtenBytes_ = f.writtenBytes_ + len
  BY <1>3, <1>4, <1>5 DEF Checked
<1>7. PICK u, g : u = All' /\ g = file'
  OBVIOUS
<1>8. /\ \A k \in 1..Len(u) : u[k].run <= runs /\ u[k].file <= f.lastRoll_
      /\ Counted(u, f.lastRoll_, f.writtenBytes_ + len, runs)
  <2>1. CASE len = 0
    <3>1. u = s
      BY <1>1, <1>7, <2>1, AppendStep
    <3>2. f.writtenBytes_ + len = f.writtenBytes_
      BY <1>2, <2>1
    <3> QED BY <1>2, <3>1, <3>2 DEF Runs
  <2>2. CASE len > 0
    <3>1. NewEntry(len) \in Entry /\ All' = Append(All, NewEntry(len))
      BY <2>2, AppendStep
    <3>2. PICK e \in Entry : e = NewEntry(len)
      BY <3>1
    <3>3. u = Append(s, e)
      BY <1>1, <1>7, <3>1, <3>2
    <3>4. e.file = f.lastRoll_ /\ e.run = runs /\ e.size = SizeOf(s, f.lastRoll_) + len
      BY <1>1, <3>2 DEF NewEntry, All
    <3>5. /\ Len(u) = Len(s) + 1 /\ Len(s) \in Nat
          /\ \A k \in 1..Len(u) : (k \in 1..Len(s) /\ u[k] = s[k]) \/ u[k] = e
          /\ \A k \in 1..Len(s) : k \in 1..Len(u) /\ u[k] = s[k]
      BY <3>3
    <3>6. \A k \in 1..Len(u) : u[k].run <= runs /\ u[k].file <= f.lastRoll_
      BY <1>0, <1>2, <3>4, <3>5 DEF Runs
    <3>7. SizeOf(u, f.lastRoll_) = SizeOf(s, f.lastRoll_) + len
      BY <3>3, <3>4, SizeAppend
    <3>8. CASE SizeOf(s, f.lastRoll_) = f.writtenBytes_
      BY <3>6, <3>7, <3>8 DEF Counted
    <3>9. ASSUME NEW k \in 1..Len(s), s[k].file = f.lastRoll_, s[k].run < runs,
                 SizeOf(s, f.lastRoll_) = s[k].size + f.writtenBytes_
          PROVE  Counted(u, f.lastRoll_, f.writtenBytes_ + len, runs)
      <4>1. s[k] \in Entry
        OBVIOUS
      <4>2. s[k].size \in Nat
        BY <4>1, EntryFacts
      <4>3. SizeOf(u, f.lastRoll_) = s[k].size + (f.writtenBytes_ + len)
        BY <1>2, <3>7, <3>9, <4>2
      <4> QED BY <3>5, <3>9, <4>3 DEF Counted
    <3> QED BY <1>2, <3>6, <3>8, <3>9 DEF Counted
  <2> QED BY <2>1, <2>2
<1>u. u \in Seq(Entry)
  <2>1. FileOK'
    BY AppendStep
  <2> QED BY <1>7, <2>1 DEF FileOK, All, LogFileType
<1>v. \A k \in 1..Len(u) : u[k].file \in Nat
  <2>1. \A k \in 1..Len(u) : u[k] \in Entry
    BY <1>u
  <2> QED BY <2>1, EntryFacts
<1>9. CASE clock > f.lastRoll_ /\ g.lastRoll_ = clock /\ g.writtenBytes_ = 0
  <2>1. \A k \in 1..Len(u) : u[k].file < clock
    BY <1>0, <1>2, <1>8, <1>9, <1>v
  <2>2. Of(u, clock) = {}
    BY <1>0, <1>v, <2>1 DEF Of
  <2>3. SizeOf(u, clock) = 0
    BY <2>2 DEF SizeOf
  <2>4. Counted(u, g.lastRoll_, g.writtenBytes_, runs)
    BY <1>9, <2>3 DEF Counted
  <2>5. Runs(u, g, runs)
    BY <1>0, <1>2, <1>8, <1>9, <1>v, <2>1 DEF Runs
  <2> QED BY <1>7, <2>4, <2>5
<1>10. CASE g.lastRoll_ = f.lastRoll_ /\ g.writtenBytes_ = f.writtenBytes_ + len
  <2>1. Runs(u, g, runs)
    BY <1>2, <1>8, <1>10 DEF Runs
  <2> QED BY <1>7, <1>8, <1>10, <2>1
<1> QED BY <1>6, <1>7, <1>9, <1>10

\* Every step keeps it: a process that is started again finds only messages of earlier
\* processes, and the file that it opens first may hold some of them.
LEMMA SizeStep ==
  ASSUME TypeOK, BackendInv, FatalInv, RollOK(All, file, clock), SizeInv, [Next]_vars
  PROVE  SizeInv'
<1> USE LogFileAssumption
<1>0. /\ disk \in Seq(Entry) /\ file.buffer_ \in Seq(Entry) /\ All \in Seq(Entry)
      /\ file \in LogFileType /\ clock \in Nat /\ file.lastRoll_ \in Nat /\ runs \in Nat
  BY FileFacts DEF TypeOK, All, LogFileType
<1>s. /\ Runs(All, file, runs)
      /\ Up /\ file.lastRoll_ > 0 => Counted(All, file.lastRoll_, file.writtenBytes_, runs)
  BY SizeParts
<1>d. /\ \A k \in 1..Len(disk) : k \in 1..Len(All) /\ All[k] = disk[k]
  BY <1>0 DEF All
<1>p. ASSUME Runs(All', file', runs'),
             Up' /\ file'.lastRoll_ > 0 => Counted(All', file'.lastRoll_, file'.writtenBytes_, runs')
      PROVE  SizeInv'
  BY <1>p DEF SizeInv, Runs, Counted, SizeOf, Of
<1>a. ASSUME All' = All, file'.lastRoll_ = file.lastRoll_, runs' = runs, Up' => Up,
             file'.writtenBytes_ = file.writtenBytes_
      PROVE  SizeInv'
  <2>1. Runs(All', file', runs')
    BY <1>a, <1>s DEF Runs
  <2> QED BY <1>a, <1>p, <1>s, <2>1
<1>w. ASSUME NEW len \in Nat, len > 0 => messages < MaxMessages, file.lastRoll_ > 0,
             Becomes(append(disk, file, len)), Up, runs' = runs
      PROVE  SizeInv'
  BY <1>p, <1>w, AppendCounts
<1>1. ASSUME NEW t \in Threads, NEW len \in Lengths, NEW isFatal \in BOOLEAN,
             Log(t, len, isFatal)
      PROVE  SizeInv'
  <2>1. len \in Nat /\ messages < MaxMessages /\ runs' = runs
    BY <1>1 DEF Log, NewMessage
  <2>2. Becomes(append(disk, file, len)) /\ file.lastRoll_ > 0 /\ Up
    BY <1>1, LoggedToFile DEF Log, Up
  <2> QED BY <1>w, <2>1, <2>2
<1>2. ASSUME NEW t \in Threads, FatalFlush(t) PROVE SizeInv'
  <2>1. runs' = runs /\ main' = main
    BY <1>2 DEF FatalFlush, histVars, procVars
  <2>2. CASE Becomes(flush(disk, file))
    BY <1>a, <2>1, <2>2, FlushStep DEF Up
  <2>3. CASE UNCHANGED logVars
    BY <1>a, <2>1, <2>3 DEF logVars, All, Up
  <2> QED BY <1>2, <2>2, <2>3 DEF FatalFlush
<1>3. ASSUME NEW t \in Threads, Abort(t) PROVE SizeInv'
  <2>1. /\ disk' = disk /\ file'.buffer_ = << >> /\ file'.lastRoll_ = file.lastRoll_
        /\ runs' = runs /\ ~Up'
    BY <1>0, <1>3 DEF Abort, LogFileType, Up
  <2>2. All' = disk
    BY <1>0, <2>1, ConcatEmptySeq DEF All
  <2>3. Runs(All', file', runs')
    BY <1>d, <1>s, <2>1, <2>2 DEF Runs
  <2> QED BY <1>p, <2>1, <2>3
<1>4. CASE MainMoves \/ BackStarts \/ BackReady \/ BackRound \/ BackSetsFlush \/ BackSetsOut
  <2>1. UNCHANGED <<logVars, runs>> /\ (Up' => Up)
    BY <1>4 DEF MainMoves, Constructed, Start, StartReturns, Destroy, Joined, MainStep, BackStarts,
                BackReady, BackRound, BackSetsFlush, BackSetsOut, BackBinds, BackStep, histVars, Up
  <2> QED BY <1>a, <2>1 DEF logVars, All
<1>5. CASE BackOpens
  <2>1. file = NoFile /\ runs' = runs /\ file.lastRoll_ = 0
    BY <1>5 DEF BackOpens, BackStep, BackendInv, NoFile
  <2>2. All' = All /\ file'.lastRoll_ = clock /\ file'.writtenBytes_ = 0
    BY <1>5, <2>1, OpenStep DEF BackOpens
  <2>3. PICK s \in Seq(Entry) : s = All
    BY <1>0
  <2>4. \A k \in 1..Len(s) : s[k].run < runs
    BY <1>s, <2>1, <2>3 DEF Runs
  <2>5. \A k \in 1..Len(s) : s[k].run \in Nat /\ s[k].file \in Nat /\ s[k].time \in Nat
                            /\ s[k].size \in Nat
    <3>1. \A k \in 1..Len(s) : s[k] \in Entry
      OBVIOUS
    <3> QED BY <3>1, EntryFacts
  <2>6. \A k \in 1..Len(s) : s[k].file <= clock
    BY <1>0, <2>3, <2>5 DEF RollOK, Past
  <2>7. Runs(All', file', runs')
    <3>1. \A k \in 1..Len(s) : s[k].run <= runs
      BY <1>0, <2>4, <2>5
    <3>2. PICK g : g = file'
      OBVIOUS
    <3>3. Runs(s, g, runs)
      BY <2>2, <2>4, <2>6, <3>1, <3>2 DEF Runs
    <3> QED BY <2>1, <2>2, <2>3, <3>2, <3>3
  <2>8. Counted(s, clock, 0, runs)
    <3>1. \/ SizeOf(s, clock) = 0
          \/ \E k \in 1..Len(s) : s[k].file = clock /\ s[k].size = SizeOf(s, clock)
      BY SizeFacts
    <3> QED BY <2>4, <2>5, <3>1 DEF Counted
  <2> QED BY <1>p, <2>1, <2>2, <2>3, <2>7, <2>8
<1>6. CASE BackWrites
  <2>1. PICK len \in Lengths \cup {0} :
          /\ IF len = 0 THEN UNCHANGED messages ELSE NewMessage
          /\ Becomes(append(disk, file, len))
    BY <1>6 DEF BackWrites
  <2>2. len \in Nat /\ (len > 0 => messages < MaxMessages)
    BY <2>1 DEF NewMessage
  <2>3. bpc = "write" /\ runs' = runs /\ Up
    BY <1>6 DEF BackWrites, BackStep
  <2>4. file.lastRoll_ > 0
    BY <2>3 DEF BackendInv
  <2> QED BY <1>w, <2>1, <2>2, <2>3, <2>4
<1>7. CASE BackFlushes \/ BackExits \/ Spill
  <2>1. Becomes(flush(disk, file)) /\ runs' = runs /\ main' = main
    BY <1>7 DEF BackFlushes, BackExits, BackStep, Spill, histVars, procVars
  <2> QED BY <1>a, <2>1, FlushStep DEF Up
<1>8. CASE Tick
  <2>1. UNCHANGED <<logVars, runs, main>>
    BY <1>8 DEF Tick, histVars, procVars
  <2> QED BY <1>a, <2>1 DEF logVars, All, Up
<1>9. CASE Restart
  <2>1. disk' = disk /\ file'.buffer_ = << >> /\ file'.lastRoll_ = 0 /\ runs' = runs + 1
    BY <1>9 DEF Restart, NoFile
  <2>2. All' = disk
    BY <1>0, <2>1, ConcatEmptySeq DEF All
  <2>3. \A k \in 1..Len(disk) : disk[k].run \in Nat /\ disk[k].run <= runs
    <3>1. \A k \in 1..Len(disk) : disk[k] \in Entry
      BY <1>0
    <3> QED BY <1>d, <1>s, <3>1 DEF Runs, Entry
  <2>4. Runs(All', file', runs')
    BY <1>0, <2>1, <2>2, <2>3 DEF Runs
  <2> QED BY <1>p, <2>1, <2>4
<1>10. CASE UNCHANGED vars
  BY <1>a, <1>10 DEF vars, logVars, histVars, procVars, All, Up
<1> QED BY <1>1, <1>2, <1>3, <1>4, <1>5, <1>6, <1>7, <1>8, <1>9, <1>10
        DEF Next, Backend, BackSpins, MainMoves

-----------------------------------------------------------------------------
(***************************************************************************)
(* The theorems.                                                           *)
(***************************************************************************)
LEMMA InitHolds ==
  ASSUME Init
  PROVE  BackendInv /\ FatalInv /\ Complete /\ RollOK(All, file, clock) /\ SizeInv
<1>1. disk = << >> /\ file.buffer_ = << >> /\ file.lastRoll_ = 0 /\ clock = 1
  BY DEF Init, NoFile
<1>2. Len(All) = 0
  BY <1>1 DEF All
<1>3. BackendInv /\ FatalInv /\ Complete
  BY <1>2 DEF Init, BackendInv, FatalInv, Complete
<1>4. Past(All, clock) /\ SmallBefore(All)
  BY <1>2 DEF Past, SmallBefore
<1>5. ASSUME NEW name \in Nat PROVE Cardinality(LateIn(name, All)) <= checkEveryN_
  <2>1. LateIn(name, All) = {}
    BY <1>2 DEF LateIn
  <2> QED BY <2>1, FS_EmptySet, LogFileAssumption
<1>6. FewLate(All)
  BY <1>5 DEF FewLate
<1>7. SizeInv
  BY <1>1, <1>2 DEF SizeInv
<1> QED BY <1>1, <1>3, <1>4, <1>6, <1>7 DEF RollOK

\* Complete in the parts that the steps preserve.
LEMMA CompleteParts ==
  ASSUME FatalInv
  PROVE  Complete <=> Ordered(All, messages) /\ (Up => AllThere) /\ EndedOnDisk
BY DEF FatalInv, Complete, Ordered, AllThere, EndedOnDisk, OnDisk

\* The inductive invariant of the module.
Invariant == TypeOK /\ BackendInv /\ FatalInv /\ Complete /\ RollOK(All, file, clock) /\ SizeInv

\* It is preserved by every step,
LEMMA LogStep ==
  ASSUME Invariant, [Next]_vars
  PROVE  Invariant'
<1> USE DEF Invariant
<1>1. TypeOK' /\ BackendInv'
  BY TypeStep, BackendStep
<1>2. Ordered(All, messages) /\ (Up => AllThere) /\ EndedOnDisk
  BY CompleteParts
<1>3. FatalInv'
  BY <1>2, FatalStep
<1>4. Ordered(All, messages)' /\ (Up => AllThere)' /\ EndedOnDisk'
  BY <1>2, OrderStep, ThereStep, EndedStep
<1>5. Complete'
  BY <1>3, <1>4 DEF FatalInv, Complete, Ordered, AllThere, EndedOnDisk, OnDisk, Up
<1>6. RollOK(All, file, clock)'
  <2>1. RollOK(All', file', clock')
    BY RollStep
  <2> QED BY <2>1 DEF RollOK, Past, Small, SmallBefore, Fits, FewLate, LateIn
<1>7. SizeInv'
  BY SizeStep
<1> QED BY <1>1, <1>3, <1>5, <1>6, <1>7

\* and so it always holds.
LEMMA LogHolds == Spec => []Invariant
<1>1. Init => Invariant
  BY TypeInit, InitHolds DEF Invariant
<1>2. Invariant /\ [Next]_vars => Invariant'
  BY LogStep
<1> QED BY <1>1, <1>2, PTL DEF Spec

\* For every number of threads and every value of running_ that its memory may hold:
\* when start() has returned, Loggers write to an open file; LOG(FATAL) has its message
\* and all before it on the disk before it aborts; and what logFile remembers of its
\* file, its day and the messages since it looked at it is true.
THEOREM LogInvariant == Spec => []LogInv
<1>1. TypeOK /\ BackendInv => Handshake
  BY DEF TypeOK, BackendInv, Handshake
<1>2. RollOK(All, file, clock) => RollInv
  BY DEF RollOK, RollInv, Past, Small
<1>3. Invariant => LogInv
  BY <1>1, <1>2 DEF Invariant, LogInv
<1> QED BY <1>3, LogHolds, PTL

\* No message is lost, doubled or reordered by a roll, a flush or a restart; after
\* LOG(FATAL) and after the destructor they are on the disk.
THEOREM CompleteAlways == Spec => []Complete
<1>1. Invariant => Complete
  BY DEF Invariant
<1> QED BY <1>1, LogHolds, PTL

\* A file ends with the message that takes its size over rollSize_, except in the second
\* of its name and for what an earlier process has left in it, and has at most
\* checkEveryN_ messages of another day than its own.
THEOREM RollingAlways == Spec => []Rolling
<1>1. ASSUME Invariant PROVE Rolling
  <2>1. SmallBefore(All) /\ FewLate(All) /\ All \in Seq(Entry)
    BY <1>1 DEF Invariant, RollOK, TypeOK, LogFileType, All
  <2>2. ASSUME NEW i \in 1..Len(All), NEW j \in (i + 1)..Len(All),
               All[i].file = All[j].file, All[i].time > All[i].file
        PROVE  Fits(All, i)
    <3>1. Len(All) \in Nat
      BY <2>1
    <3>2. j \in 1..Len(All) /\ i < j
      BY <3>1
    <3> QED BY <2>1, <2>2, <3>2 DEF SmallBefore
  <2>3. ASSUME NEW i \in 1..Len(All)
        PROVE  Cardinality(LateIn(All[i].file, All)) <= checkEveryN_
    <3>1. All[i] \in Entry
      BY <2>1
    <3>2. All[i].file \in Nat
      BY <3>1, EntryFacts
    <3> QED BY <2>1, <3>2 DEF FewLate
  <2> QED BY <2>2, <2>3 DEF Rolling
<1> QED BY <1>1, LogHolds, PTL

\* No step changes or removes what a file holds.
THEOREM NothingErasedAlways == Spec => NothingErased
<1>1. ASSUME Invariant, [Next]_vars
      PROVE  [Len(disk) <= Len(disk') /\ SubSeq(disk', 1, Len(disk)) = disk]_disk
  <2>1. PICK s \in Seq(Entry) : disk' = disk \o s
    BY <1>1, MessageStep DEF DiskGrows, Invariant
  <2>2. disk \in Seq(Entry)
    BY <1>1 DEF TypeOK, Invariant
  <2>3. Len(disk \o s) = Len(disk) + Len(s) /\ Len(disk) \in Nat /\ Len(s) \in Nat
    BY <2>2
  <2>4. SubSeq(disk \o s, 1, Len(disk)) = disk
    BY <2>2, <2>3
  <2>5. Len(disk) <= Len(disk') /\ SubSeq(disk', 1, Len(disk)) = disk
    BY <2>1, <2>3, <2>4
  <2> QED BY <2>5
<1> QED BY <1>1, LogHolds, PTL DEF Spec, NothingErased
=============================================================================
