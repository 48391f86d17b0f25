------------------------- MODULE AsyncLoggingProofs -------------------------
(***************************************************************************)
(* The hand-off of buffers between the front end and the back end of       *)
(* asyncLogging is correct for every buffer size, every set of message     *)
(* lengths, every overload limit above two and every number of messages.   *)
(*                                                                         *)
(* HandOff is inductive together with TypeOK: the batch has more than one  *)
(* buffer exactly when the front end has used up its spare buffer, and     *)
(* then, and only then, the back end has to find two buffers in it.        *)
(*                                                                         *)
(* Conservation is inductive on top of it: a step moves messages from one  *)
(* buffer to the next place in line and leaves the order of the log and of *)
(* the buffers behind it alone.  The middle of this module has the lemmas  *)
(* on sequences that say so, the end has one lemma per action.             *)
(***************************************************************************)
EXTENDS AsyncLogging, TLAPS

\* An empty buffer is a buffer.
LEMMA EmptyIsBuffer == Empty \in Buffer
BY SizeAssumption DEF Empty, Buffer

\* Appending a message that fits keeps a buffer within its SIZE - 1 characters.
LEMMA BufAppendType ==
  ASSUME NEW b \in Buffer, NEW n \in 1..MaxAppends, NEW len \in Lengths,
         Fits(b, len)
  PROVE  BufAppend(b, n, len) \in Buffer
<1>1. b.len \in 0..(Size - 1) /\ b.log \in Seq(1..MaxAppends)
  BY DEF Buffer
<1>2. len \in 1..(Size - 1)
  BY LengthsAssumption
<1>3. b.len + len \in 0..(Size - 1)
  BY <1>1, <1>2, SizeAssumption DEF Fits, avail
<1>4. Append(b.log, n) \in Seq(1..MaxAppends)
  BY <1>1
<1> QED
  BY <1>3, <1>4 DEF BufAppend, Buffer

\* Shrinking a vector keeps its first elements.
LEMMA ResizeType ==
  ASSUME NEW S, NEW v \in Seq(S), NEW n \in 0..Len(v)
  PROVE  /\ resize(v, n) \in Seq(S)
         /\ Len(resize(v, n)) = n
         /\ \A i \in 1..n : resize(v, n)[i] = v[i]
BY DEF resize

\* A vector is empty exactly when its size is zero.
LEMMA LenEmpty ==
  ASSUME NEW v \in Seq(Buffer \cup {Null})
  PROVE  Len(v) \in Nat /\ (v = << >> <=> Len(v) = 0)
OBVIOUS

\* The size of a batch that was trimmed.
LEMMA OneOrTwo ==
  ASSUME NEW n \in Nat, n # 0, n <= 2
  PROVE  n \in {1, 2} /\ (n = 2 <=> n > 1)
<1>1. n = 1 \/ n = 2
  OBVIOUS
<1> QED
  BY <1>1

\* A vector of more than two buffers that is cut down to two.
LEMMA CutVec ==
  ASSUME NEW v \in Seq(Buffer \cup {Null}), Len(v) > 2
  PROVE  /\ resize(v, 2) \in Seq(Buffer \cup {Null})
         /\ Len(resize(v, 2)) = 2
         /\ resize(v, 2)[1] = v[1] /\ resize(v, 2)[2] = v[2]
<1>1. 2 \in 0..Len(v) /\ 1 \in 1..2 /\ 2 \in 1..2
  OBVIOUS
<1> QED
  BY <1>1, ResizeType

\* Removing the last buffer of a vector that has one.
LEMMA PopVec ==
  ASSUME NEW v \in Seq(Buffer \cup {Null}), v # << >>
  PROVE  /\ pop_back(v) \in Seq(Buffer \cup {Null})
         /\ Len(pop_back(v)) = Len(v) - 1
         /\ Len(v) = 1 => pop_back(v) = << >>
<1>1. Len(v) \in Nat /\ Len(v) >= 1
  OBVIOUS
<1>2. Len(v) - 1 \in 0..Len(v)
  BY <1>1
<1>3. /\ pop_back(v) \in Seq(Buffer \cup {Null})
      /\ Len(pop_back(v)) = Len(v) - 1
  BY <1>2, ResizeType DEF pop_back
<1>4. ASSUME Len(v) = 1 PROVE pop_back(v) = << >>
  <2>1. Len(pop_back(v)) = 0
    BY <1>3, <1>4
  <2> QED
    BY <1>3, <2>1
<1> QED
  BY <1>3, <1>4

\* The five places that hold a buffer, when the object is created.
LEMMA HandOffInit == Init => LoggingInv
<1> SUFFICES ASSUME Init PROVE TypeOK /\ HandOff
  BY DEF LoggingInv
<1> USE EmptyIsBuffer, NullAssumption
<1>1. TypeOK
  <2>1. /\ << >> \in Seq(Buffer \cup {Null}) /\ << >> \in Seq(1..MaxAppends)
        /\ Empty \in Buffer \cup {Null} /\ 0 \in 0..MaxAppends
    BY MaxAppendsAssumption
  <2> QED
    BY <2>1 DEF Init, TypeOK, PCs
<1>2. HandOff
  BY DEF Init, HandOff, FrontEndOK, SparesOK, BatchOK, TrimmedOK, Live
<1> QED
  BY <1>1, <1>2

\* append keeps the hand-off, whether the message fits in cur_ or not.
LEMMA AppendKeeps ==
  ASSUME LoggingInv, NEW len \in Lengths, AppendMessage(len)
  PROVE  LoggingInv'
<1> USE DEF LoggingInv, HandOff
<1>0. /\ cur_ \in Buffer /\ Empty \in Buffer /\ Null \notin Buffer
      /\ appended' \in 1..MaxAppends
      /\ UNCHANGED <<running_, backend, owner>>
  BY EmptyIsBuffer, NullAssumption, MaxAppendsAssumption
  DEF TypeOK, FrontEndOK, AppendMessage
<1>1. CASE AppendFits(len)
  <2>1. cur_' \in Buffer /\ UNCHANGED <<prv_, transBufVec_, discarded>>
    BY <1>0, <1>1, BufAppendType DEF AppendFits
  <2>2. TypeOK'
    BY <1>0, <2>1 DEF TypeOK, backend
  <2>3. HandOff'
    BY <1>0, <2>1 DEF FrontEndOK, SparesOK, BatchOK, TrimmedOK, Live, backend
  <2> QED
    BY <2>2, <2>3
<1>2. CASE AppendSpills(len)
  <2> DEFINE fresh == IF prv_ # Null THEN prv_ ELSE Empty
  <2>1. fresh \in Buffer
    BY <1>0 DEF TypeOK
  <2>2. cur_' \in Buffer
    <3>1. CASE Fits(fresh, len)
      BY <1>0, <1>2, <2>1, <3>1, BufAppendType DEF AppendSpills
    <3>2. CASE ~Fits(fresh, len)
      BY <1>2, <2>1, <3>2 DEF AppendSpills
    <3> QED
      BY <3>1, <3>2
  <2>3. transBufVec_' = Append(transBufVec_, cur_) /\ prv_' = Null
    BY <1>2 DEF AppendSpills
  <2>d. discarded' \subseteq [n : 1..MaxAppends, len : Lengths]
    BY <1>0, <1>2 DEF AppendSpills, TypeOK
  <2>4. TypeOK'
    BY <1>0, <2>2, <2>3, <2>d DEF TypeOK, backend
  <2>5. FrontEndOK'
    <3>1. transBufVec_ \in Seq(Buffer \cup {Null})
      BY DEF TypeOK
    <3>2. transBufVec_' # << >>
      BY <2>3, <3>1, <1>0
    <3>3. Live(transBufVec_)'
      BY <2>3, <3>1, <1>0 DEF FrontEndOK, Live
    <3> QED
      BY <2>2, <2>3, <3>2, <3>3, <1>0 DEF FrontEndOK
  <2>6. (SparesOK /\ BatchOK /\ TrimmedOK)'
    BY <1>0 DEF SparesOK, BatchOK, TrimmedOK, Live, backend
  <2> QED
    BY <2>4, <2>5, <2>6
<1> QED
  BY <1>1, <1>2 DEF AppendMessage

\* The exchange leaves the front end with two buffers (or the spare it had) and
\* the back end with a batch that can give back what it lent.
LEMMA ExchangeKeeps ==
  ASSUME LoggingInv, Exchange
  PROVE  LoggingInv'
<1> USE DEF LoggingInv, HandOff
<1>1. /\ newBuf_1 \in Buffer /\ newBuf_2 \in Buffer /\ Null \notin Buffer
      /\ needToWriteBufVec_ = << >>
      /\ cur_ \in Buffer
      /\ transBufVec_ \in Seq(Buffer \cup {Null})
      /\ prv_ \in Buffer \cup {Null}
  BY NullAssumption DEF TypeOK, SparesOK, FrontEndOK, Exchange
<1>2. /\ needToWriteBufVec_' = Append(transBufVec_, cur_)
      /\ transBufVec_' = << >>
      /\ cur_' = newBuf_1 /\ newBuf_1' = Null
      /\ pc' = "overload" /\ written' = 0
      /\ UNCHANGED <<running_, appended, discarded, logged, flushed, dropped, owner>>
  BY <1>1 DEF Exchange
<1>3. prv_' \in Buffer /\ newBuf_2' \in Buffer \cup {Null}
  BY <1>1 DEF Exchange
<1>4. newBuf_2' = Null <=> prv_ = Null
  BY <1>1 DEF Exchange
<1>5. TypeOK'
  BY <1>1, <1>2, <1>3 DEF TypeOK, PCs
<1>6. FrontEndOK'
  BY <1>1, <1>2, <1>3 DEF FrontEndOK, Live
<1>7. BatchOK'
  <2>1. /\ Len(needToWriteBufVec_') = Len(transBufVec_) + 1
        /\ needToWriteBufVec_' # << >>
    BY <1>1, <1>2
  <2>2. Live(needToWriteBufVec_)'
    BY <1>1, <1>2 DEF FrontEndOK, Live
  <2>3. Len(needToWriteBufVec_') > 1 <=> transBufVec_ # << >>
    BY <1>1, <2>1
  <2> QED
    BY <1>2, <1>4, <2>1, <2>2, <2>3 DEF BatchOK, FrontEndOK
<1>8. (SparesOK /\ TrimmedOK)'
  BY <1>2 DEF SparesOK, TrimmedOK
<1> QED
  BY <1>5, <1>6, <1>7, <1>8

\* Cutting a batch down to two buffers keeps what the spares need.
LEMMA CutKeeps ==
  ASSUME LoggingInv, pc \in {"overload", "write"}, pc' \in {"write", "refill"},
         \/ UNCHANGED needToWriteBufVec_
         \/ /\ Len(needToWriteBufVec_) > 2
            /\ needToWriteBufVec_' = resize(needToWriteBufVec_, 2),
         pc' = "refill" => Len(needToWriteBufVec_') <= 2,
         UNCHANGED <<running_, frontend, newBuf_1, newBuf_2, logged, flushed, owner>>,
         written' \in Nat, dropped' \in BOOLEAN
  PROVE  LoggingInv'
<1> USE DEF LoggingInv, HandOff
<1>1. /\ needToWriteBufVec_ \in Seq(Buffer \cup {Null})
      /\ Len(needToWriteBufVec_) \in Nat
  BY DEF TypeOK
<1>2. /\ needToWriteBufVec_' \in Seq(Buffer \cup {Null})
      /\ needToWriteBufVec_' # << >>
      /\ Live(needToWriteBufVec_)'
      /\ Len(needToWriteBufVec_') > 1 <=> Len(needToWriteBufVec_) > 1
  <2>1. CASE UNCHANGED needToWriteBufVec_
    BY <1>1, <2>1 DEF BatchOK, Live
  <2>2. CASE /\ Len(needToWriteBufVec_) > 2
             /\ needToWriteBufVec_' = resize(needToWriteBufVec_, 2)
    <3>1. /\ needToWriteBufVec_' \in Seq(Buffer \cup {Null})
          /\ Len(needToWriteBufVec_') = 2
          /\ needToWriteBufVec_'[1] = needToWriteBufVec_[1]
          /\ needToWriteBufVec_'[2] = needToWriteBufVec_[2]
      BY <1>1, <2>2, CutVec
    <3>2. needToWriteBufVec_' # << >>
      <4>1. PICK v : v = needToWriteBufVec_'
        OBVIOUS
      <4>2. Len(v) = 2 => v # << >>
        OBVIOUS
      <4> QED BY <3>1, <4>1, <4>2
    <3>3. Live(needToWriteBufVec_)'
      BY <1>1, <2>2, <3>1 DEF BatchOK, Live
    <3> QED
      BY <2>2, <3>1, <3>2, <3>3
  <2> QED
    BY <2>1, <2>2
<1>3. TypeOK'
  BY <1>2 DEF TypeOK, PCs, frontend
<1>4. FrontEndOK'
  BY DEF FrontEndOK, Live, frontend
<1>5. BatchOK'
  BY <1>2 DEF BatchOK
<1>6. (SparesOK /\ TrimmedOK)'
  BY DEF SparesOK, TrimmedOK
<1> QED
  BY <1>3, <1>4, <1>5, <1>6

\* The back end finds the one or two buffers it needs in the batch, and nothing else.
LEMMA RefillKeeps ==
  ASSUME LoggingInv, Refill
  PROVE  LoggingInv'
<1> USE DEF LoggingInv, HandOff
<1> DEFINE need == needToWriteBufVec_
<1>1. /\ newBuf_1 = Null /\ Null \notin Buffer
      /\ need \in Seq(Buffer \cup {Null})
      /\ Len(need) \in {1, 2}
      /\ newBuf_2 = Null <=> Len(need) = 2
      /\ newBuf_2 \in Buffer \cup {Null}
  <2>1. /\ pc = "refill"
        /\ newBuf_1 = Null /\ Null \notin Buffer
        /\ need \in Seq(Buffer \cup {Null})
        /\ need # << >> /\ Len(need) <= 2
        /\ newBuf_2 = Null <=> Len(need) > 1
        /\ newBuf_2 \in Buffer \cup {Null}
    BY NullAssumption DEF TypeOK, BatchOK, TrimmedOK, Refill
  <2>2. Len(need) \in Nat /\ Len(need) # 0
    BY <2>1, LenEmpty
  <2>3. Len(need) \in {1, 2} /\ (Len(need) = 2 <=> Len(need) > 1)
    BY <2>1, <2>2, OneOrTwo
  <2> QED
    BY <2>1, <2>3
<1>2. /\ pop_back(need) \in Seq(Buffer \cup {Null})
      /\ Len(pop_back(need)) = Len(need) - 1
      /\ Len(need) = 1 => pop_back(need) = << >>
  <2>1. need # << >>
    BY <1>1, LenEmpty
  <2> QED
    BY <1>1, <2>1, PopVec
<1>3. \A b : reset(b) \in Buffer
  BY EmptyIsBuffer DEF reset, Empty
<1>4. newBuf_1' \in Buffer /\ newBuf_2' \in Buffer
  BY <1>1, <1>3 DEF Refill
<1>5. needToWriteBufVec_' = << >>
  <2>1. CASE newBuf_2 # Null
    BY <1>1, <1>2, <2>1 DEF Refill
  <2>2. CASE newBuf_2 = Null
    <3>1. Len(pop_back(need)) = 1
      BY <1>1, <1>2, <2>2
    <3>2. pop_back(pop_back(need)) = << >>
      <4>1. pop_back(need) # << >>
        BY <3>1
      <4> QED
        BY <1>2, <3>1, <4>1, PopVec
    <3> QED
      BY <1>1, <2>2, <3>2 DEF Refill
  <2> QED
    BY <2>1, <2>2
<1>6. TypeOK'
  <2>1. needToWriteBufVec_' \in Seq(Buffer \cup {Null})
    BY <1>5
  <2>2. flushed' \in Nat
    BY DEF TypeOK, Refill
  <2> QED
    BY <1>4, <2>1, <2>2 DEF TypeOK, PCs, Refill, frontend
<1>7. FrontEndOK'
  BY DEF FrontEndOK, Live, Refill, frontend
<1>8. (SparesOK /\ BatchOK /\ TrimmedOK)'
  BY <1>1, <1>4, <1>5 DEF SparesOK, BatchOK, TrimmedOK, Refill
<1> QED
  BY <1>6, <1>7, <1>8

\* Every step keeps the hand-off.
LEMMA HandOffStep == LoggingInv /\ [Next]_vars => LoggingInv'
<1> SUFFICES ASSUME LoggingInv, [Next]_vars PROVE LoggingInv'
  OBVIOUS
<1>1. CASE \E len \in Lengths : AppendMessage(len)
  BY <1>1, AppendKeeps
<1>2. CASE While
  BY <1>2 DEF While, LoggingInv, TypeOK, PCs, HandOff, FrontEndOK, SparesOK, BatchOK,
              TrimmedOK, Live, frontend
<1>3. CASE Exchange
  BY <1>3, ExchangeKeeps
<1>4. CASE Overload
  <2>1. Len(needToWriteBufVec_) \in Nat
    BY DEF LoggingInv, TypeOK
  <2>2. \/ UNCHANGED needToWriteBufVec_
        \/ /\ Len(needToWriteBufVec_) > 2
           /\ needToWriteBufVec_' = resize(needToWriteBufVec_, 2)
    BY <1>4, <2>1, LimitAssumption DEF Overload
  <2>3. written' \in Nat /\ dropped' \in BOOLEAN
    BY <1>4 DEF Overload, LoggingInv, TypeOK
  <2> QED
    BY <1>4, <2>2, <2>3, CutKeeps DEF Overload
<1>5. CASE WriteBuffer
  <2>1. needToWriteBufVec_[written + 1] \in Buffer
    BY <1>5 DEF WriteBuffer, LoggingInv, TypeOK, HandOff, BatchOK, Live
  <2>2. logged' \in Seq(1..MaxAppends)
    <3>1. needToWriteBufVec_[written + 1].log \in Seq(1..MaxAppends)
      BY <2>1 DEF Buffer
    <3> QED
      BY <1>5, <3>1 DEF WriteBuffer, LoggingInv, TypeOK
  <2>3. TypeOK'
    BY <1>5, <2>2 DEF WriteBuffer, LoggingInv, TypeOK, frontend
  <2>4. HandOff'
    BY <1>5 DEF WriteBuffer, LoggingInv, HandOff, FrontEndOK, SparesOK, BatchOK,
                TrimmedOK, Live, frontend
  <2> QED
    BY <2>3, <2>4 DEF LoggingInv
<1>6. CASE Trim
  <2>1. Len(needToWriteBufVec_) \in Nat
    BY DEF LoggingInv, TypeOK
  <2>2. \/ UNCHANGED needToWriteBufVec_ /\ Len(needToWriteBufVec_) <= 2
        \/ /\ Len(needToWriteBufVec_) > 2
           /\ needToWriteBufVec_' = resize(needToWriteBufVec_, 2)
    BY <1>6, <2>1 DEF Trim
  <2>3. Len(needToWriteBufVec_') <= 2
    <3>1. needToWriteBufVec_ \in Seq(Buffer \cup {Null})
      BY DEF LoggingInv, TypeOK
    <3>2. CASE UNCHANGED needToWriteBufVec_ /\ Len(needToWriteBufVec_) <= 2
      BY <3>2
    <3>3. CASE /\ Len(needToWriteBufVec_) > 2
               /\ needToWriteBufVec_' = resize(needToWriteBufVec_, 2)
      <4>1. Len(resize(needToWriteBufVec_, 2)) = 2
        BY <3>1, <3>3, CutVec
      <4>2. Len(needToWriteBufVec_') = 2
        BY <3>3, <4>1
      <4> QED
        BY <4>2
    <3> QED
      BY <2>2, <3>2, <3>3
  <2>4. written' \in Nat /\ dropped' \in BOOLEAN
    BY <1>6 DEF Trim, LoggingInv, TypeOK
  <2> QED
    BY <1>6, <2>2, <2>3, <2>4, CutKeeps DEF Trim
<1>7. CASE Refill
  BY <1>7, RefillKeeps
<1>8. CASE DtorStop
  BY <1>8 DEF DtorStop, LoggingInv, TypeOK, HandOff, FrontEndOK, SparesOK, BatchOK,
              TrimmedOK, Live, frontend, backend
<1>9. CASE DtorJoin
  BY <1>9 DEF DtorJoin, LoggingInv, TypeOK, HandOff, FrontEndOK, SparesOK, BatchOK,
              TrimmedOK, Live, frontend, backend
<1>10. CASE Destroyed \/ UNCHANGED vars
  BY <1>10 DEF Destroyed, vars, LoggingInv, TypeOK, HandOff, FrontEndOK, SparesOK,
               BatchOK, TrimmedOK, Live, frontend, backend
<1> QED
  BY <1>1, <1>2, <1>3, <1>4, <1>5, <1>6, <1>7, <1>8, <1>9, <1>10 DEF Next, Backend

\* threadFunc never takes back() of an empty vector or dereferences a moved buffer,
\* needToWriteBufVec_ is empty whenever it is swapped with transBufVec_, and no
\* buffer ever holds more than SIZE - 1 characters.
THEOREM HandOffAlways == Spec => []LoggingInv
BY HandOffInit, HandOffStep, PTL DEF Spec

-----------------------------------------------------------------------------
\* A vector of buffers none of which was moved from.
LEMMA LiveVec ==
  ASSUME NEW v \in Seq(Buffer \cup {Null}), Live(v)
  PROVE  v \in Seq(Buffer)
BY DEF Live

\* What a buffer holds.
LEMMA BufferLog ==
  ASSUME NEW b \in Buffer
  PROVE  /\ b.log \in Seq(Nat)
         /\ \A i \in 1..Len(b.log) : b.log[i] \in 1..MaxAppends
<1>1. b.log \in Seq(1..MaxAppends)
  BY DEF Buffer
<1>2. PICK s \in Seq(1..MaxAppends) : s = b.log
  BY <1>1
<1>3. s \in Seq(Nat) /\ \A i \in 1..Len(s) : s[i] \in 1..MaxAppends
  BY MaxAppendsAssumption
<1> QED
  BY <1>2, <1>3

\* The elements of a concatenation.
LEMMA ConcatParts ==
  ASSUME NEW S, NEW s \in Seq(S), NEW t \in Seq(S)
  PROVE  /\ s \o t \in Seq(S) /\ Len(s \o t) = Len(s) + Len(t)
         /\ \A i \in 1..Len(s) : i \in 1..Len(s \o t) /\ (s \o t)[i] = s[i]
         /\ \A j \in 1..Len(t) :
              Len(s) + j \in 1..Len(s \o t) /\ (s \o t)[Len(s) + j] = t[j]
OBVIOUS

\* An element of a concatenation is one of the first or one of the second part.
LEMMA ConcatCases ==
  ASSUME NEW S, NEW s \in Seq(S), NEW t \in Seq(S), NEW i \in 1..Len(s \o t)
  PROVE  \/ i \in 1..Len(s) /\ (s \o t)[i] = s[i]
         \/ \E j \in 1..Len(t) : i = Len(s) + j /\ (s \o t)[i] = t[j]
<1>1. Len(s \o t) = Len(s) + Len(t) /\ Len(s) \in Nat /\ Len(t) \in Nat
  OBVIOUS
<1>2. CASE i <= Len(s)
  BY <1>1, <1>2, ConcatParts
<1>3. CASE i > Len(s)
  <2>1. i - Len(s) \in 1..Len(t) /\ i = Len(s) + (i - Len(s))
    BY <1>1, <1>3
  <2>2. PICK j \in 1..Len(t) : i = Len(s) + j
    BY <2>1
  <2>3. (s \o t)[Len(s) + j] = t[j]
    BY ConcatParts
  <2> QED
    BY <2>2, <2>3, Zenon
<1> QED
  BY <1>1, <1>2, <1>3

\* A larger message at the end keeps a sequence increasing.
LEMMA IncreasingAppend ==
  ASSUME NEW s \in Seq(Nat), NEW n \in Nat, Increasing(s),
         \A i \in 1..Len(s) : s[i] < n
  PROVE  Increasing(Append(s, n))
BY DEF Increasing

\* A message larger than those of s may join what comes after s.
LEMMA PrecedesAppend ==
  ASSUME NEW s \in Seq(Nat), NEW t \in Seq(Nat), NEW n \in Nat, Precedes(s, t),
         \A i \in 1..Len(s) : s[i] < n
  PROVE  Precedes(s, Append(t, n))
<1> SUFFICES ASSUME NEW i \in 1..Len(s), NEW j \in 1..Len(Append(t, n))
             PROVE  s[i] < Append(t, n)[j]
  BY DEF Precedes
<1>1. CASE j \in 1..Len(t)
  BY <1>1 DEF Precedes
<1>2. CASE j = Len(t) + 1
  BY <1>2
<1> QED
  BY <1>1, <1>2

\* What a sequence contains after an append.
LEMMA ContainsAppend ==
  ASSUME NEW s \in Seq(Nat), NEW n \in Nat, NEW m
  PROVE  Contains(Append(s, n), m) <=> Contains(s, m) \/ m = n
BY DEF Contains

\* Two increasing sequences, one before the other.
LEMMA IncreasingConcat ==
  ASSUME NEW s \in Seq(Nat), NEW t \in Seq(Nat),
         Increasing(s), Increasing(t), Precedes(s, t)
  PROVE  Increasing(s \o t)
<1>1. \A p \in 1..Len(s \o t) :
        \/ p \in 1..Len(s) /\ (s \o t)[p] = s[p]
        \/ \E k \in 1..Len(t) : p = Len(s) + k /\ (s \o t)[p] = t[k]
  BY ConcatCases
<1>2. Len(s) \in Nat /\ Len(t) \in Nat
  OBVIOUS
<1> SUFFICES ASSUME NEW i \in 1..Len(s \o t), NEW j \in 1..Len(s \o t), i < j
             PROVE  (s \o t)[i] < (s \o t)[j]
  BY DEF Increasing
<1>3. PICK x, y : x = (s \o t)[i] /\ y = (s \o t)[j]
  OBVIOUS
<1>4. CASE /\ i \in 1..Len(s) /\ x = s[i]
           /\ j \in 1..Len(s) /\ y = s[j]
  BY <1>4 DEF Increasing
<1>5. CASE /\ i \in 1..Len(s) /\ x = s[i]
           /\ \E k \in 1..Len(t) : j = Len(s) + k /\ y = t[k]
  BY <1>5 DEF Precedes
<1>6. CASE /\ \E k \in 1..Len(t) : i = Len(s) + k /\ x = t[k]
           /\ \E k \in 1..Len(t) : j = Len(s) + k /\ y = t[k]
  BY <1>2, <1>6 DEF Increasing
<1>7. CASE /\ \E k \in 1..Len(t) : i = Len(s) + k /\ x = t[k]
           /\ j \in 1..Len(s)
  BY <1>2, <1>7
<1> QED
  BY <1>1, <1>3, <1>4, <1>5, <1>6, <1>7, Zenon

\* Two sequences before a third one.
LEMMA PrecedesConcat ==
  ASSUME NEW s \in Seq(Nat), NEW t \in Seq(Nat), NEW u \in Seq(Nat),
         Precedes(s, u), Precedes(t, u)
  PROVE  Precedes(s \o t, u)
<1> SUFFICES ASSUME NEW i \in 1..Len(s \o t), NEW j \in 1..Len(u)
             PROVE  (s \o t)[i] < u[j]
  BY DEF Precedes
<1>1. \/ i \in 1..Len(s) /\ (s \o t)[i] = s[i]
      \/ \E k \in 1..Len(t) : i = Len(s) + k /\ (s \o t)[i] = t[k]
  BY ConcatCases
<1> QED
  BY <1>1, Zenon DEF Precedes

\* What a concatenation contains.
LEMMA ContainsConcat ==
  ASSUME NEW s \in Seq(Nat), NEW t \in Seq(Nat), NEW m
  PROVE  Contains(s \o t, m) <=> Contains(s, m) \/ Contains(t, m)
<1>1. ASSUME NEW i \in 1..Len(s \o t), (s \o t)[i] = m
      PROVE  Contains(s, m) \/ Contains(t, m)
  <2>1. \/ i \in 1..Len(s) /\ (s \o t)[i] = s[i]
        \/ \E k \in 1..Len(t) : i = Len(s) + k /\ (s \o t)[i] = t[k]
    BY ConcatCases
  <2> QED
    BY <1>1, <2>1, Zenon DEF Contains
<1>2. ASSUME NEW i \in 1..Len(s), s[i] = m PROVE Contains(s \o t, m)
  <2>1. i \in 1..Len(s \o t) /\ (s \o t)[i] = s[i]
    BY ConcatParts
  <2> QED
    BY <1>2, <2>1, Zenon DEF Contains
<1>3. ASSUME NEW i \in 1..Len(t), t[i] = m PROVE Contains(s \o t, m)
  <2>1. Len(s) + i \in 1..Len(s \o t) /\ (s \o t)[Len(s) + i] = t[i]
    BY ConcatParts
  <2> QED
    BY <1>3, <2>1, Zenon DEF Contains
<1> QED
  BY <1>1, <1>2, <1>3, Zenon DEF Contains

\* Positions in a sequence that was extended by one element.
LEMMA LastOrBefore ==
  ASSUME NEW n \in Nat
  PROVE  /\ n + 1 \in 1..(n + 1)
         /\ \A k \in 1..n : k \in 1..(n + 1) /\ k < n + 1
         /\ \A k \in 1..(n + 1) : k \in 1..n \/ k = n + 1
         /\ \A k, m \in 1..(n + 1) : k < m => k \in 1..n
OBVIOUS

\* append puts the next message in the last buffer.
LEMMA PushKeepsOrder ==
  ASSUME NEW l \in Seq(Nat), NEW h \in Seq(Buffer), NEW b \in Buffer,
         NEW n \in 1..MaxAppends, NEW len,
         BufAppend(b, n, len) \in Buffer,
         InOrder(l, Append(h, b)),
         \A m \in 1..MaxAppends : Kept(m, l, Append(h, b)) => m < n,
         \A i \in 1..Len(l) : l[i] \in 1..MaxAppends
  PROVE  /\ InOrder(l, Append(h, BufAppend(b, n, len)))
         /\ \A m \in 1..MaxAppends :
              Kept(m, l, Append(h, BufAppend(b, n, len)))
                <=> Kept(m, l, Append(h, b)) \/ m = n
<1> DEFINE g == Append(h, b)
<1>1. PICK c \in Buffer : c = BufAppend(b, n, len)
  OBVIOUS
<1> DEFINE gg == Append(h, c)
<1>2. c.log = Append(b.log, n) /\ b.log \in Seq(Nat) /\ c.log \in Seq(Nat) /\ n \in Nat
  BY <1>1, BufferLog, MaxAppendsAssumption DEF BufAppend
<1>3. /\ Len(h) \in Nat /\ Len(g) = Len(h) + 1 /\ Len(gg) = Len(h) + 1
      /\ g[Len(h) + 1] = b /\ gg[Len(h) + 1] = c
      /\ \A k \in 1..Len(h) : g[k] = h[k] /\ gg[k] = h[k]
  OBVIOUS
<1>4. \A k \in 1..(Len(h) + 1) : g[k] \in Buffer /\ gg[k] \in Buffer
  OBVIOUS
<1> HIDE DEF g, gg
<1>5. \A k \in 1..(Len(h) + 1) : \A i \in 1..Len(g[k].log) : g[k].log[i] < n
  <2> SUFFICES ASSUME NEW k \in 1..(Len(h) + 1), NEW i \in 1..Len(g[k].log)
               PROVE  g[k].log[i] < n
    OBVIOUS
  <2>1. g[k].log[i] \in 1..MaxAppends
    BY <1>4, BufferLog
  <2>2. Contains(g[k].log, g[k].log[i])
    BY Zenon DEF Contains
  <2>3. Kept(g[k].log[i], l, g)
    BY <1>3, <2>2 DEF Kept
  <2> QED
    BY <2>1, <2>3 DEF g
<1>6. \A i \in 1..Len(l) : l[i] < n
  <2> SUFFICES ASSUME NEW i \in 1..Len(l) PROVE l[i] < n
    OBVIOUS
  <2>1. Kept(l[i], l, g)
    BY Zenon DEF Kept, Contains
  <2> QED
    BY <2>1 DEF g
<1>7. InOrder(l, gg)
  <2>1. InOrder(l, g)
    BY DEF g
  <2>2. \A k \in 1..Len(gg) : k \in 1..(Len(h) + 1) /\ (k \in 1..Len(h) \/ k = Len(h) + 1)
    BY <1>3
  <2>3. /\ Increasing(b.log) /\ Precedes(l, b.log)
        /\ \A k \in 1..Len(h) : Increasing(h[k].log) /\ Precedes(l, h[k].log)
    <3>1. Len(h) + 1 \in 1..Len(g) /\ \A k \in 1..Len(h) : k \in 1..Len(g)
      BY <1>3, LastOrBefore
    <3> QED
      BY <2>1, <1>3, <3>1 DEF InOrder
  <2>4. \A k \in 1..Len(h) : Precedes(h[k].log, b.log)
    BY <2>1, <1>3 DEF InOrder
  <2>5. \A k, m \in 1..Len(h) : k < m => Precedes(h[k].log, h[m].log)
    BY <2>1, <1>3 DEF InOrder
  <2>6. Increasing(c.log)
    <3>1. \A i \in 1..Len(b.log) : b.log[i] < n
      BY <1>3, <1>5, LastOrBefore, Zenon
    <3> QED
      BY <1>2, <2>3, <3>1, IncreasingAppend
  <2>7. Precedes(l, c.log)
    BY <1>2, <1>6, <2>3, PrecedesAppend
  <2>8. ASSUME NEW k \in 1..Len(h) PROVE Precedes(h[k].log, c.log)
    <3>1. h[k].log \in Seq(Nat)
      BY BufferLog
    <3>2. \A i \in 1..Len(h[k].log) : h[k].log[i] < n
      BY <1>3, <1>5
    <3> QED
      BY <1>2, <2>4, <3>1, <3>2, PrecedesAppend
  <2>9. \A k \in 1..Len(gg) : Increasing(gg[k].log) /\ Precedes(l, gg[k].log)
    BY <1>3, <2>2, <2>3, <2>6, <2>7
  <2>10. ASSUME NEW k \in 1..Len(gg), NEW m \in 1..Len(gg), k < m
         PROVE  Precedes(gg[k].log, gg[m].log)
    <3>1. k \in 1..Len(h) /\ (m \in 1..Len(h) \/ m = Len(h) + 1)
      BY <1>3, <2>2, <2>10, LastOrBefore
    <3> QED
      BY <1>3, <2>5, <2>8, <2>10, <3>1
  <2> QED
    BY <2>1, <2>9, <2>10 DEF InOrder
<1>8. ASSUME NEW m \in 1..MaxAppends PROVE Kept(m, l, gg) <=> Kept(m, l, g) \/ m = n
  <2>1. Contains(c.log, m) <=> Contains(b.log, m) \/ m = n
    BY <1>2, ContainsAppend
  <2>2. Kept(m, l, gg) <=> \/ Contains(l, m) \/ Contains(c.log, m)
                           \/ \E k \in 1..Len(h) : Contains(h[k].log, m)
    BY <1>3 DEF Kept
  <2>3. Kept(m, l, g) <=> \/ Contains(l, m) \/ Contains(b.log, m)
                          \/ \E k \in 1..Len(h) : Contains(h[k].log, m)
    BY <1>3 DEF Kept
  <2> QED
    BY <2>1, <2>2, <2>3
<1> QED
  BY <1>1, <1>7, <1>8 DEF g, gg

\* An empty buffer at the end adds nothing.
LEMMA EmptyKeepsOrder ==
  ASSUME NEW l \in Seq(Nat), NEW h \in Seq(Buffer), InOrder(l, h)
  PROVE  /\ InOrder(l, Append(h, Empty))
         /\ \A m : Kept(m, l, Append(h, Empty)) <=> Kept(m, l, h)
<1> DEFINE g == Append(h, Empty)
<1>1. /\ Len(h) \in Nat /\ Len(g) = Len(h) + 1 /\ g[Len(h) + 1] = Empty
      /\ \A k \in 1..Len(h) : g[k] = h[k]
  OBVIOUS
<1> HIDE DEF g
<1>2. Empty.log = << >> /\ Len(Empty.log) = 0
  BY DEF Empty
<1>3. /\ Increasing(Empty.log) /\ \A m : ~Contains(Empty.log, m)
      /\ \A s : Precedes(s, Empty.log)
  BY <1>2 DEF Increasing, Precedes, Contains
<1>4. \A k \in 1..Len(g) : k \in 1..Len(h) \/ k = Len(h) + 1
  BY <1>1
<1>5. \A k \in 1..Len(g) : Increasing(g[k].log) /\ Precedes(l, g[k].log)
  BY <1>1, <1>3, <1>4 DEF InOrder
<1>6. ASSUME NEW k \in 1..Len(g), NEW m \in 1..Len(g), k < m
      PROVE  Precedes(g[k].log, g[m].log)
  <2>1. k \in 1..Len(h) /\ (m \in 1..Len(h) \/ m = Len(h) + 1)
    BY <1>1, <1>6, LastOrBefore
  <2> QED
    BY <1>1, <1>3, <1>6, <2>1 DEF InOrder
<1>7. \A m : Kept(m, l, g) <=> Kept(m, l, h)
  <2>1. \A k \in 1..Len(h) : k \in 1..Len(g)
    BY <1>1, LastOrBefore
  <2>2. ASSUME NEW m
        PROVE  (\E k \in 1..Len(g) : Contains(g[k].log, m))
                 <=> \E k \in 1..Len(h) : Contains(h[k].log, m)
    BY <1>1, <1>3, <1>4, <2>1, Zenon
  <2> QED
    BY <2>2 DEF Kept
<1> QED
  BY <1>5, <1>6, <1>7 DEF InOrder, g

\* The back end writes the oldest buffer: its messages come next in the log.
LEMMA WriteKeepsOrder ==
  ASSUME NEW l \in Seq(Nat), NEW h \in Seq(Buffer), NEW g \in Seq(Buffer),
         Len(h) = Len(g) + 1, \A k \in 1..Len(g) : g[k] = h[k + 1],
         InOrder(l, h)
  PROVE  /\ InOrder(l \o h[1].log, g)
         /\ \A m : Kept(m, l \o h[1].log, g) <=> Kept(m, l, h)
<1>1. /\ Len(g) \in Nat /\ 1 \in 1..Len(h) /\ h[1] \in Buffer
      /\ \A k \in 1..Len(g) : k + 1 \in 1..Len(h) /\ 1 < k + 1
  OBVIOUS
<1>2. h[1].log \in Seq(Nat) /\ \A k \in 1..Len(g) : g[k].log \in Seq(Nat)
  BY <1>1, BufferLog
<1>3. Increasing(l \o h[1].log)
  BY <1>1, <1>2, IncreasingConcat DEF InOrder
<1>4. ASSUME NEW k \in 1..Len(g)
      PROVE  Increasing(g[k].log) /\ Precedes(l \o h[1].log, g[k].log)
  <2>1. Increasing(g[k].log) /\ Precedes(l, g[k].log) /\ Precedes(h[1].log, g[k].log)
    BY <1>1 DEF InOrder
  <2> QED
    BY <1>2, <2>1, PrecedesConcat
<1>5. ASSUME NEW k \in 1..Len(g), NEW m \in 1..Len(g), k < m
      PROVE  Precedes(g[k].log, g[m].log)
  <2>1. k + 1 < m + 1
    BY <1>5
  <2> QED
    BY <1>1, <2>1 DEF InOrder
<1>6. ASSUME NEW m PROVE Kept(m, l \o h[1].log, g) <=> Kept(m, l, h)
  <2>1. Contains(l \o h[1].log, m) <=> Contains(l, m) \/ Contains(h[1].log, m)
    BY <1>2, ContainsConcat
  <2>2. \A k \in 1..Len(h) : k = 1 \/ \E j \in 1..Len(g) : k = j + 1
    <3> SUFFICES ASSUME NEW k \in 1..Len(h), k # 1 PROVE \E j \in 1..Len(g) : k = j + 1
      OBVIOUS
    <3>1. k - 1 \in 1..Len(g) /\ k = (k - 1) + 1
      BY <1>1
    <3> QED
      BY <3>1
  <2>3. (\E k \in 1..Len(h) : Contains(h[k].log, m))
          <=> Contains(h[1].log, m) \/ \E j \in 1..Len(g) : Contains(g[j].log, m)
    BY <1>1, <2>2
  <2> QED
    BY <2>1, <2>3 DEF Kept
<1> QED
  BY <1>3, <1>4, <1>5, <1>6 DEF InOrder

\* Dropping buffers keeps the order of the others.
LEMMA DropKeepsOrder ==
  ASSUME NEW l, NEW h \in Seq(Buffer), NEW g \in Seq(Buffer),
         NEW f \in [1..Len(g) -> 1..Len(h)],
         \A k \in 1..Len(g) : g[k] = h[f[k]],
         \A k, m \in 1..Len(g) : k < m => f[k] < f[m],
         InOrder(l, h)
  PROVE  /\ InOrder(l, g)
         /\ \A m : Kept(m, l, g) => Kept(m, l, h)
<1>1. \A k \in 1..Len(g) : f[k] \in 1..Len(h)
  OBVIOUS
<1>2. InOrder(l, g)
  BY <1>1 DEF InOrder
<1>3. \A m : Kept(m, l, g) => Kept(m, l, h)
  BY <1>1 DEF Kept
<1> QED
  BY <1>2, <1>3

-----------------------------------------------------------------------------
\* The buffers of a vector from position w + 1 on.
LEMMA RestOfVec ==
  ASSUME NEW v \in Seq(Buffer), NEW w \in 0..Len(v)
  PROVE  /\ SubSeq(v, w + 1, Len(v)) \in Seq(Buffer)
         /\ Len(SubSeq(v, w + 1, Len(v))) = Len(v) - w
         /\ \A k \in 1..(Len(v) - w) : SubSeq(v, w + 1, Len(v))[k] = v[w + k]
OBVIOUS

\* The elements of two vectors of buffers, one behind the other.
LEMMA BufConcat ==
  ASSUME NEW v \in Seq(Buffer), NEW r \in Seq(Buffer)
  PROVE  /\ v \o r \in Seq(Buffer) /\ Len(v) \in Nat /\ Len(r) \in Nat
         /\ Len(v \o r) = Len(v) + Len(r)
         /\ \A i \in 1..Len(v) : (v \o r)[i] = v[i]
         /\ \A j \in 1..Len(r) : (v \o r)[Len(v) + j] = r[j]
         /\ \A i \in 1..Len(v \o r) :
              \/ i \in 1..Len(v) /\ (v \o r)[i] = v[i]
              \/ \E j \in 1..Len(r) : i = Len(v) + j /\ (v \o r)[i] = r[j]
<1>1. \A i \in 1..Len(v \o r) :
        \/ i \in 1..Len(v) /\ (v \o r)[i] = v[i]
        \/ \E j \in 1..Len(r) : i = Len(v) + j /\ (v \o r)[i] = r[j]
  BY ConcatCases
<1>2. /\ v \o r \in Seq(Buffer) /\ Len(v) \in Nat /\ Len(r) \in Nat
      /\ Len(v \o r) = Len(v) + Len(r)
  OBVIOUS
<1>3. /\ \A i \in 1..Len(v) : (v \o r)[i] = v[i]
      /\ \A j \in 1..Len(r) : (v \o r)[Len(v) + j] = r[j]
  BY ConcatParts
<1> QED
  BY <1>1, <1>2, <1>3, Zenon

\* The overloaded back end cuts the batch w down to its two oldest buffers, v.
LEMMA CutKeepsOrder ==
  ASSUME NEW l, NEW v \in Seq(Buffer), NEW w \in Seq(Buffer), NEW r \in Seq(Buffer),
         Len(v) = 2, Len(w) > 2, \A i \in 1..2 : v[i] = w[i],
         InOrder(l, w \o r)
  PROVE  /\ InOrder(l, v \o r)
         /\ \A m : Kept(m, l, v \o r) => Kept(m, l, w \o r)
<1>1. \A i \in 1..Len(v \o r) :
        \/ i \in 1..Len(v) /\ (v \o r)[i] = v[i]
        \/ \E j \in 1..Len(r) : i = Len(v) + j /\ (v \o r)[i] = r[j]
  BY BufConcat, Zenon
<1>2. Len(v \o r) = Len(v) + Len(r) /\ Len(w \o r) = Len(w) + Len(r)
  <2>1. Len(v \o r) = Len(v) + Len(r)
    BY BufConcat, Zenon
  <2>2. Len(w \o r) = Len(w) + Len(r)
    BY BufConcat, Zenon
  <2> QED
    BY <2>1, <2>2
<1>3. PICK g \in Seq(Buffer), h \in Seq(Buffer) : g = v \o r /\ h = w \o r
  BY BufConcat, Zenon
<1>4. /\ Len(w) \in Nat /\ Len(r) \in Nat
      /\ Len(g) = 2 + Len(r) /\ Len(h) = Len(w) + Len(r)
  BY <1>3, <1>2
<1> DEFINE f == [k \in 1..Len(g) |-> IF k \in 1..2 THEN k ELSE k + (Len(w) - 2)]
<1>5. f \in [1..Len(g) -> 1..Len(h)]
  BY <1>4
<1>6. \A k, m \in 1..Len(g) : k < m => f[k] < f[m]
  BY <1>4
<1>7. ASSUME NEW k \in 1..Len(g) PROVE g[k] = h[f[k]]
  <2>1. \/ k \in 1..Len(v) /\ g[k] = v[k]
        \/ \E j \in 1..Len(r) : k = Len(v) + j /\ g[k] = r[j]
    BY <1>3, <1>1, Zenon
  <2>2. CASE k \in 1..Len(v) /\ g[k] = v[k]
    <3>1. k \in 1..Len(w) /\ f[k] = k /\ k \in 1..2
      BY <1>4, <2>2
    <3>2. h[k] = w[k]
      BY <1>3, <3>1, ConcatParts
    <3> QED
      BY <2>2, <3>1, <3>2
  <2>3. CASE \E j \in 1..Len(r) : k = Len(v) + j /\ g[k] = r[j]
    <3>1. PICK j \in 1..Len(r) : k = Len(v) + j /\ g[k] = r[j]
      BY <2>3
    <3>2. f[k] = Len(w) + j
      BY <1>4, <3>1
    <3>3. h[Len(w) + j] = r[j]
      BY <1>3, ConcatParts
    <3> QED
      BY <3>1, <3>2, <3>3
  <2> QED
    BY <2>1, <2>2, <2>3
<1> HIDE DEF f
<1> QED
  BY <1>3, <1>5, <1>6, <1>7, DropKeepsOrder

\* One buffer less of the batch v has yet to be written.
LEMMA RestShifts ==
  ASSUME NEW v \in Seq(Buffer), NEW w \in Nat, w < Len(v)
  PROVE  \E a \in Seq(Buffer), b \in Seq(Buffer) :
           /\ a = SubSeq(v, w + 1, Len(v)) /\ b = SubSeq(v, (w + 1) + 1, Len(v))
           /\ Len(a) = Len(b) + 1 /\ a[1] = v[w + 1]
           /\ \A k \in 1..Len(b) : b[k] = a[k + 1]
<1>1. w \in 0..Len(v) /\ w + 1 \in 0..Len(v) /\ Len(v) \in Nat
  OBVIOUS
<1>2. PICK a \in Seq(Buffer), b \in Seq(Buffer) :
        a = SubSeq(v, w + 1, Len(v)) /\ b = SubSeq(v, (w + 1) + 1, Len(v))
  BY <1>1, RestOfVec
<1>3. /\ Len(a) = Len(v) - w /\ \A k \in 1..(Len(v) - w) : a[k] = v[w + k]
      /\ Len(b) = Len(v) - (w + 1)
      /\ \A k \in 1..(Len(v) - (w + 1)) : b[k] = v[(w + 1) + k]
  BY <1>1, <1>2, RestOfVec
<1>4. Len(a) = Len(b) + 1 /\ a[1] = v[w + 1]
  BY <1>1, <1>3
<1>5. ASSUME NEW k \in 1..Len(b) PROVE b[k] = a[k + 1]
  <2>1. k + 1 \in 1..(Len(v) - w) /\ w + (k + 1) = (w + 1) + k
    BY <1>1, <1>3
  <2> QED
    BY <1>3, <2>1
<1> QED
  BY <1>2, <1>4, <1>5

\* The same with what the front end holds behind it.
LEMMA ConcatShifts ==
  ASSUME NEW a \in Seq(Buffer), NEW b \in Seq(Buffer), NEW r \in Seq(Buffer),
         Len(a) = Len(b) + 1, \A k \in 1..Len(b) : b[k] = a[k + 1]
  PROVE  /\ a \o r \in Seq(Buffer) /\ b \o r \in Seq(Buffer)
         /\ Len(a \o r) = Len(b \o r) + 1 /\ (a \o r)[1] = a[1]
         /\ \A k \in 1..Len(b \o r) : (b \o r)[k] = (a \o r)[k + 1]
<1>1. /\ Len(a \o r) = Len(a) + Len(r) /\ Len(b \o r) = Len(b) + Len(r)
      /\ Len(b) \in Nat /\ Len(r) \in Nat
      /\ a \o r \in Seq(Buffer) /\ b \o r \in Seq(Buffer)
  BY BufConcat, Zenon
<1>2. /\ \A i \in 1..Len(a) : (a \o r)[i] = a[i]
      /\ \A j \in 1..Len(r) : (a \o r)[Len(a) + j] = r[j]
  BY BufConcat, Zenon
<1>3. \A k \in 1..Len(b \o r) :
        \/ k \in 1..Len(b) /\ (b \o r)[k] = b[k]
        \/ \E j \in 1..Len(r) : k = Len(b) + j /\ (b \o r)[k] = r[j]
  BY BufConcat, Zenon
<1>4. ASSUME NEW k \in 1..Len(b \o r) PROVE (b \o r)[k] = (a \o r)[k + 1]
  <2>2. CASE k \in 1..Len(b) /\ (b \o r)[k] = b[k]
    <3>1. k + 1 \in 1..Len(a)
      BY <1>1, <2>2
    <3> QED
      BY <1>2, <2>2, <3>1
  <2>3. CASE \E j \in 1..Len(r) : k = Len(b) + j /\ (b \o r)[k] = r[j]
    <3>1. PICK j \in 1..Len(r) : k = Len(b) + j /\ (b \o r)[k] = r[j]
      BY <2>3
    <3>2. k + 1 = Len(a) + j
      BY <1>1, <3>1
    <3> QED
      BY <1>2, <3>1, <3>2
  <2> QED
    BY <1>3, <2>2, <2>3
<1>5. 1 \in 1..Len(a)
  BY <1>1
<1> QED
  BY <1>1, <1>2, <1>4, <1>5

\* The whole vector.
LEMMA WholeVec ==
  ASSUME NEW v \in Seq(Buffer)
  PROVE  SubSeq(v, 0 + 1, Len(v)) = v
OBVIOUS

\* Appending to the last of two vectors.
LEMMA ConcatAppend ==
  ASSUME NEW u \in Seq(Buffer), NEW t \in Seq(Buffer), NEW b \in Buffer
  PROVE  /\ u \o Append(t, b) = Append(u \o t, b)
         /\ u \o t \in Seq(Buffer) /\ Append(t, b) \in Seq(Buffer)
         /\ u \o Append(t, b) \in Seq(Buffer)
OBVIOUS

\* The empty vector in a concatenation.
LEMMA EmptyConcat ==
  ASSUME NEW t \in Seq(Buffer)
  PROVE  << >> \o t = t /\ t \o << >> = t
OBVIOUS

\* The buffers that have yet to be written, in a state the hand-off allows.
LEMMA HeldType ==
  ASSUME LoggingInv, BetweenRounds
  PROVE  /\ Unwritten \in Seq(Buffer) /\ transBufVec_ \in Seq(Buffer) /\ cur_ \in Buffer
         /\ Held = Append(Unwritten \o transBufVec_, cur_)
         /\ Unwritten \o transBufVec_ \in Seq(Buffer)
         /\ Held \in Seq(Buffer)
         /\ pc \in {"overload", "write"} => /\ needToWriteBufVec_ \in Seq(Buffer)
                                            /\ written \in 0..Len(needToWriteBufVec_)
<1>1. transBufVec_ \in Seq(Buffer) /\ cur_ \in Buffer
  <2>1. transBufVec_ \in Seq(Buffer \cup {Null}) /\ Live(transBufVec_)
    BY DEF LoggingInv, TypeOK, HandOff, FrontEndOK
  <2>2. cur_ \in Buffer
    BY DEF LoggingInv, TypeOK, HandOff, FrontEndOK
  <2> QED
    BY <2>1, <2>2, LiveVec
<1>2. ASSUME pc \in {"overload", "write"}
      PROVE  /\ needToWriteBufVec_ \in Seq(Buffer)
             /\ written \in 0..Len(needToWriteBufVec_)
  <2>1. needToWriteBufVec_ \in Seq(Buffer \cup {Null}) /\ Live(needToWriteBufVec_)
    BY <1>2 DEF LoggingInv, TypeOK, HandOff, BatchOK
  <2>2. written \in Nat /\ written <= Len(needToWriteBufVec_)
    BY <1>2, <2>1 DEF BetweenRounds, LoggingInv, TypeOK
  <2> QED
    BY <2>1, <2>2, LiveVec
<1>3. Unwritten \in Seq(Buffer)
  BY <1>2, RestOfVec DEF Unwritten
<1> QED
  BY <1>1, <1>2, <1>3, ConcatAppend DEF Held

\* What the log holds.
LEMMA LoggedType ==
  ASSUME LoggingInv
  PROVE  logged \in Seq(Nat) /\ \A i \in 1..Len(logged) : logged[i] \in 1..MaxAppends
<1>1. logged \in Seq(1..MaxAppends)
  BY DEF LoggingInv, TypeOK
<1>2. PICK s \in Seq(1..MaxAppends) : s = logged
  BY <1>1
<1>3. s \in Seq(Nat) /\ \A i \in 1..Len(s) : s[i] \in 1..MaxAppends
  BY MaxAppendsAssumption
<1> QED
  BY <1>2, <1>3

\* An empty object has no messages.
LEMMA ConservationInit == Init => Conservation
<1> SUFFICES ASSUME Init PROVE Conservation
  OBVIOUS
<1>1. BetweenRounds
  BY DEF Init, BetweenRounds
<1>2. Held = <<Empty>>
  BY DEF Init, Held, Unwritten
<1>3. InOrder(logged, Held) /\ \A n : ~Kept(n, logged, Held)
  <2>1. << >> \in Seq(Nat) /\ << >> \in Seq(Buffer) /\ Append(<< >>, Empty) = <<Empty>>
    OBVIOUS
  <2>2. InOrder(<< >>, << >>) /\ \A n : ~Kept(n, << >>, << >>)
    BY DEF InOrder, Kept, Increasing, Contains
  <2>3. /\ InOrder(<< >>, Append(<< >>, Empty))
        /\ \A m : Kept(m, << >>, Append(<< >>, Empty)) <=> Kept(m, << >>, << >>)
    BY <2>1, <2>2, EmptyKeepsOrder
  <2> QED
    BY <1>2, <2>1, <2>2, <2>3 DEF Init
<1> QED
  BY <1>1, <1>3 DEF Init, Conservation

\* A step that moves no message.
LEMMA QuietKeepsConservation ==
  ASSUME Conservation, BetweenRounds', Held' = Held,
         UNCHANGED <<logged, appended, discarded>>,
         dropped => dropped',
         pc' \in {"while", "wait", "exit"} => flushed' = Len(logged')
  PROVE  Conservation'
BY DEF Conservation, Discarded

\* append stores message number appended + 1 in the last buffer.
LEMMA StoreKeepsConservation ==
  ASSUME LoggingInv, Conservation, BetweenRounds',
         appended < MaxAppends, appended' = appended + 1,
         UNCHANGED <<discarded, backend>>,
         InOrder(logged', Held'),
         \A m \in 1..MaxAppends :
           Kept(m, logged', Held') <=> Kept(m, logged, Held) \/ m = appended + 1
  PROVE  Conservation'
<1>1. appended \in 0..MaxAppends /\ MaxAppends \in Nat
  BY MaxAppendsAssumption DEF LoggingInv, TypeOK
<1>2. \A n : Discarded(n)' <=> Discarded(n)
  BY DEF Discarded
<1>3. ~Discarded(appended + 1)
  BY <1>1 DEF Conservation, Discarded
<1>4. \A n \in 1..MaxAppends : Kept(n, logged', Held') => n <= appended' /\ ~Discarded(n)'
  BY <1>1, <1>2, <1>3 DEF Conservation
<1>5. ASSUME ~dropped', NEW n \in 1..(appended')
      PROVE  Discarded(n)' \/ Kept(n, logged', Held')
  <2>1. n \in 1..MaxAppends /\ (n \in 1..appended \/ n = appended + 1) /\ ~dropped
    BY <1>1, <1>5 DEF backend
  <2> QED
    BY <1>2, <2>1 DEF Conservation
<1>6. \A d \in discarded' : d.len = Size - 1 /\ d.n <= appended'
  <2> SUFFICES ASSUME NEW d \in discarded PROVE d.len = Size - 1 /\ d.n <= appended'
    OBVIOUS
  <2>1. d.n \in 1..MaxAppends
    BY DEF LoggingInv, TypeOK
  <2> QED
    BY <1>1, <2>1 DEF Conservation
<1>7. pc' \in {"while", "wait", "exit"} => flushed' = Len(logged')
  BY DEF Conservation, backend
<1> QED
  BY <1>4, <1>5, <1>6, <1>7 DEF Conservation

\* append throws away message number appended + 1.
LEMMA DiscardKeepsConservation ==
  ASSUME LoggingInv, Conservation, BetweenRounds',
         appended < MaxAppends, appended' = appended + 1,
         UNCHANGED backend,
         discarded' = discarded \cup {[n |-> appended + 1, len |-> Size - 1]},
         InOrder(logged', Held'),
         \A m \in 1..MaxAppends : Kept(m, logged', Held') <=> Kept(m, logged, Held)
  PROVE  Conservation'
<1>1. appended \in 0..MaxAppends /\ MaxAppends \in Nat
  BY MaxAppendsAssumption DEF LoggingInv, TypeOK
<1>2. \A n : Discarded(n)' <=> Discarded(n) \/ n = appended + 1
  <2>0. PICK e : e = [n |-> appended + 1, len |-> Size - 1]
    OBVIOUS
  <2>1. e = [n |-> appended + 1, len |-> Size - 1] /\ e.n = appended + 1
    BY <2>0
  <2>2. \A d : d \in discarded' <=> d \in discarded \/ d = e
    BY <2>1
  <2> QED
    BY <2>1, <2>2, Zenon DEF Discarded
<1>4. \A n \in 1..MaxAppends : Kept(n, logged', Held') => n <= appended' /\ ~Discarded(n)'
  BY <1>1, <1>2 DEF Conservation
<1>5. ASSUME ~dropped', NEW n \in 1..(appended')
      PROVE  Discarded(n)' \/ Kept(n, logged', Held')
  <2>1. n \in 1..MaxAppends /\ (n \in 1..appended \/ n = appended + 1) /\ ~dropped
    BY <1>1, <1>5 DEF backend
  <2> QED
    BY <1>2, <2>1 DEF Conservation
<1>6. \A d \in discarded' : d.len = Size - 1 /\ d.n <= appended'
  <2> SUFFICES ASSUME NEW d \in discarded PROVE d.len = Size - 1 /\ d.n <= appended'
    BY <1>1
  <2>1. d.n \in 1..MaxAppends
    BY DEF LoggingInv, TypeOK
  <2> QED
    BY <1>1, <2>1 DEF Conservation
<1>7. pc' \in {"while", "wait", "exit"} => flushed' = Len(logged')
  BY DEF Conservation, backend
<1> QED
  BY <1>4, <1>5, <1>6, <1>7 DEF Conservation

\* append in a state where cur_ has room, and where it has not.
LEMMA AppendConserves ==
  ASSUME LoggingInv, Conservation, NEW len \in Lengths, AppendMessage(len)
  PROVE  Conservation'
<1> DEFINE n == appended + 1
<1>1. /\ appended < MaxAppends /\ appended' = n /\ n \in 1..MaxAppends
      /\ appended \in 0..MaxAppends
      /\ UNCHANGED backend
  BY MaxAppendsAssumption DEF AppendMessage, LoggingInv, TypeOK
<1>2. /\ Unwritten \in Seq(Buffer) /\ transBufVec_ \in Seq(Buffer) /\ cur_ \in Buffer
      /\ Held = Append(Unwritten \o transBufVec_, cur_)
      /\ Unwritten \o transBufVec_ \in Seq(Buffer)
      /\ Held \in Seq(Buffer)
  BY HeldType DEF Conservation
<1>3. logged \in Seq(Nat) /\ \A i \in 1..Len(logged) : logged[i] \in 1..MaxAppends
  BY LoggedType
<1>4. /\ InOrder(logged, Held)
      /\ \A m \in 1..MaxAppends : Kept(m, logged, Held) => m < n
  BY <1>1, MaxAppendsAssumption DEF Conservation
<1>5. Unwritten' = Unwritten /\ logged' = logged
  BY <1>1 DEF Unwritten, backend
<1>6. CASE AppendFits(len)
  <2>1. /\ cur_' = BufAppend(cur_, n, len) /\ Fits(cur_, len)
        /\ UNCHANGED <<prv_, transBufVec_, discarded>>
    BY <1>1, <1>6 DEF AppendFits
  <2>2. BufAppend(cur_, n, len) \in Buffer
    BY <1>1, <1>2, <2>1, BufAppendType
  <2>3. Held' = Append(Unwritten \o transBufVec_, BufAppend(cur_, n, len))
    BY <1>2, <1>5, <2>1, <2>2, ConcatAppend DEF Held
  <2>4. /\ InOrder(logged, Held')
        /\ \A m \in 1..MaxAppends : Kept(m, logged, Held') <=> Kept(m, logged, Held) \/ m = n
    BY <1>1, <1>2, <1>3, <1>4, <2>2, <2>3, PushKeepsOrder
  <2>5. BetweenRounds'
    BY <1>1, <2>1 DEF Conservation, BetweenRounds, backend
  <2> QED
    BY <1>1, <1>5, <2>1, <2>4, <2>5, StoreKeepsConservation
<1>7. CASE AppendSpills(len)
  <2>1. /\ transBufVec_' = Append(transBufVec_, cur_) /\ prv_' = Null
        /\ \/ /\ Fits(Empty, len) /\ UNCHANGED discarded
              /\ cur_' = BufAppend(Empty, n, len)
           \/ /\ ~Fits(Empty, len)
              /\ cur_' = Empty
              /\ discarded' = discarded \cup {[n |-> n, len |-> len]}
    <3>1. (IF prv_ # Null THEN prv_ ELSE Empty) = Empty
      BY DEF Conservation, BetweenRounds
    <3> QED
      BY <1>1, <1>7, <3>1 DEF AppendSpills
  <2>2. BetweenRounds'
    BY <1>1, <2>1 DEF Conservation, BetweenRounds, backend
  <2>3. ASSUME cur_' \in Buffer PROVE Held' = Append(Held, cur_')
    <3>1. Append(transBufVec_, cur_) \in Seq(Buffer)
      BY <1>2
    <3>2. Unwritten \o Append(transBufVec_, cur_) = Held
      BY DEF Held
    <3>3. Held' = Unwritten \o Append(Append(transBufVec_, cur_), cur_')
      BY <1>5, <2>1 DEF Held
    <3>4. PICK b \in Buffer : b = cur_'
      BY <2>3
    <3>5. Unwritten \o Append(Append(transBufVec_, cur_), b)
            = Append(Unwritten \o Append(transBufVec_, cur_), b)
      <4>1. PICK u \in Seq(Buffer), t \in Seq(Buffer) :
              u = Unwritten /\ t = Append(transBufVec_, cur_)
        BY <1>2, <3>1
      <4>2. u \o Append(t, b) = Append(u \o t, b)
        BY ConcatAppend
      <4> QED
        BY <4>1, <4>2
    <3> QED
      BY <3>2, <3>3, <3>4, <3>5, Zenon
  <2>4. /\ InOrder(logged, Append(Held, Empty))
        /\ \A m : Kept(m, logged, Append(Held, Empty)) <=> Kept(m, logged, Held)
    BY <1>2, <1>3, <1>4, EmptyKeepsOrder
  <2>5. CASE /\ Fits(Empty, len) /\ UNCHANGED discarded
             /\ cur_' = BufAppend(Empty, n, len)
    <3>1. BufAppend(Empty, n, len) \in Buffer
      BY <1>1, <2>5, EmptyIsBuffer, BufAppendType
    <3>2. Held' = Append(Held, BufAppend(Empty, n, len))
      BY <2>3, <2>5, <3>1
    <3>3. \A m \in 1..MaxAppends : Kept(m, logged, Append(Held, Empty)) => m < n
      BY <1>4, <2>4
    <3>4. /\ InOrder(logged, Held')
          /\ \A m \in 1..MaxAppends :
               Kept(m, logged, Held') <=> Kept(m, logged, Append(Held, Empty)) \/ m = n
      <4>1. PICK h \in Seq(Buffer) : h = Held
        BY <1>2
      <4>2. PICK b \in Buffer : b = Empty
        BY EmptyIsBuffer
      <4>3. /\ InOrder(logged, Append(h, BufAppend(b, n, len)))
            /\ \A m \in 1..MaxAppends :
                 Kept(m, logged, Append(h, BufAppend(b, n, len)))
                   <=> Kept(m, logged, Append(h, b)) \/ m = n
        BY <1>1, <1>3, <2>4, <3>1, <3>3, <4>1, <4>2, PushKeepsOrder
      <4> QED
        BY <3>2, <4>1, <4>2, <4>3
    <3> QED
      BY <1>1, <1>5, <2>2, <2>4, <2>5, <3>4, StoreKeepsConservation
  <2>6. CASE /\ ~Fits(Empty, len)
             /\ cur_' = Empty
             /\ discarded' = discarded \cup {[n |-> n, len |-> len]}
    <3>1. len = Size - 1
      BY <2>6, LengthsAssumption, SizeAssumption DEF Fits, avail, Empty
    <3>2. Held' = Append(Held, Empty)
      BY <2>3, <2>6, EmptyIsBuffer
    <3> QED
      BY <1>1, <1>5, <2>2, <2>4, <2>6, <3>1, <3>2, DiscardKeepsConservation
  <2> QED
    BY <2>1, <2>5, <2>6
<1> QED
  BY <1>6, <1>7 DEF AppendMessage

\* The exchange moves the buffers to the batch, and a spare one, which is empty,
\* takes the place of cur_.
LEMMA ExchangeConserves ==
  ASSUME LoggingInv, Conservation, Exchange
  PROVE  Conservation'
<1>1. /\ transBufVec_ \in Seq(Buffer) /\ cur_ \in Buffer /\ Held \in Seq(Buffer)
      /\ Append(transBufVec_, cur_) \in Seq(Buffer)
  BY HeldType, ConcatAppend DEF Conservation
<1>2. newBuf_1 = Empty /\ needToWriteBufVec_ = << >>
  BY DEF LoggingInv, HandOff, SparesOK, Exchange, Conservation, BetweenRounds
<1>3. Held = Append(transBufVec_, cur_)
  BY <1>1, EmptyConcat DEF Held, Unwritten, Exchange
<1>4. Held' = Append(Held, Empty)
  <2>1. /\ pc' = "overload" /\ written' = 0 /\ needToWriteBufVec_' = Held
        /\ transBufVec_' = << >> /\ cur_' = Empty
    BY <1>2, <1>3 DEF Exchange
  <2>2. Unwritten' = Held
    BY <1>1, <2>1, WholeVec DEF Unwritten
  <2>3. Held \o Append(<< >>, Empty) = Append(Held, Empty)
    <3>1. PICK h \in Seq(Buffer) : h = Held
      BY <1>1
    <3>2. h \o Append(<< >>, Empty) = Append(h, Empty)
      BY EmptyIsBuffer
    <3> QED
      BY <3>1, <3>2
  <2> QED
    BY <2>1, <2>2, <2>3 DEF Held
<1>5. /\ InOrder(logged, Held')
      /\ \A m : Kept(m, logged, Held') <=> Kept(m, logged, Held)
  BY <1>1, <1>4, LoggedType, EmptyKeepsOrder DEF Conservation
<1>6. BetweenRounds'
  BY DEF Conservation, BetweenRounds, Exchange
<1>7. /\ UNCHANGED <<logged, appended, discarded, dropped>> /\ pc' = "overload"
  BY DEF Exchange
<1>8. \A m : Discarded(m)' <=> Discarded(m)
  BY <1>7 DEF Discarded
<1> QED
  BY <1>5, <1>6, <1>7, <1>8 DEF Conservation

\* An overloaded back end keeps the two oldest buffers of its batch; the others
\* are lost, and the rest stays in order.
LEMMA OverloadConserves ==
  ASSUME LoggingInv, Conservation, Overload
  PROVE  Conservation'
<1> DEFINE need == needToWriteBufVec_
           rest == Append(transBufVec_, cur_)
<1>1. /\ need \in Seq(Buffer) /\ rest \in Seq(Buffer) /\ written = 0
      /\ pc = "overload" /\ pc' = "write" /\ written' = 0 /\ rest' = rest
      /\ UNCHANGED <<logged, appended, discarded>>
  BY HeldType, ConcatAppend DEF Conservation, BetweenRounds, Overload, frontend
<1>2. Held = need \o rest
  BY <1>1, WholeVec DEF Held, Unwritten
<1>3. CASE Len(need) >= Limit
  <2>1. Len(need) > 2 /\ Len(need) \in Nat
    BY <1>1, <1>3, LimitAssumption
  <2>2. /\ need' = resize(need, 2) /\ dropped' = TRUE
        /\ UNCHANGED <<newBuf_1, newBuf_2, prv_, flushed>>
    BY <1>3 DEF Overload, frontend
  <2>3. PICK v \in Seq(Buffer) : v = need'
    <3>1. resize(need, 2) \in Seq(Buffer)
      BY <1>1, <2>1, ResizeType
    <3> QED
      BY <2>2, <3>1
  <2>4. Len(v) = 2 /\ \A i \in 1..2 : v[i] = need[i]
    <3>1. 2 \in 0..Len(need)
      BY <2>1
    <3>2. Len(resize(need, 2)) = 2 /\ \A i \in 1..2 : resize(need, 2)[i] = need[i]
      BY <1>1, <3>1, ResizeType
    <3> QED
      BY <2>2, <2>3, <3>2
  <2>5. Held' = v \o rest
    BY <1>1, <2>3, WholeVec DEF Held, Unwritten
  <2>6. BetweenRounds'
    BY <1>1, <2>2, <2>3, <2>4 DEF Conservation, BetweenRounds
  <2>7. /\ InOrder(logged, v \o rest)
        /\ \A m : Kept(m, logged, v \o rest) => Kept(m, logged, need \o rest)
    <3>1. PICK w \in Seq(Buffer), r \in Seq(Buffer) : w = need /\ r = rest
      BY <1>1
    <3>2. InOrder(logged, w \o r)
      BY <1>2, <3>1 DEF Conservation
    <3>3. /\ Len(w) > 2 /\ Len(w) \in Nat /\ Len(r) \in Nat
          /\ \A i \in 1..2 : v[i] = w[i]
      BY <2>1, <2>4, <3>1
    <3> QED
      BY <2>4, <3>1, <3>2, <3>3, CutKeepsOrder
  <2>8. \A m : Discarded(m)' <=> Discarded(m)
    BY <1>1 DEF Discarded
  <2> QED
    BY <1>1, <1>2, <2>2, <2>5, <2>6, <2>7, <2>8 DEF Conservation
<1>4. CASE ~(Len(need) >= Limit)
  <2>1. /\ need' = need /\ dropped' = dropped
        /\ UNCHANGED <<newBuf_1, newBuf_2, prv_, flushed>>
    BY <1>4 DEF Overload, frontend, LoggingInv, TypeOK
  <2>2. Held' = Held
    BY <1>1, <2>1 DEF Held, Unwritten
  <2>3. BetweenRounds'
    BY <1>1, <2>1 DEF Conservation, BetweenRounds
  <2> QED
    BY <1>1, <2>1, <2>2, <2>3, QuietKeepsConservation
<1> QED
  BY <1>3, <1>4

\* The oldest buffer of the batch goes to the log.
LEMMA WriteConserves ==
  ASSUME LoggingInv, Conservation, WriteBuffer
  PROVE  Conservation'
<1> DEFINE need == needToWriteBufVec_
           rest == Append(transBufVec_, cur_)
<1>1. /\ need \in Seq(Buffer) /\ rest \in Seq(Buffer) /\ written \in 0..Len(need)
      /\ Held \in Seq(Buffer) /\ logged \in Seq(Nat)
      /\ pc = "write" /\ pc' = "write" /\ written < Len(need) /\ written' = written + 1
      /\ need' = need /\ rest' = rest
      /\ logged' = logged \o need[written + 1].log
      /\ UNCHANGED <<appended, discarded, dropped, newBuf_1, newBuf_2, prv_>>
  BY HeldType, ConcatAppend, LoggedType DEF Conservation, WriteBuffer, frontend
<1>2. written \in Nat
  BY <1>1
<1>3. PICK a \in Seq(Buffer), b \in Seq(Buffer) :
        /\ a = SubSeq(need, written + 1, Len(need))
        /\ b = SubSeq(need, (written + 1) + 1, Len(need))
        /\ Len(a) = Len(b) + 1 /\ a[1] = need[written + 1]
        /\ \A k \in 1..Len(b) : b[k] = a[k + 1]
  <2>1. PICK v \in Seq(Buffer), w \in Nat : v = need /\ w = written /\ w < Len(v)
    BY <1>1, <1>2
  <2>2. \E a \in Seq(Buffer), b \in Seq(Buffer) :
          /\ a = SubSeq(v, w + 1, Len(v)) /\ b = SubSeq(v, (w + 1) + 1, Len(v))
          /\ Len(a) = Len(b) + 1 /\ a[1] = v[w + 1]
          /\ \A k \in 1..Len(b) : b[k] = a[k + 1]
    BY <2>1, RestShifts, Zenon
  <2> QED
    BY <2>1, <2>2, Zenon
<1>4. Held = a \o rest /\ Held' = b \o rest
  BY <1>1, <1>3 DEF Held, Unwritten
<1>5. PICK h \in Seq(Buffer), g \in Seq(Buffer) :
        /\ h = Held /\ g = Held'
        /\ Len(h) = Len(g) + 1 /\ h[1] = a[1]
        /\ \A k \in 1..Len(g) : g[k] = h[k + 1]
  <2> HIDE DEF rest
  <2>1. /\ a \o rest \in Seq(Buffer) /\ b \o rest \in Seq(Buffer)
        /\ Len(a \o rest) = Len(b \o rest) + 1 /\ (a \o rest)[1] = a[1]
        /\ \A k \in 1..Len(b \o rest) : (b \o rest)[k] = (a \o rest)[k + 1]
    <3>1. PICK r \in Seq(Buffer) : r = rest
      BY <1>1
    <3>2. /\ a \o r \in Seq(Buffer) /\ b \o r \in Seq(Buffer)
          /\ Len(a \o r) = Len(b \o r) + 1 /\ (a \o r)[1] = a[1]
          /\ \A k \in 1..Len(b \o r) : (b \o r)[k] = (a \o r)[k + 1]
      <4>1. Len(a) = Len(b) + 1
        BY <1>3
      <4>2. \A k \in 1..Len(b) : b[k] = a[k + 1]
        BY <1>3
      <4> QED
        BY ONLY <4>1, <4>2, a \in Seq(Buffer), b \in Seq(Buffer), r \in Seq(Buffer),
                ConcatShifts
    <3> QED
      BY <3>1, <3>2
  <2> QED
    BY <1>4, <2>1, Zenon
<1>7. /\ InOrder(logged', Held')
      /\ \A m : Kept(m, logged', Held') <=> Kept(m, logged, Held)
  <2>1. InOrder(logged, h)
    BY <1>5 DEF Conservation
  <2>2. logged' = logged \o h[1].log
    BY <1>1, <1>3, <1>5
  <2>3. PICK l \in Seq(Nat) : l = logged
    BY <1>1
  <2>4. /\ InOrder(l \o h[1].log, g)
        /\ \A m : Kept(m, l \o h[1].log, g) <=> Kept(m, l, h)
    BY <1>5, <2>1, <2>3, WriteKeepsOrder
  <2> QED
    BY <1>5, <2>2, <2>3, <2>4
<1>8. BetweenRounds'
  BY <1>1 DEF Conservation, BetweenRounds
<1>6. \A m : Discarded(m)' <=> Discarded(m)
  BY <1>1 DEF Discarded
<1> QED
  BY <1>1, <1>6, <1>7, <1>8 DEF Conservation

\* Every step conserves the messages.
LEMMA ConservationStep == LoggingInv /\ Conservation /\ [Next]_vars => Conservation'
<1> SUFFICES ASSUME LoggingInv, Conservation, [Next]_vars PROVE Conservation'
  OBVIOUS
<1>1. CASE \E len \in Lengths : AppendMessage(len)
  BY <1>1, AppendConserves
<1>2. CASE While
  <2>1. Held' = Held
    BY <1>2 DEF While, Held, Unwritten, frontend
  <2>2. BetweenRounds'
    BY <1>2 DEF While, Conservation, BetweenRounds, frontend
  <2>3. /\ UNCHANGED <<logged, appended, discarded, dropped>>
        /\ flushed' = Len(logged')
    BY <1>2 DEF While, Conservation, frontend
  <2> QED
    BY <2>1, <2>2, <2>3, QuietKeepsConservation
<1>3. CASE Exchange
  BY <1>3, ExchangeConserves
<1>4. CASE Overload
  BY <1>4, OverloadConserves
<1>5. CASE WriteBuffer
  BY <1>5, WriteConserves
<1>6. CASE Trim
  <2>1. Held' = Held
    <3>1. Unwritten = << >>
      <4>1. needToWriteBufVec_ \in Seq(Buffer) /\ written = Len(needToWriteBufVec_)
        BY <1>6, HeldType DEF Trim, Conservation
      <4>2. PICK v \in Seq(Buffer) : v = needToWriteBufVec_
        BY <4>1
      <4>3. SubSeq(v, Len(v) + 1, Len(v)) = << >>
        OBVIOUS
      <4> QED
        BY <1>6, <4>1, <4>2, <4>3 DEF Unwritten, Trim
    <3>2. Unwritten' = << >>
      BY <1>6 DEF Unwritten, Trim
    <3> QED
      BY <1>6, <3>1, <3>2 DEF Trim, Held, frontend
  <2>2. BetweenRounds'
    BY <1>6 DEF Trim, Conservation, BetweenRounds, frontend
  <2>3. UNCHANGED <<logged, appended, discarded, dropped>> /\ pc' = "refill"
    BY <1>6 DEF Trim, frontend
  <2> QED
    BY <2>1, <2>2, <2>3, QuietKeepsConservation
<1>7. CASE Refill
  <2>1. Held' = Held
    BY <1>7 DEF Refill, Held, Unwritten, frontend
  <2>2. BetweenRounds'
    <3>1. \A b : reset(b) = Empty
      BY DEF reset, Empty
    <3>2. newBuf_1' \in {Null, Empty} /\ newBuf_2' \in {Null, Empty}
      BY <1>7, <3>1 DEF Refill, Conservation, BetweenRounds
    <3> QED
      BY <1>7, <3>2 DEF Refill, Conservation, BetweenRounds, frontend
  <2>3. /\ UNCHANGED <<logged, appended, discarded, dropped>>
        /\ flushed' = Len(logged')
    BY <1>7 DEF Refill, frontend
  <2> QED
    BY <2>1, <2>2, <2>3, QuietKeepsConservation
<1>8. CASE UNCHANGED <<frontend, backend>>
  BY <1>8, QuietKeepsConservation
  DEF Conservation, BetweenRounds, Held, Unwritten, frontend, backend
<1> QED
  BY <1>1, <1>2, <1>3, <1>4, <1>5, <1>6, <1>7, <1>8
  DEF Next, Backend, DtorStop, DtorJoin, Destroyed, vars

\* No message is lost, duplicated or reordered between append and the log file, for
\* any buffer size, message lengths and number of messages, except those of SIZE - 1
\* characters (which append throws away) and those of an overloaded back end.
THEOREM ConservationAlways == Spec => []Conservation
<1>1. Init => LoggingInv /\ Conservation
  BY HandOffInit, ConservationInit
<1>2. LoggingInv /\ Conservation /\ [Next]_vars => (LoggingInv /\ Conservation)'
  BY HandOffStep, ConservationStep
<1> QED
  BY <1>1, <1>2, PTL DEF Spec
=============================================================================
