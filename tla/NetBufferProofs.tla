-------------------------- MODULE NetBufferProofs ---------------------------
(***************************************************************************)
(* Proofs about NetBuffer for every initial size, every chunk size and     *)
(* every set of message lengths.                                           *)
(***************************************************************************)
EXTENDS NetBuffer, TLAPS

\* The memory is as large as alloc_ says, and is not full, except inside
\* expansion(), where it still holds everything below w_; a message that is
\* about to be copied leaves room for at least one more byte.
Room ==
  /\ pc # "expand" => DOMAIN buf_ = 0..(alloc_ - 1) /\ writeable > 0
  /\ pc = "expand" => \A i \in 0..(w_ - 1) : i \in DOMAIN buf_
  /\ pc = "copy" => need < writeable

\* TypeOK and Room together are inductive: TypeOK alone does not know that
\* append has made room, nor that read returns no more than fits.
IndInv == TypeOK /\ Room

\* A new buffer has room.
LEMMA InitRoom == Init => IndInv
BY InitSizeAssumption DEF Init, IndInv, TypeOK, Room, writeable

\* What checkCapcity does to a memory b of alloc_ bytes with the write index end.
LEMMA CapacityRoom ==
  ASSUME IndInv, NEW STATE b, NEW STATE end, end \in 0..alloc_, r_ <= end,
         DOMAIN b = 0..(alloc_ - 1),
         NEW STATE len, len \in Nat, NEW CONSTANT ret \in {"copy", "read"},
         checkCapcity(b, end, len, ret), alloc_' = alloc_
  PROVE  /\ w_' \in 0..alloc_' /\ r_' \in 0..w_'
         /\ need' = len /\ back' = ret /\ pc' \in {"expand", ret}
         /\ Room'
<1>1. need' = len /\ back' = ret /\ pc' \in {"expand", ret}
  BY DEF checkCapcity
<1>2. w_' \in 0..alloc_' /\ r_' \in 0..w_'
  BY DEF checkCapcity, IndInv, TypeOK
<1>3. DOMAIN buf_' = 0..(alloc_ - 1)
  BY DEF checkCapcity, Moved
<1>4. PICK k \in 0..alloc_ : k = w_'
  BY <1>2
<1>5. alloc_ \in Nat /\ len \in Nat
  BY DEF IndInv, TypeOK
<1>6. pc' # "expand" => ~(alloc_ - k <= len)
  BY <1>4 DEF checkCapcity
<1>7. pc' # "expand" => alloc_ - k > 0 /\ len < alloc_ - k
  BY <1>5, <1>6
<1>8. \A i \in 0..(k - 1) : i \in 0..(alloc_ - 1)
  BY <1>5
<1>9. Room'
  BY <1>1, <1>3, <1>4, <1>7, <1>8 DEF Room, writeable
<1> QED BY <1>1, <1>2, <1>9

\* Every step keeps the room that the next one relies on.
LEMMA NextRoom == IndInv /\ [Next]_vars => IndInv'
<1> SUFFICES ASSUME IndInv, [Next]_vars PROVE IndInv'
  OBVIOUS
<1> USE InitSizeAssumption, ChunkAssumption, LengthsAssumption, OffsetsAssumption
<1>1. CASE Append
  <2>1. PICK len \in Lengths : checkCapcity(buf_, w_, len, "copy")
    BY <1>1 DEF Append
  <2>2. DOMAIN buf_ = 0..(alloc_ - 1) /\ alloc_' = alloc_
    BY <1>1 DEF Append, IndInv, Room
  <2>3. len \in Nat /\ w_ \in 0..alloc_ /\ r_ <= w_
    BY DEF IndInv, TypeOK
  <2> QED BY <1>1, <2>1, <2>2, <2>3, CapacityRoom DEF Append, IndInv, TypeOK, reading
<1>2. CASE Copy
  BY <1>2 DEF Copy, Filled, IndInv, TypeOK, Room, writeable, reading
<1>3. CASE Expansion
  <2>1. CASE writeable <= need
    BY <1>3, <2>1 DEF Expansion, IndInv, TypeOK, Room, writeable, reading
  <2>2. CASE ~(writeable <= need)
    BY <1>3, <2>2 DEF Expansion, IndInv, TypeOK, Room, writeable, reading
  <2> QED BY <2>1, <2>2
<1>4. CASE Retrieve
  BY <1>4 DEF Retrieve, IndInv, TypeOK, Room, readable, writeable, reading
<1>5. CASE RetrieveAll
  BY <1>5 DEF RetrieveAll, IndInv, TypeOK, Room, readable, writeable, reading
<1>6. CASE ReadFd
  BY <1>6 DEF ReadFd, IndInv, TypeOK, Room, writeable, indices
<1>7. CASE ReadSome
  <2>1. PICK n \in 1..writeable :
          /\ getSize' = n /\ given' = given + n
          /\ IF 5 * (alloc_ - (w_ + n)) <= alloc_
             THEN checkCapcity(Filled(n, ReadFrom), w_ + n, Chunk, "read")
             ELSE /\ buf_' = Filled(n, ReadFrom)
                  /\ w_' = w_ + n
                  /\ UNCHANGED <<r_, pc, need, back>>
    BY <1>7 DEF ReadSome
  <2>2. /\ DOMAIN Filled(n, ReadFrom) = 0..(alloc_ - 1)
        /\ w_ + n \in 0..alloc_ /\ r_ <= w_ + n
        /\ n \in Nat /\ alloc_' = alloc_
    BY <1>7 DEF ReadSome, Filled, IndInv, TypeOK, Room, writeable
  <2>3. CASE 5 * (alloc_ - (w_ + n)) <= alloc_
    <3>1. checkCapcity(Filled(n, ReadFrom), w_ + n, Chunk, "read")
      BY <2>1, <2>3
    <3>2. Chunk \in Nat /\ "read" \in {"copy", "read"}
      OBVIOUS
    <3>3. /\ w_' \in 0..alloc_' /\ r_' \in 0..w_'
          /\ need' = Chunk /\ back' = "read" /\ pc' \in {"expand", "read"}
          /\ Room'
      BY <2>2, <3>1, <3>2, CapacityRoom, Zenon
    <3> QED BY <1>7, <2>1, <2>2, <3>2, <3>3 DEF ReadSome, IndInv, TypeOK
  <2>4. CASE ~(5 * (alloc_ - (w_ + n)) <= alloc_)
    BY <1>7, <2>1, <2>2, <2>4 DEF ReadSome, IndInv, TypeOK, Room, writeable
  <2> QED BY <2>3, <2>4
<1>8. CASE ReadEnds
  BY <1>8 DEF ReadEnds, IndInv, TypeOK, Room, writeable, indices, reading
<1>9. CASE UNCHANGED vars
  BY <1>9 DEF vars, indices, reading, IndInv, TypeOK, Room, writeable
<1> QED
  BY <1>1, <1>2, <1>3, <1>4, <1>5, <1>6, <1>7, <1>8, <1>9 DEF Next

\* So there is always room.
LEMMA RoomAlways == Spec => []IndInv
<1>1. IndInv /\ [Next]_vars => IndInv'
  BY NextRoom
<1> QED BY InitRoom, <1>1, PTL DEF Spec

\* The indices stay in order and inside the capacity, r_ <= w_ <= alloc_, and
\* append, read and the readers of the buffer access only allocated memory.
THEOREM InMemoryAlways == Spec => []BufferInv
<1>1. IndInv => BufferInv
  BY DEF IndInv, TypeOK, Room, InMemory, writeable, BufferInv
<1> QED BY RoomAlways, <1>1, PTL

\* readFd never reads with a length of 0.
THEOREM RoomToReadAlways == Spec => []RoomToRead
<1>1. IndInv => RoomToRead
  BY DEF IndInv, Room, RoomToRead
<1> QED BY RoomAlways, <1>1, PTL

-----------------------------------------------------------------------------
\* Of a buffer that is only filled from sockets and messages: the bytes that
\* have been given and not been taken are between r_ and w_, in order.
LEMMA CapacityIntact ==
  ASSUME IndInv, NEW STATE b, NEW STATE end, end \in 0..alloc_, r_ <= end,
         DOMAIN b = 0..(alloc_ - 1),
         NEW STATE len, len \in Nat, NEW CONSTANT ret \in {"copy", "read"},
         checkCapcity(b, end, len, ret),
         \A i \in r_..(end - 1) : b[i] = taken + (i - r_)
  PROVE  /\ w_' - r_' = end - r_
         /\ \A i \in r_'..(w_' - 1) : buf_'[i] = taken + (i - r_')
<1>0. alloc_ \in Nat /\ r_ \in Nat /\ end \in Nat /\ taken \in Nat
  BY DEF IndInv, TypeOK
<1>1. CASE alloc_ - end <= len /\ r_ > 0
  <2>1. w_' = end - r_ /\ r_' = 0 /\ buf_' = Moved(b, end)
    BY <1>1 DEF checkCapcity
  <2>2. ASSUME NEW i \in 0..(end - r_ - 1)
        PROVE  Moved(b, end)[i] = taken + i
    <3>1. i \in DOMAIN b /\ i < end - r_ /\ i + r_ \in r_..(end - 1)
      BY <1>0
    <3>2. Moved(b, end)[i] = b[i + r_]
      BY <3>1 DEF Moved
    <3> QED BY <1>0, <3>1, <3>2
  <2> QED BY <1>0, <2>1, <2>2
<1>2. CASE ~(alloc_ - end <= len /\ r_ > 0)
  <2>1. w_' = end /\ r_' = r_ /\ buf_' = b
    BY <1>2 DEF checkCapcity
  <2> QED BY <1>0, <2>1
<1> QED BY <1>1, <1>2

\* Bytes written at w_ with the numbers that come next continue the stream.
LEMMA FilledIntact ==
  ASSUME IndInv, Intact, DOMAIN buf_ = 0..(alloc_ - 1),
         NEW STATE n, n \in Nat, w_ + n <= alloc_
  PROVE  \A i \in r_..(w_ + n - 1) : Filled(n, given)[i] = taken + (i - r_)
<1> SUFFICES ASSUME NEW i \in r_..(w_ + n - 1)
             PROVE  Filled(n, given)[i] = taken + (i - r_)
  OBVIOUS
<1>0. /\ alloc_ \in Nat /\ r_ \in Nat /\ w_ \in Nat /\ taken \in Nat /\ given \in Nat
      /\ w_ - r_ = given - taken
  BY DEF IndInv, TypeOK, Intact, readable
<1>1. i \in DOMAIN buf_
  BY <1>0
<1>2. CASE i < w_
  BY <1>0, <1>1, <1>2 DEF Filled, Intact
<1>3. CASE ~(i < w_)
  BY <1>0, <1>1, <1>3 DEF Filled
<1> QED BY <1>2, <1>3

\* readFd and append neither lose nor double nor reorder a byte, through moves,
\* expansions and any number of reads, when no file is read with pread.
THEOREM IntactAlways ==
  ASSUME Offsets = {0}
  PROVE  Spec => []Intact
<1> DEFINE Inv == IndInv /\ sendFileOffset = 0 /\ Intact
<1>1. Init => Inv
  BY InitRoom DEF Init, Intact, readable
<1>2. Inv /\ [Next]_vars => Inv'
  <2> SUFFICES ASSUME Inv, [Next]_vars PROVE Inv'
    OBVIOUS
  <2>0. IndInv'
    BY NextRoom
  <2>t. /\ alloc_ \in Nat /\ r_ \in Nat /\ w_ \in Nat /\ r_ <= w_ /\ w_ <= alloc_
        /\ taken \in Nat /\ given \in Nat /\ need \in Nat
        /\ w_ - r_ = given - taken
    BY DEF IndInv, TypeOK, Intact, readable
  <2>1. CASE Append
    <3>1. PICK len \in Lengths : checkCapcity(buf_, w_, len, "copy")
      BY <2>1 DEF Append
    <3>2. DOMAIN buf_ = 0..(alloc_ - 1) /\ len \in Nat
      BY <2>1, LengthsAssumption DEF Append, IndInv, Room
    <3>3. \A i \in r_..(w_ - 1) : buf_[i] = taken + (i - r_)
      BY DEF Intact
    <3>4. /\ w_' - r_' = w_ - r_
          /\ \A i \in r_'..(w_' - 1) : buf_'[i] = taken + (i - r_')
      <4>1. w_ \in 0..alloc_ /\ r_ <= w_ /\ "copy" \in {"copy", "read"}
        BY <2>t
      <4> QED BY <3>1, <3>2, <3>3, <4>1, CapacityIntact, Zenon
    <3> QED BY <2>0, <2>1, <2>t, <3>4 DEF Append, reading, Intact, readable
  <2>2. CASE Copy
    <3>1. DOMAIN buf_ = 0..(alloc_ - 1) /\ w_ + need <= alloc_
      BY <2>2, <2>t DEF Copy, IndInv, Room, writeable
    <3>2. \A i \in r_..(w_ + need - 1) : Filled(need, given)[i] = taken + (i - r_)
      BY <2>t, <3>1, FilledIntact
    <3> QED BY <2>0, <2>2, <2>t, <3>2 DEF Copy, reading, Intact, readable
  <2>3. CASE Expansion
    <3>1. \A i \in r_..(w_ - 1) : i \in DOMAIN buf_ /\ i \in 0..(alloc_ - 1)
      BY <2>3, <2>t DEF Expansion, IndInv, Room
    <3>2. \A i \in r_..(w_ - 1) : buf_'[i] = buf_[i]
      BY <2>3, <3>1 DEF Expansion
    <3> QED BY <2>0, <2>3, <3>2 DEF Expansion, reading, Intact, readable
  <2>4. CASE Retrieve
    BY <2>0, <2>4, <2>t DEF Retrieve, reading, Intact, readable
  <2>5. CASE RetrieveAll
    BY <2>0, <2>5, <2>t DEF RetrieveAll, reading, Intact, readable
  <2>6. CASE ReadFd
    BY <2>0, <2>6 DEF ReadFd, indices, Intact, readable
  <2>7. CASE ReadSome
    <3>1. PICK n \in 1..writeable :
            /\ given' = given + n
            /\ IF 5 * (alloc_ - (w_ + n)) <= alloc_
               THEN checkCapcity(Filled(n, ReadFrom), w_ + n, Chunk, "read")
               ELSE /\ buf_' = Filled(n, ReadFrom)
                    /\ w_' = w_ + n
                    /\ UNCHANGED <<r_, pc, need, back>>
      BY <2>7 DEF ReadSome
    <3>2. ReadFrom = given
      BY DEF ReadFrom
    <3>3. /\ n \in Nat /\ w_ + n \in 0..alloc_ /\ r_ <= w_ + n
          /\ DOMAIN buf_ = 0..(alloc_ - 1)
          /\ DOMAIN Filled(n, given) = 0..(alloc_ - 1)
      BY <2>7, <2>t DEF ReadSome, writeable, IndInv, Room, Filled
    <3>4. \A i \in r_..(w_ + n - 1) : Filled(n, given)[i] = taken + (i - r_)
      BY <2>t, <3>3, FilledIntact
    <3>5. UNCHANGED <<sendFileOffset, taken>>
      BY <2>7 DEF ReadSome
    <3>6. CASE 5 * (alloc_ - (w_ + n)) <= alloc_
      <4>0. Chunk \in Nat /\ "read" \in {"copy", "read"}
        BY ChunkAssumption
      <4>1. checkCapcity(Filled(n, given), w_ + n, Chunk, "read")
        BY <3>1, <3>2, <3>6
      <4>2. /\ w_' - r_' = (w_ + n) - r_
            /\ \A i \in r_'..(w_' - 1) : buf_'[i] = taken + (i - r_')
        <5>1. PICK m, e : m = Filled(n, given) /\ e = w_ + n
          OBVIOUS
        <5>2. IndInv /\ e \in 0..alloc_ /\ r_ <= e /\ DOMAIN m = 0..(alloc_ - 1)
          BY <3>3, <5>1
        <5>3. checkCapcity(m, e, Chunk, "read")
          BY <4>1, <5>1 DEF checkCapcity
        <5>4. \A i \in r_..(e - 1) : m[i] = taken + (i - r_)
          <6> SUFFICES ASSUME NEW i \in r_..(e - 1) PROVE m[i] = taken + (i - r_)
            OBVIOUS
          <6>1. i \in r_..(w_ + n - 1)
            BY <2>t, <3>3, <5>1
          <6>2. Filled(n, given)[i] = taken + (i - r_)
            BY <3>4, <6>1
          <6> QED BY <5>1, <6>2
        <5>5. /\ w_' - r_' = e - r_
              /\ \A i \in r_'..(w_' - 1) : buf_'[i] = taken + (i - r_')
          BY <4>0, <5>2, <5>3, <5>4, CapacityIntact, Zenon
        <5> QED BY <5>1, <5>5
      <4> QED BY <2>0, <2>t, <3>1, <3>3, <3>5, <4>2 DEF Intact, readable
    <3>7. CASE ~(5 * (alloc_ - (w_ + n)) <= alloc_)
      BY <2>0, <2>t, <3>1, <3>2, <3>3, <3>4, <3>5, <3>7 DEF Intact, readable
    <3> QED BY <3>6, <3>7
  <2>8. CASE ReadEnds
    BY <2>0, <2>8 DEF ReadEnds, indices, reading, Intact, readable
  <2>9. CASE UNCHANGED vars
    BY <2>0, <2>9 DEF vars, indices, reading, Intact, readable
  <2> QED
    BY <2>1, <2>2, <2>3, <2>4, <2>5, <2>6, <2>7, <2>8, <2>9 DEF Next
<1>3. Inv => Intact
  OBVIOUS
<1> QED BY <1>1, <1>2, <1>3, PTL DEF Spec
=============================================================================
