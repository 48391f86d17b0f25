----------------------------- MODULE NetBuffer ------------------------------
(***************************************************************************)
(* The byte buffer of a connection (net/netBuffer.h, net/netBuffer.cpp).   *)
(*                                                                         *)
(* r_ and w_ are indices into the memory buf_, whose size is alloc_ except *)
(* inside expansion(), which doubles alloc_ before it calls realloc.  The  *)
(* bytes are numbered in the order in which append and readFd are given    *)
(* them, so the unread part of the buffer can be compared with the stream. *)
(* The iterations of the loops of expansion() and readFd() are steps; the  *)
(* buffer belongs to one thread.                                           *)
(***************************************************************************)
EXTENDS Integers

CONSTANTS
  InitSize,    \* the argument of the constructor (4096)
  Chunk,       \* what readFd asks checkCapcity for (4096)
  Lengths,     \* lengths of the messages given to append
  Offsets,     \* values of sendFileOffset; 0 is a socket
  MaxBytes     \* bound on the bytes given to the buffer

ASSUME InitSizeAssumption == InitSize \in Nat \ {0}
ASSUME ChunkAssumption == Chunk \in Nat \ {0}
ASSUME LengthsAssumption == Lengths \subseteq Nat
ASSUME OffsetsAssumption == Offsets \subseteq Nat
ASSUME MaxBytesAssumption == MaxBytes \in Nat

VARIABLES
  buf_, r_, w_, alloc_,
  pc,              \* "idle", or where the running call is
  need,            \* len, the argument of append or of checkCapcity
  back,            \* what runs when checkCapcity returns
  getSize,         \* result of the last read of readFd
  sendFileOffset,  \* argument of readFd
  base,            \* number of the byte at position 0 of the file that is read
  given,           \* bytes given to the buffer so far
  taken            \* bytes taken out of it so far

indices == <<buf_, r_, w_, alloc_>>
reading == <<getSize, sendFileOffset, base>>
vars == <<indices, pc, need, back, reading, given, taken>>

Garbage == -1

TypeOK ==
  /\ alloc_ \in Nat \ {0}
  /\ w_ \in 0..alloc_
  /\ r_ \in 0..w_
  /\ pc \in {"idle", "copy", "expand", "read"}
  /\ back \in {"copy", "read"}
  /\ need \in Nat
  /\ getSize \in Nat /\ sendFileOffset \in Nat /\ base \in Int
  /\ given \in Nat /\ taken \in Nat

Init ==
  /\ buf_ = [i \in 0..(InitSize - 1) |-> Garbage]
  /\ r_ = 0 /\ w_ = 0 /\ alloc_ = InitSize
  /\ pc = "idle" /\ need = 0 /\ back = "copy"
  /\ getSize = 0 /\ sendFileOffset = 0 /\ base = 0
  /\ given = 0 /\ taken = 0

readable == w_ - r_
writeable == alloc_ - w_

-----------------------------------------------------------------------------
\* memmove(buf_, buf_ + r_, w - r_) on the memory b.
Moved(b, w) == [i \in DOMAIN b |-> IF i < w - r_ THEN b[i + r_] ELSE b[i]]

checkCapcity_OffByOne(b, w, len, ret) ==
  /\ need' = len /\ back' = ret
  /\ buf_' = b /\ w_' = w /\ r_' = r_
  /\ pc' = IF alloc_ - w < len THEN "expand" ELSE ret

checkCapcity_NoMemmove(b, w, len, ret) ==
  /\ need' = len /\ back' = ret
  /\ IF alloc_ - w <= len /\ r_ > 0
     THEN /\ buf_' = b /\ w_' = w - r_ /\ r_' = 0
          /\ pc' = IF alloc_ - (w - r_) <= len THEN "expand" ELSE ret
     ELSE /\ buf_' = b /\ w_' = w /\ r_' = r_
          /\ pc' = IF alloc_ - w <= len THEN "expand" ELSE ret

\* checkCapcity(len) in a buffer with the memory b and the write index w: the
\* unread bytes are moved to the left, then the buffer is expanded, each only
\* if there is no room.  ret is what runs when it returns.
checkCapcity(b, w, len, ret) ==
  LET full == alloc_ - w <= len
      left == full /\ r_ > 0
  IN /\ need' = len /\ back' = ret
     /\ buf_' = IF left THEN Moved(b, w) ELSE b
     /\ w_' = IF left THEN w - r_ ELSE w
     /\ r_' = IF left THEN 0 ELSE r_
     /\ pc' = IF full /\ alloc_ - w_' <= len THEN "expand" ELSE ret

Expansion_NoRealloc ==
  /\ pc = "expand"
  /\ IF writeable <= need
     THEN alloc_' = alloc_ * 2 /\ UNCHANGED pc
     ELSE pc' = back /\ UNCHANGED alloc_
  /\ UNCHANGED <<buf_, r_, w_, need, back, reading, given, taken>>

\* One test of the loop of expansion(), or the realloc after it.
Expansion ==
  /\ pc = "expand"
  /\ IF writeable <= need
     THEN /\ alloc_' = alloc_ * 2
          /\ UNCHANGED <<buf_, pc>>
     ELSE /\ buf_' = [i \in 0..(alloc_ - 1) |->
                        IF i \in DOMAIN buf_ THEN buf_[i] ELSE Garbage]
          /\ pc' = back
          /\ UNCHANGED alloc_
  /\ UNCHANGED <<r_, w_, need, back, reading, given, taken>>

\* n bytes written to memory at w_, the first of which has the number first.
Filled(n, first) ==
  [i \in DOMAIN buf_ |-> IF i \in w_..(w_ + n - 1) THEN first + (i - w_) ELSE buf_[i]]

Append ==
  /\ pc = "idle"
  /\ \E len \in Lengths :
       /\ given + len <= MaxBytes
       /\ checkCapcity(buf_, w_, len, "copy")
  /\ UNCHANGED <<alloc_, reading, given, taken>>

\* The loop of append that copies the message.
Copy ==
  /\ pc = "copy"
  /\ buf_' = Filled(need, given)
  /\ w_' = w_ + need
  /\ given' = given + need
  /\ pc' = "idle"
  /\ UNCHANGED <<r_, alloc_, need, back, reading, taken>>

\* retrieve(len); the caller never asks for more than readable().
Retrieve ==
  /\ pc = "idle"
  /\ \E len \in 0..readable :
       /\ r_' = r_ + len
       /\ taken' = taken + len
  /\ UNCHANGED <<buf_, w_, alloc_, pc, need, back, reading, given>>

\* retrieveAll() and reset().
RetrieveAll ==
  /\ pc = "idle"
  /\ r_' = 0 /\ w_' = 0
  /\ taken' = taken + readable
  /\ UNCHANGED <<buf_, alloc_, pc, need, back, reading, given>>

ReadFd ==
  /\ pc = "idle"
  /\ pc' = "read"
  /\ getSize' = 0
  /\ sendFileOffset' \in Offsets
  /\ base' = given - sendFileOffset'
  /\ UNCHANGED <<indices, need, back, given, taken>>

\* The number of the first byte that read or pread returns: a socket goes on
\* where it was, a file is read at sendFileOffset + getSize.
ReadFrom ==
  IF sendFileOffset > 0 THEN base + sendFileOffset + getSize ELSE given

\* read or pread returns n > 0 bytes; a buffer that is 80% full is given room.
ReadSome ==
  /\ pc = "read"
  /\ \E n \in 1..writeable :
       LET room == alloc_ - (w_ + n)
       IN /\ given + n <= MaxBytes
          /\ getSize' = n
          /\ given' = given + n
          /\ IF 5 * room <= alloc_
             THEN checkCapcity(Filled(n, ReadFrom), w_ + n, Chunk, "read")
             ELSE /\ buf_' = Filled(n, ReadFrom)
                  /\ w_' = w_ + n
                  /\ UNCHANGED <<r_, pc, need, back>>
  /\ UNCHANGED <<alloc_, sendFileOffset, base, taken>>

\* EAGAIN, an error, or 0 bytes at the end of the stream: readFd returns.
ReadEnds ==
  /\ pc = "read"
  /\ pc' = "idle"
  /\ UNCHANGED <<indices, need, back, reading, given, taken>>

Next ==
  \/ Append \/ Copy \/ Expansion
  \/ Retrieve \/ RetrieveAll
  \/ ReadFd \/ ReadSome \/ ReadEnds

Spec == Init /\ [][Next]_vars

-----------------------------------------------------------------------------
\* Memory is never accessed outside of what malloc or realloc returned: neither
\* the unread bytes, nor what append copies, nor what read may return.
InMemory ==
  /\ \A i \in r_..(w_ - 1) : i \in DOMAIN buf_
  /\ pc = "copy" => \A i \in w_..(w_ + need - 1) : i \in DOMAIN buf_
  /\ pc = "read" => \A i \in w_..(alloc_ - 1) : i \in DOMAIN buf_

\* The indices stay in order, and so does every access, through all the moves,
\* doublings and reallocations.
BufferInv == TypeOK /\ InMemory

\* readFd never calls read with a length of 0, whose result of 0 it would take
\* for the end of the stream and close the connection.
RoomToRead == pc # "expand" => writeable > 0

\* What has been given and not been taken is in the buffer, in order and
\* exactly once, whatever was moved or reallocated in between.
Intact ==
  /\ readable = given - taken
  /\ \A i \in r_..(w_ - 1) : buf_[i] = taken + (i - r_)
=============================================================================
