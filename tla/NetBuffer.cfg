SPECIFICATION Spec
CONSTANTS
  InitSize = 4
  Chunk = 5
  Lengths = {1, 3, 4, 9}
  Offsets = {0}
  MaxBytes = 11
INVARIANTS BufferInv RoomToRead Intact
