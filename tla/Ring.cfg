CONSTANTS
  Readers = {r1, r2}
  Writers = {w1}
  BufferLen = 2
  RingFlags <- NoFlags
  Bytes = {0, 1}
  Lens = {1, 2}
  Skips = {0}
  ReadFlags <- StreamReadFlags
  WriteFlags <- StreamWriteFlags
  JUNK = JUNK
SPECIFICATION Spec
SYMMETRY ThreadSymmetry
INVARIANTS
  WaitersRight
PROPERTY
  ImplementsQueue
