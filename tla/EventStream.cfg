\* Wires of three tool fragments and longer ones of frames of every size, cut
\* into reads of up to four bytes; a cap of two fragments.
SPECIFICATION Spec
CONSTANTS
  a = a
  b = b
  NoId = NoId
  Ids = {a, b}
  Wires <- MCWires
  PreludeLen = 2
  TrailerLen = 1
  MaxFrame = 5
  MaxHeaders = 1
  MaxToolInput = 2
  MaxChunk = 4
INVARIANTS BufferBounded FramesInStep FragmentsAccounted EndIsHonest
