\* Two fields to a buffer, but a page table for each ring slot: two buffers wait in
\* four slots.
CONSTANTS
  VIP_BUFFERS = 4
  Buffers = {b1, b2, b3, b4}
  NoBuf = NoBuf
  PairedFields = TRUE
  SharedTables = FALSE
  OtherIrq = FALSE
  SeqWrap = 2
SYMMETRY BufferSymmetry
VIEW NoContentView
SPECIFICATION QuietSpec
PROPERTIES
  ImplementsFrameQueue
