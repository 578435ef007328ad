\* Two fields per buffer: the buffers handed over at the start overwrite each
\* other's page tables.
CONSTANTS
  VIP_BUFFERS = 4
  Buffers = {b1, b2, b3, b4}
  NoBuf = NoBuf
  PairedFields = TRUE
  SharedTables = TRUE
  OtherIrq = FALSE
  SeqWrap = 2
SYMMETRY BufferSymmetry
SPECIFICATION QuietSpec
INVARIANTS
  QueuedToEngine
