\* Progressive video: two ring slots, twice as many buffers.
CONSTANTS
  VIP_BUFFERS = 2
  Buffers = {b1, b2, b3, b4}
  NoBuf = NoBuf
  PairedFields = FALSE
  SharedTables = FALSE
  OtherIrq = TRUE
  SeqWrap = 2
SYMMETRY BufferSymmetry
SPECIFICATION QuietSpec
INVARIANTS
  TypeOK
  SlotAlignment
  FreshFrame
  EngineOwnsSlot
  NoMissedWakeup
  SingleOwner
  StopReturnsAll
  SequenceTracksRing
