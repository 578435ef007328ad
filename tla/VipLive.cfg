\* Every captured frame reaches the application.
CONSTANTS
  VIP_BUFFERS = 2
  Buffers = {b1, b2, b3}
  NoBuf = NoBuf
  PairedFields = FALSE
  SharedTables = FALSE
  OtherIrq = FALSE
  SeqWrap = 2
SPECIFICATION FairSpec
PROPERTIES
  FrameDelivered
