\* The tasklet and stop_streaming(), with audio interrupts coming in.
CONSTANTS
  VIP_BUFFERS = 2
  Buffers = {b1, b2}
  NoBuf = NoBuf
  PairedFields = FALSE
  SharedTables = FALSE
  OtherIrq = TRUE
  SeqWrap = 2
SPECIFICATION Spec
PROPERTIES
  RemainingReturnedAsError
