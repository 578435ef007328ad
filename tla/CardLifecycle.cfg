\* The four cards, with two DVB adapters, two DMA buffers to a unit, and at most
\* three failures that the probe function goes on after.
CONSTANTS
  Cards = {"cap", "budget", "hybrid", "ff"}
  Adapters = 2
  DmaBuffers = 2
  IntTypes = {"inta", "msi", "msix"}
  MaxIgnored = 3
SPECIFICATION Spec
INVARIANTS
  TypeOK
  HandlerHasDevice
  UsersGoFirst
  ReleasedOnce
  ReturnsAll
  ReceiverWork
