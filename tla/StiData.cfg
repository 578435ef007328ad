\* Transfers of up to four blocks, so that both halves are used again.
CONSTANTS
  MaxBlocks = 4
  HandleWrap = 2
  Transfers = {t1, t2, t3}
  NoTransfer = NoTransfer
SYMMETRY TransferSymmetry
SPECIFICATION Spec
CONSTRAINT NotLate
INVARIANTS
  TypeOK
  HalfFree
  StoredWhole
  DataNotLost
