CONSTANTS
  RxFrames = {"rgblim", "yuv"}
  RxTimings = {"720p60", "1080p30"}
  RxEdids = {"e1"}
  MaxRxUses = 2
  CfgTimings = {"480p", "720p60", "720p24", "1080i60"}
  MaxCfgCalls = 4
  AIP_BUFFERS = 3
  MaxPeriods = 5
  TsoutLen = 4
  FifoLen = 2
  MaxWrite = 3
  MaxPackets = 4
  MaxClears = 2
  I2cPages = {"p0", "p1"}
  BlockSize = 2
  MaxLen = 2
  MaxI2cCalls = 2
  MaxFaults = 2
  Keys = {"one", "two"}
  MaxIrCommands = 3
SPECIFICATION Spec
INVARIANTS
  TypeOK
  FlagsTellNews
  MatrixWhole
  AnnouncedWhole
  EngineMatchesFormat
  ReceiverFollows
  PointerFollowsRing
  StreamIntact
  NoLostKick
  AccessIsOwn
  NoStuckKey
PROPERTY EdidAnnounced
CHECK_DEADLOCK FALSE
