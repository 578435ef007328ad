CONSTANTS
  CfgTimings = {"480p", "720p60", "720p24", "1080i60"}
  MaxCfgCalls = 4
SPECIFICATION LoadedSpec
INVARIANT VipWithinBuffer
CHECK_DEADLOCK FALSE
