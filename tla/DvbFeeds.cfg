\* Three slots, and as many feeds as the feed counter has values.
CONSTANTS
  FGPI_BUFFERS = 3
  FeedWrap = 3
  MaxFeeds = 3
SPECIFICATION FairSpec
INVARIANTS
  TypeOK
  EngineFollowsFeeds
  FreshBlock
PROPERTIES
  BlockDelivered
