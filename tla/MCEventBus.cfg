SPECIFICATION FairSpec
CONSTANTS
  Publishers <- MCPublishers
  Subscribers <- MCSubscribers
  Ids = {e1}
  Topics <- MCTopics
  Filter <- MCFilter
  BufferSize = 1
  WildcardBuffer = 2
  DedupEnabled = TRUE
  MaxPublishes = 3
CHECK_DEADLOCK FALSE
INVARIANT TypeOK UnsubscribeIsSafe
PROPERTY KeepsContract PublishNeverWaits
