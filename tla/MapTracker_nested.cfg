SPECIFICATION FairSpec
CONSTANTS
  MaxStamp = 6
  QueueLength = 2
  MaxChecks = 2
  MaxPending = 3
INVARIANTS
  TypeOK
  HistoryFollowsOdometry
  OdometryBetweenOrigins
PROPERTIES
  EveryCallbackReturns
