SPECIFICATION Spec
CONSTANTS
  MirrorRegistration = TRUE
  MaxStamp = 3
  SubmapCreationInterval = 0
  MaxPending = 2
  InOrderClouds = TRUE
  MaxLoopClosures = 1
  Services <- BothServices
  MaxServiceCalls = 2
  OdometryConstraints = TRUE
  RegistrationConstraints = TRUE
  HeightConstraints = TRUE
  EdgeSubscriber = TRUE
INVARIANTS
  TypeOK
  NoCheckFailure
  SwitchExclusive
  RegistrationOnlyFinished
  EndpointsHaveNodes
  TimelineFollowsCreation
  OdometryChain
