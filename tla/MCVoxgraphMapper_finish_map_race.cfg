SPECIFICATION Spec
CONSTANTS
  MirrorRegistration = FALSE
  MaxStamp = 5
  SubmapCreationInterval = 1
  MaxPending = 1
  InOrderClouds = TRUE
  MaxLoopClosures = 0
  Services <- FinishMap
  MaxServiceCalls = 1
  OdometryConstraints = TRUE
  RegistrationConstraints = TRUE
  HeightConstraints = FALSE
  EdgeSubscriber = FALSE
PROPERTIES
  ConstraintsNotInUse
