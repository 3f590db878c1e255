SPECIFICATION SpecOutput
CONSTANTS
  MirrorRegistration = FALSE
  MaxStamp = 3
  SubmapCreationInterval = 0
  MaxPending = 1
  InOrderClouds = TRUE
  MaxLoopClosures = 0
  Services <- FinishMap
  MaxServiceCalls = 1
  OdometryConstraints = TRUE
  RegistrationConstraints = TRUE
  HeightConstraints = FALSE
  EdgeSubscriber = TRUE
  MaxMeshThreads = 1
INVARIANTS
  OutputTypeOK
  SurfacesComplete
  PublishedSubmapsReady
  EdgesCovered
PROPERTIES
  PosesReachSubscribers
