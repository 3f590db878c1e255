SPECIFICATION Spec
CONSTANTS
  N = 2
  DistanceField <- MCDistanceField
  Points <- MCPoints
  MaxPoints = 2
  SamplingRatios <- MCSamplingRatios
  NoCorrespondenceCost = 1
  Observed <- MCObserved
  InitialPoses <- MCInitialPoses
  ConstantNodes <- MCConstantNodes
  MaxMove = 1
INVARIANTS
  InterpolationIsTrilinear
  JacobianIsDerivative
  GaugeFree
  ZeroAtMeasurement
  YawsInRange
  WeightsOnlyRelative
  DrawsInProportion
  EvaluatesWithSamples
\* Without points the cost cannot be evaluated and the solver stops.
CHECK_DEADLOCK FALSE
