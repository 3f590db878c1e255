--------------------------- MODULE MCCostFunctions ---------------------------
(* Constants for TLC: 27 voxels whose distances no symmetry maps onto each *)
(* other, and points with different coordinates and weights.               *)
EXTENDS CostFunctions

MCDistanceField ==
  [v \in (-1..1) \X (-1..1) \X (-1..1) |->
     v[1] + 2 * v[2] * v[3] - 3 * v[3] * v[3] + v[1] * v[2] * (1 + v[3])]

MCPoints ==
  {[position |-> [x |-> 1, y |-> 0, z |-> -1], distance |-> 0, weight |-> 2],
   [position |-> [x |-> -1, y |-> 1, z |-> 0], distance |-> 1, weight |-> 1]}

MCSamplingRatios == {-1, 1, 3}

MCObserved == [x |-> 1, y |-> 0, z |-> 0, yaw |-> -1]

MCInitialPoses ==
  {[x |-> 0, y |-> 0, z |-> 0, yaw |-> 0],
   [x |-> 1, y |-> -1, z |-> 0, yaw |-> 2]}

MCConstantNodes == {{"reference"}, {"reading"}}
===============================================================================
