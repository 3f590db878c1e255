---------------------------- MODULE CostFunctions ----------------------------
(***************************************************************************)
(* What ceres minimises: the registration cost of a pair of submaps        *)
(* (backend/constraint/cost_functions/registration_cost_function.cpp), the *)
(* cost of a relative pose measurement (relative_pose_cost_function_inl.h) *)
(* and the local parameterization the solver steps with.  The points of    *)
(* the reference submap are added when it is finished; then the constraint *)
(* is added to the problem and the solver moves the nodes.                 *)
(*                                                                         *)
(* Numbers are exact integers.  Lengths are sub-steps of 1/N of a voxel,   *)
(* angles are quarter turns, the vector of the interpolation and what is   *)
(* linear in it are scaled by N^3, so that the finite differences of the   *)
(* code's functions over one sub-step equal their derivatives.             *)
(***************************************************************************)
EXTENDS Integers, FiniteSets, Functions, WeightedSampler

CONSTANTS
  N,                    \* sub-steps per voxel
  DistanceField,        \* distance of each voxel of the reading submap
  Points,               \* registration points: [position, distance, weight]
  MaxPoints,            \* bound on the points of the reference submap
  SamplingRatios,       \* half the sampling ratio, or -1 for all the points
  NoCorrespondenceCost, \* no_correspondence_cost
  Observed,             \* relative pose that was measured
  InitialPoses,         \* poses of the nodes before the solve
  ConstantNodes,        \* the choices of the nodes with set_constant
  MaxMove               \* bound on the coordinates of the moved node

VARIABLES
  registrationPoints,   \* the sampler of the reference submap
  samplingRatio,        \* half of config_.sampling_ratio
  parameters,           \* pose of each node
  constantNodes,        \* nodes that are held constant
  numResiduals          \* residuals of the cost function; -1 before it exists

vars == <<registrationPoints, samplingRatio, parameters, constantNodes,
          numResiduals>>

Pose == [x : Int, y : Int, z : Int, yaw : Int]

Nodes == {"reference", "reading"}
Coordinates == <<"x", "y", "z", "yaw">>
MaxYaw == 2
Yaws == (-MaxYaw)..MaxYaw

\* A yaw that comes from the logarithm of a rotation is normalised.
ASSUME InitialPosesAssumption ==
  InitialPoses \subseteq {pose \in Pose : pose.yaw \in Yaws}
ASSUME ObservedAssumption == Observed \in Pose
ASSUME GridAssumption ==
  /\ N \in Nat \ {0}
  /\ \A v \in DOMAIN DistanceField : DistanceField[v] \in Int
  /\ NoCorrespondenceCost \in Int
ASSUME RatiosAssumption == SamplingRatios \subseteq Nat \cup {-1}
\* A registration point has a voxel whose weight exceeds min_voxel_weight.
ASSUME PointsAssumption ==
  Points \subseteq [position : [x : Int, y : Int, z : Int],
                    distance : Int, weight : Nat \ {0}]

Sin(angle) == <<0, 1, 0, -1>>[(angle % 4) + 1]
Cos(angle) == Sin(angle + 1)

\* Mutant: the angle is not normalised.
LeaveAngle(angle) == angle

\* 4 quarter turns are 2 pi; \div rounds down.
NormalizeAngle(angle) == angle - 4 * ((angle + 2) \div 4)

\* Rotation about the vertical axis, and the vector between two points.
Rotate(yaw, p) ==
  [x |-> Cos(yaw) * p.x - Sin(yaw) * p.y,
   y |-> Sin(yaw) * p.x + Cos(yaw) * p.y,
   z |-> p.z]
Plus(p, q) == [x |-> p.x + q.x, y |-> p.y + q.y, z |-> p.z + q.z]
Minus(p, q) == [x |-> p.x - q.x, y |-> p.y - q.y, z |-> p.z - q.z]

-------------------------------------------------------------------------------
(* RegistrationCostFunction::Evaluate *)

\* Mutant: the point is rotated by the difference of the yaws the wrong way.
ReadingCoordinateTurned(reference, reading, p) ==
  Rotate(-reading.yaw, Plus(Rotate(-reference.yaw, p), Minus(reference, reading)))

\* inverse(T_mission__reading) * T_mission__reference * point
ReadingCoordinate(reference, reading, p) ==
  Rotate(-reading.yaw, Plus(Rotate(reference.yaw, p), Minus(reference, reading)))

\* Offset of the i-th of the 8 neighbours; voxblox numbers them from 0.
NeighborOffset(i) == <<(i - 1) \div 4, ((i - 1) \div 2) % 2, (i - 1) % 2>>

Neighbor(p, i) ==
  LET o == NeighborOffset(i)
  IN  <<p.x \div N + o[1], p.y \div N + o[2], p.z \div N + o[3]>>

\* getVoxelsAndQVector fails when one of the neighbours does not exist.
InterpPossible(p) == \A i \in 1..8 : Neighbor(p, i) \in DOMAIN DistanceField

Distances(p) == [i \in 1..8 |-> DistanceField[Neighbor(p, i)]]

\* Where the point lies in its cell.
Delta(p) == [x |-> p.x % N, y |-> p.y % N, z |-> p.z % N]

QVector(p) ==
  LET d == Delta(p)
  IN  <<N * N * N, N * N * d.x, N * N * d.y, N * N * d.z,
        N * d.x * d.y, N * d.y * d.z, N * d.z * d.x, d.x * d.y * d.z>>

\* Mutant: two neighbours are exchanged in the row of Delta x Delta z.
InterpTableSwapped ==
  << <<1, 0, 0, 0, 0, 0, 0, 0>>,   <<-1, 0, 0, 0, 1, 0, 0, 0>>,
     <<-1, 0, 1, 0, 0, 0, 0, 0>>,  <<-1, 1, 0, 0, 0, 0, 0, 0>>,
     <<1, 0, -1, 0, -1, 0, 1, 0>>, <<1, -1, -1, 1, 0, 0, 0, 0>>,
     <<1, -1, 0, 0, -1, 0, 1, 0>>, <<-1, 1, 1, -1, 1, -1, -1, 1>> >>

\* interp_table_
InterpTable ==
  << <<1, 0, 0, 0, 0, 0, 0, 0>>,   <<-1, 0, 0, 0, 1, 0, 0, 0>>,
     <<-1, 0, 1, 0, 0, 0, 0, 0>>,  <<-1, 1, 0, 0, 0, 0, 0, 0>>,
     <<1, 0, -1, 0, -1, 0, 1, 0>>, <<1, -1, -1, 1, 0, 0, 0, 0>>,
     <<1, -1, 0, 0, -1, 1, 0, 0>>, <<-1, 1, 1, -1, 1, -1, -1, 1>> >>

Dot(a, b) ==
  a[1] * b[1] + a[2] * b[2] + a[3] * b[3] + a[4] * b[4]
  + a[5] * b[5] + a[6] * b[6] + a[7] * b[7] + a[8] * b[8]

\* interp_table_ * distances.transpose()
Coefficients(p) == [row \in 1..8 |-> Dot(InterpTable[row], Distances(p))]

Interpolated(p) == Dot(QVector(p), Coefficients(p))

Residual(point, reference, reading) ==
  LET p == ReadingCoordinate(reference, reading, point.position)
  IN  point.weight * (IF InterpPossible(p)
                      THEN point.distance * N * N * N - Interpolated(p)
                      ELSE NoCorrespondenceCost * N * N * N)

\* pInterp_pr: the coefficients times the derivatives of the Q vector.
InterpolationGradient(p) ==
  LET d == Delta(p)
  IN  [x |-> Dot(Coefficients(p), <<0, N * N, 0, 0, N * d.y, 0, N * d.z, d.y * d.z>>),
       y |-> Dot(Coefficients(p), <<0, 0, N * N, 0, N * d.x, N * d.z, 0, d.x * d.z>>),
       z |-> Dot(Coefficients(p), <<0, 0, 0, N * N, 0, N * d.y, N * d.x, d.x * d.y>>)]

\* The rows of pTrr_pParamRef_times_r_ref.
ByReference(reference, reading, p) ==
  LET e == reading.yaw
      emo == reading.yaw - reference.yaw
  IN  [x |-> <<Cos(e), Sin(e), 0, p.x * Sin(emo) - p.y * Cos(emo)>>,
       y |-> <<-Sin(e), Cos(e), 0, p.x * Cos(emo) + p.y * Sin(emo)>>,
       z |-> <<0, 0, 1, 0>>]

\* Mutant: the distance of the two submaps is missing in the yaw column.
ByReadingAtOrigin(reference, reading, p) ==
  LET e == reading.yaw
      emo == reading.yaw - reference.yaw
  IN  [x |-> <<-Cos(e), -Sin(e), 0, -p.x * Sin(emo) + p.y * Cos(emo)>>,
       y |-> <<Sin(e), -Cos(e), 0, -p.x * Cos(emo) - p.y * Sin(emo)>>,
       z |-> <<0, 0, -1, 0>>]

\* The rows of pTrr_pParamRead_times_r_ref.
ByReading(reference, reading, p) ==
  LET e == reading.yaw
      emo == reading.yaw - reference.yaw
      dx == reading.x - reference.x
      dy == reading.y - reference.y
  IN  [x |-> <<-Cos(e), -Sin(e), 0,
               -p.x * Sin(emo) + p.y * Cos(emo) + dx * Sin(e) - dy * Cos(e)>>,
       y |-> <<Sin(e), -Cos(e), 0,
               -p.x * Cos(emo) - p.y * Sin(emo) + dx * Cos(e) + dy * Sin(e)>>,
       z |-> <<0, 0, -1, 0>>]

\* pResidual_pParamRef and pResidual_pParamRead
Jacobian(node, point, reference, reading) ==
  LET p == ReadingCoordinate(reference, reading, point.position)
      gradient == InterpolationGradient(p)
      rows == IF node = "reference"
              THEN ByReference(reference, reading, point.position)
              ELSE ByReading(reference, reading, point.position)
  IN  [k \in 1..4 |->
         IF InterpPossible(p)
         THEN -point.weight * (gradient.x * rows.x[k] + gradient.y * rows.y[k]
                               + gradient.z * rows.z[k])
         ELSE 0]

Deterministic == samplingRatio = -1

\* The choices of Evaluate: the index of the point of each residual.
Draws ==
  IF Deterministic THEN {[i \in 1..numResiduals |-> i]}
  ELSE [1..numResiduals -> RandomIndices(registrationPoints)]

\* The registration points of an evaluation; a drawn one gets weight 1.
Drawn(draw) ==
  [i \in DOMAIN draw |->
     IF Deterministic THEN registrationPoints.items[draw[i]]
     ELSE [registrationPoints.items[draw[i]] EXCEPT !.weight = 1]]

SummedWeight(points) ==
  SumFunction([i \in DOMAIN points |-> points[i].weight])

\* Mutant: the residuals are not divided by the weights.
EvaluateUnscaled(points, reference, reading) ==
  [residuals |-> [i \in DOMAIN points |->
                    Residual(points[i], reference, reading)],
   factor |-> <<Len(points), 1>>]

\* The residuals are to be multiplied by the factor, a fraction.
Evaluate(points, reference, reading) ==
  [residuals |-> [i \in DOMAIN points |->
                    Residual(points[i], reference, reading)],
   factor |-> <<Len(points), SummedWeight(points)>>]

-------------------------------------------------------------------------------
(* RelativePoseCostFunction, of the constraint between the two nodes; the  *)
(* residuals before they are multiplied by the information matrix.         *)

\* Mutant: the observed translation is taken in the mission frame.
RelativeResidualUnrotated(A, B) ==
  LET t == Minus(Minus(B, A), Observed)
  IN  [x |-> t.x, y |-> t.y, z |-> t.z,
       yaw |-> NormalizeAngle((B.yaw - A.yaw) - Observed.yaw)]

RelativeResidual(A, B) ==
  LET t == Minus(Rotate(-A.yaw, Minus(B, A)), Observed)
  IN  [x |-> t.x, y |-> t.y, z |-> t.z,
       yaw |-> NormalizeAngle((B.yaw - A.yaw) - Observed.yaw)]

-------------------------------------------------------------------------------
(* The state machine *)

Init ==
  /\ registrationPoints = EmptySampler
  /\ samplingRatio \in SamplingRatios
  /\ parameters \in [Nodes -> InitialPoses]
  /\ constantNodes \in ConstantNodes
  /\ numResiduals = -1

AddRegistrationPoint(point) ==
  /\ numResiduals = -1
  /\ Len(registrationPoints.items) < MaxPoints
  /\ registrationPoints' = AddItem(registrationPoints, point, point.weight)
  /\ UNCHANGED <<samplingRatio, parameters, constantNodes, numResiduals>>

\* Mutant: the ratio is made an integer before it is multiplied.
NumResidualsWholeRatio ==
  IF Deterministic THEN Len(registrationPoints.items)
  ELSE (samplingRatio \div 2) * Len(registrationPoints.items)

\* The constructor fixes the number of residuals.
NumResiduals ==
  IF Deterministic THEN Len(registrationPoints.items)
  ELSE (samplingRatio * Len(registrationPoints.items)) \div 2

\* RegistrationConstraint::addToProblem
AddToProblem ==
  /\ numResiduals = -1
  /\ numResiduals' = NumResiduals
  /\ UNCHANGED <<registrationPoints, samplingRatio, parameters, constantNodes>>

\* Evaluate returns true, whichever points it draws.
Evaluable == \A draw \in Draws : SummedWeight(Drawn(draw)) # 0

\* Node::addToProblem holds a node constant when it is configured so.
Variable(node) == node \notin constantNodes

\* The step of the local parameterization: the identity on x, y and z, the
\* normalised sum on the yaw.
LocalStep(pose, k, delta) ==
  IF Coordinates[k] = "yaw" THEN [pose EXCEPT !.yaw = NormalizeAngle(@ + delta)]
  ELSE [pose EXCEPT ![Coordinates[k]] = @ + delta]

InBounds(pose) ==
  /\ {pose.x, pose.y} \subseteq (-MaxMove)..MaxMove
  /\ pose.z \in 0..MaxMove

\* The solver moves a node unless the cost cannot be evaluated.
SolverStep(node, k, delta) ==
  /\ numResiduals # -1
  /\ Evaluable
  /\ Variable(node)
  /\ parameters' = [parameters EXCEPT ![node] = LocalStep(@, k, delta)]
  /\ InBounds(parameters'[node])
  /\ UNCHANGED <<registrationPoints, samplingRatio, constantNodes,
                 numResiduals>>

Next ==
  \/ \E point \in Points : AddRegistrationPoint(point)
  \/ AddToProblem
  \/ \E node \in Nodes, k \in 1..4, delta \in {-1, 1} :
       SolverStep(node, k, delta)

Spec == Init /\ [][Next]_vars

-------------------------------------------------------------------------------
(* Properties *)

\* Every variable has its type.
TypeOK ==
  /\ registrationPoints.items \in Seq(Points)
  /\ registrationPoints.cumulative \in Seq(Nat)
  /\ samplingRatio \in SamplingRatios
  /\ parameters \in [Nodes -> Pose]
  /\ constantNodes \subseteq Nodes
  /\ numResiduals \in Nat \cup {-1}

Items == {registrationPoints.items[i] : i \in DOMAIN registrationPoints.items}
ReadingPoint(point) ==
  ReadingCoordinate(parameters.reference, parameters.reading, point.position)

\* The table and the Q vector give trilinear interpolation, each neighbour
\* weighed by the volume of the opposite corner: Evaluate's reading_distance.
InterpolationIsTrilinear ==
  \A point \in Items :
    LET p == ReadingPoint(point)
        d == Delta(p)
        Share(o, delta) == IF o = 1 THEN delta ELSE N - delta
        corner == [i \in 1..8 |-> LET o == NeighborOffset(i)
                                  IN  Share(o[1], d.x) * Share(o[2], d.y)
                                        * Share(o[3], d.z)]
    IN  InterpPossible(p) => Interpolated(p) = Dot(corner, Distances(p))

\* In the cell the point lies in, the columns of x, y and z are the change of
\* the residual that a step of the node makes.
TranslationColumns(node, point) ==
  LET o == parameters.reference
      e == parameters.reading
  IN  \A k \in 1..3 :
        LET moved == [parameters EXCEPT ![node] = LocalStep(@, k, 1)]
            p == ReadingPoint(point)
            q == ReadingCoordinate(moved.reference, moved.reading,
                                   point.position)
            sameCell == \A axis \in {"x", "y", "z"} :
                          q[axis] >= p[axis] - (p[axis] % N)
        IN  InterpPossible(p) /\ InterpPossible(q) /\ sameCell
              => Residual(point, moved.reference, moved.reading)
                   - Residual(point, o, e) = Jacobian(node, point, o, e)[k]

\* The derivative of a rotation is the rotation by a quarter turn more, so the
\* point moves with the yaw as it would lie turned by a quarter.
YawColumn(node, point) ==
  LET o == parameters.reference
      e == parameters.reading
      turned == IF node = "reference"
                THEN Rotate(o.yaw + 1 - e.yaw, point.position)
                ELSE Rotate(-e.yaw - 1, Plus(Rotate(o.yaw, point.position),
                                             Minus(o, e)))
      p == ReadingPoint(point)
      gradient == InterpolationGradient(p)
  IN  InterpPossible(p) =>
        Jacobian(node, point, o, e)[4]
          = -point.weight * (gradient.x * turned.x + gradient.y * turned.y)

\* The analytic Jacobian of the registration cost is its derivative, for the
\* poses of both submaps (registration_cost_function.cpp:178-268).
JacobianIsDerivative ==
  \A node \in Nodes, point \in Items :
    TranslationColumns(node, point) /\ YawColumn(node, point)

\* The pose of a frame in the frame of another pose.
Compose(A, B) ==
  LET t == Plus(Rotate(A.yaw, B), A)
  IN  [x |-> t.x, y |-> t.y, z |-> t.z, yaw |-> A.yaw + B.yaw]

\* Only the pose of the submaps relative to each other counts: moving both
\* changes no residual, so that the solution is fixed by constant nodes alone.
GaugeFree ==
  \A yaw \in {0, 1}, shift \in {-1, 0} :
    LET g == [x |-> shift, y |-> -shift, z |-> shift, yaw |-> yaw]
        o == parameters.reference
        e == parameters.reading
    IN  /\ \A point \in Items :
             Residual(point, Compose(g, o), Compose(g, e))
               = Residual(point, o, e)
        /\ RelativeResidual(Compose(g, o), Compose(g, e))
             = RelativeResidual(o, e)

\* The residuals of a relative pose measurement vanish exactly at the poses
\* that agree with it, whatever turns the yaws have made.
ZeroAtMeasurement ==
  LET A == parameters.reference
      B == parameters.reading
      expected == Compose(A, Observed)
  IN  (RelativeResidual(A, B) = [x |-> 0, y |-> 0, z |-> 0, yaw |-> 0])
        <=> /\ Minus(B, expected) = [x |-> 0, y |-> 0, z |-> 0]
            /\ (B.yaw - expected.yaw) % 4 = 0

\* The local parameterization keeps the yaws where the CHECK_NEARs of the
\* relative pose cost want them, through any sequence of steps.
YawsInRange == \A node \in Nodes : parameters[node].yaw \in Yaws

\* The weights of the registration points only count relative to each other:
\* with all of them doubled the scaled residuals are the same.
WeightsOnlyRelative ==
  \A draw \in Draws :
    LET once == Drawn(draw)
        twice == [i \in DOMAIN once |-> [once[i] EXCEPT !.weight = 2 * @]]
        a == Evaluate(once, parameters.reference, parameters.reading)
        b == Evaluate(twice, parameters.reference, parameters.reading)
    IN  \A i \in DOMAIN draw :
          a.residuals[i] * a.factor[1] * b.factor[2]
            = b.residuals[i] * b.factor[1] * a.factor[2]

\* getRandomItem returns each item in proportion to its weight.
DrawsInProportion ==
  \A i \in DOMAIN registrationPoints.items :
    Cardinality({random \in 0..(TotalWeight(registrationPoints) - 1) :
                   RandomIndex(registrationPoints, random) = i})
      = registrationPoints.items[i].weight

\* The cost can be evaluated as soon as the sampling asks for a whole point;
\* otherwise Evaluate returns false and the whole solve fails.
EvaluatesWithSamples ==
  /\ numResiduals # -1
  /\ registrationPoints.items # <<>>
  /\ Deterministic \/ samplingRatio * Len(registrationPoints.items) >= 2
  => Evaluable
===============================================================================
