------------------------ MODULE CostFunctions_proofs ------------------------
(***************************************************************************)
(* Theorems about the cost functions, for every pose, every set of points  *)
(* and every distance field.                                               *)
(***************************************************************************)
EXTENDS CostFunctions, FiniteSetTheorems, WellFoundedInduction, TLAPS

Point == [x : Int, y : Int, z : Int]

\* The four directions.
LEMMA SinCosValues ==
  ASSUME NEW a \in Int
  PROVE  \/ a % 4 = 0 /\ Sin(a) = 0 /\ Cos(a) = 1
         \/ a % 4 = 1 /\ Sin(a) = 1 /\ Cos(a) = 0
         \/ a % 4 = 2 /\ Sin(a) = 0 /\ Cos(a) = -1
         \/ a % 4 = 3 /\ Sin(a) = -1 /\ Cos(a) = 0
  <1>1. a % 4 \in 0..3
    OBVIOUS
  <1>2. CASE a % 4 = 0
    <2>1. (a + 1) % 4 = 1
      BY <1>2
    <2> QED BY <1>2, <2>1 DEF Sin, Cos
  <1>3. CASE a % 4 = 1
    <2>1. (a + 1) % 4 = 2
      BY <1>3
    <2> QED BY <1>3, <2>1 DEF Sin, Cos
  <1>4. CASE a % 4 = 2
    <2>1. (a + 1) % 4 = 3
      BY <1>4
    <2> QED BY <1>4, <2>1 DEF Sin, Cos
  <1>5. CASE a % 4 = 3
    <2>1. (a + 1) % 4 = 0
      BY <1>5
    <2> QED BY <1>5, <2>1 DEF Sin, Cos
  <1> QED BY <1>1, <1>2, <1>3, <1>4, <1>5

LEMMA SinCosInt ==
  ASSUME NEW a \in Int
  PROVE  Sin(a) \in {-1, 0, 1} /\ Cos(a) \in {-1, 0, 1}
  BY SinCosValues

LEMMA NormalizeAngleRange ==
  ASSUME NEW a \in Int
  PROVE  /\ NormalizeAngle(a) \in (-2)..1
         /\ (NormalizeAngle(a) - a) % 4 = 0
  BY DEF NormalizeAngle

LEMMA SinCosSum ==
  ASSUME NEW a \in Int, NEW b \in Int
  PROVE  /\ Sin(a + b) = Sin(a) * Cos(b) + Cos(a) * Sin(b)
         /\ Cos(a + b) = Cos(a) * Cos(b) - Sin(a) * Sin(b)
  <1>1. (a + b) % 4 = ((a % 4) + (b % 4)) % 4
    OBVIOUS
  <1> QED BY <1>1, SinCosValues, a + b \in Int

LEMMA PointOperators ==
  ASSUME NEW a \in Int, NEW p, p.x \in Int, p.y \in Int, p.z \in Int,
         NEW q, q.x \in Int, q.y \in Int, q.z \in Int
  PROVE  /\ Rotate(a, p) \in Point
         /\ Plus(p, q) \in Point
         /\ Minus(p, q) \in Point
  <1>1. Cos(a) * p.x - Sin(a) * p.y \in Int /\ Sin(a) * p.x + Cos(a) * p.y \in Int
    BY SinCosInt
  <1> QED BY <1>1 DEF Rotate, Plus, Minus, Point

\* Rotating twice is rotating by the sum.
LEMMA RotateTwice ==
  ASSUME NEW a \in Int, NEW b \in Int, NEW p, p.x \in Int, p.y \in Int
  PROVE  Rotate(a, Rotate(b, p)) = Rotate(a + b, p)
  <1>1. /\ Rotate(b, p).x = Cos(b) * p.x - Sin(b) * p.y
        /\ Rotate(b, p).y = Sin(b) * p.x + Cos(b) * p.y
        /\ Rotate(b, p).z = p.z
    BY DEF Rotate
  <1>2. /\ Cos(a) * (Cos(b) * p.x - Sin(b) * p.y)
             - Sin(a) * (Sin(b) * p.x + Cos(b) * p.y)
             = Cos(a + b) * p.x - Sin(a + b) * p.y
        /\ Sin(a) * (Cos(b) * p.x - Sin(b) * p.y)
             + Cos(a) * (Sin(b) * p.x + Cos(b) * p.y)
             = Sin(a + b) * p.x + Cos(a + b) * p.y
    <2>1. /\ Sin(a + b) = Sin(a) * Cos(b) + Cos(a) * Sin(b)
          /\ Cos(a + b) = Cos(a) * Cos(b) - Sin(a) * Sin(b)
      BY SinCosSum
    <2>2. CASE Sin(a) = 0 /\ Cos(a) = 1
      BY <2>1, <2>2, SinCosInt
    <2>3. CASE Sin(a) = 1 /\ Cos(a) = 0
      BY <2>1, <2>3, SinCosValues
    <2>4. CASE Sin(a) = 0 /\ Cos(a) = -1
      BY <2>1, <2>4, SinCosValues
    <2>5. CASE Sin(a) = -1 /\ Cos(a) = 0
      BY <2>1, <2>5, SinCosValues
    <2> QED BY <2>2, <2>3, <2>4, <2>5, SinCosValues
  <1> QED BY <1>1, <1>2 DEF Rotate

LEMMA RotateLinear ==
  ASSUME NEW a \in Int, NEW p, p.x \in Int, p.y \in Int, p.z \in Int,
         NEW q, q.x \in Int, q.y \in Int, q.z \in Int
  PROVE  /\ Rotate(a, Plus(p, q)) = Plus(Rotate(a, p), Rotate(a, q))
         /\ Rotate(a, Minus(p, q)) = Minus(Rotate(a, p), Rotate(a, q))
  <1>1. /\ Cos(a) * (p.x + q.x) - Sin(a) * (p.y + q.y)
             = (Cos(a) * p.x - Sin(a) * p.y) + (Cos(a) * q.x - Sin(a) * q.y)
        /\ Sin(a) * (p.x + q.x) + Cos(a) * (p.y + q.y)
             = (Sin(a) * p.x + Cos(a) * p.y) + (Sin(a) * q.x + Cos(a) * q.y)
        /\ Cos(a) * (p.x - q.x) - Sin(a) * (p.y - q.y)
             = (Cos(a) * p.x - Sin(a) * p.y) - (Cos(a) * q.x - Sin(a) * q.y)
        /\ Sin(a) * (p.x - q.x) + Cos(a) * (p.y - q.y)
             = (Sin(a) * p.x + Cos(a) * p.y) - (Sin(a) * q.x + Cos(a) * q.y)
    BY SinCosValues
  <1> QED BY <1>1 DEF Rotate, Plus, Minus

LEMMA RotateNothing ==
  ASSUME NEW p \in Point
  PROVE  Rotate(0, p) = p
  <1>1. Sin(0) = 0 /\ Cos(0) = 1
    BY SinCosValues
  <1> QED BY <1>1 DEF Rotate, Point

LEMMA RotateBack ==
  ASSUME NEW a \in Int, NEW p \in Point
  PROVE  Rotate(a, Rotate(-a, p)) = p /\ Rotate(-a, Rotate(a, p)) = p
  <1>1. -a \in Int /\ p.x \in Int /\ p.y \in Int
    BY DEF Point
  <1>2. Rotate(a, Rotate(-a, p)) = Rotate(a + (-a), p)
    BY <1>1, RotateTwice
  <1>3. Rotate(-a, Rotate(a, p)) = Rotate(-a + a, p)
    BY <1>1, RotateTwice
  <1>4. a + (-a) = 0 /\ -a + a = 0
    OBVIOUS
  <1> QED BY <1>2, <1>3, <1>4, RotateNothing

-----------------------------------------------------------------------------
(* The costs depend on relative poses only *)

LEMMA ComposePose ==
  ASSUME NEW g \in Pose, NEW o \in Pose
  PROVE  Compose(g, o) \in Pose
  <1>1. Rotate(g.yaw, o) \in Point
    BY PointOperators DEF Pose
  <1>2. Plus(Rotate(g.yaw, o), g) \in Point
    BY <1>1, PointOperators DEF Pose, Point
  <1> QED BY <1>2 DEF Compose, Pose, Point

\* The vector between two poses turns with the frame they are seen in.
LEMMA ComposeMinus ==
  ASSUME NEW g \in Pose, NEW o \in Pose, NEW e \in Pose
  PROVE  Minus(Compose(g, o), Compose(g, e)) = Rotate(g.yaw, Minus(o, e))
  <1> DEFINE ro == Rotate(g.yaw, o)
             re == Rotate(g.yaw, e)
  <1>1. ro \in Point /\ re \in Point
    BY PointOperators DEF Pose
  <1>2. Minus(Compose(g, o), Compose(g, e)) = Minus(ro, re)
    <2> HIDE DEF ro, re
    <2>1. /\ Compose(g, o) = [x |-> ro.x + g.x, y |-> ro.y + g.y,
                              z |-> ro.z + g.z, yaw |-> g.yaw + o.yaw]
          /\ Compose(g, e) = [x |-> re.x + g.x, y |-> re.y + g.y,
                              z |-> re.z + g.z, yaw |-> g.yaw + e.yaw]
      BY DEF Compose, Plus, ro, re
    <2> QED BY <1>1, <2>1 DEF Minus, Point, Pose
  <1>3. Minus(ro, re) = Rotate(g.yaw, Minus(o, e))
    BY RotateLinear DEF Pose
  <1> QED BY <1>2, <1>3

LEMMA ReadingCoordinateGauge ==
  ASSUME NEW g \in Pose, NEW o \in Pose, NEW e \in Pose, NEW p \in Point
  PROVE  ReadingCoordinate(Compose(g, o), Compose(g, e), p)
           = ReadingCoordinate(o, e, p)
  <1> DEFINE v == Plus(Rotate(o.yaw, p), Minus(o, e))
  <1>1. Compose(g, o).yaw = g.yaw + o.yaw /\ Compose(g, e).yaw = g.yaw + e.yaw
    BY DEF Compose
  <1>2. Rotate(g.yaw + o.yaw, p) = Rotate(g.yaw, Rotate(o.yaw, p))
    BY RotateTwice DEF Pose, Point
  <1>3. Rotate(o.yaw, p) \in Point /\ Minus(o, e) \in Point
    BY PointOperators DEF Pose, Point
  <1>4. v \in Point
    BY <1>3, PointOperators DEF Point, Pose
  <1>5. Plus(Rotate(g.yaw, Rotate(o.yaw, p)), Rotate(g.yaw, Minus(o, e)))
          = Rotate(g.yaw, v)
    BY <1>3, RotateLinear DEF Pose, Point
  <1>6. Rotate(-(g.yaw + e.yaw), Rotate(g.yaw, v)) = Rotate(-e.yaw, v)
    <2>1. -(g.yaw + e.yaw) \in Int /\ -(g.yaw + e.yaw) + g.yaw = -e.yaw
      BY DEF Pose
    <2> QED BY <1>4, <2>1, RotateTwice DEF Pose, Point
  <1> QED BY <1>1, <1>2, <1>5, <1>6, ComposeMinus DEF ReadingCoordinate

LEMMA ResidualGauge ==
  ASSUME NEW g \in Pose, NEW o \in Pose, NEW e \in Pose, NEW point \in Points
  PROVE  Residual(point, Compose(g, o), Compose(g, e)) = Residual(point, o, e)
  BY ReadingCoordinateGauge, PointsAssumption DEF Residual, Point

LEMMA RelativeResidualGauge ==
  ASSUME NEW g \in Pose, NEW o \in Pose, NEW e \in Pose
  PROVE  RelativeResidual(Compose(g, o), Compose(g, e)) = RelativeResidual(o, e)
  <1>1. Compose(g, o).yaw = g.yaw + o.yaw /\ Compose(g, e).yaw = g.yaw + e.yaw
    BY DEF Compose
  <1>2. Minus(e, o) \in Point
    BY PointOperators DEF Pose
  <1>3. Rotate(-(g.yaw + o.yaw), Rotate(g.yaw, Minus(e, o)))
          = Rotate(-o.yaw, Minus(e, o))
    <2>1. -(g.yaw + o.yaw) \in Int /\ -(g.yaw + o.yaw) + g.yaw = -o.yaw
      BY DEF Pose
    <2> QED BY <1>2, <2>1, RotateTwice DEF Pose, Point
  <1>4. (g.yaw + e.yaw) - (g.yaw + o.yaw) = e.yaw - o.yaw
    BY DEF Pose
  <1> QED BY <1>1, <1>3, <1>4, ComposeMinus DEF RelativeResidual

-----------------------------------------------------------------------------
(* The measurement *)

\* The translation is right when the vector to the other pose is the observed
\* one, turned by the yaw.
LEMMA TranslationAtMeasurement ==
  ASSUME NEW A \in Pose, NEW B \in Pose
  PROVE  Minus(Rotate(-A.yaw, Minus(B, A)), Observed) = [x |-> 0, y |-> 0, z |-> 0]
           <=> Minus(B, Compose(A, Observed)) = [x |-> 0, y |-> 0, z |-> 0]
  <1> DEFINE v == Minus(B, A)
             w == Rotate(A.yaw, Observed)
             u == Rotate(-A.yaw, v)
             obs == [x |-> Observed.x, y |-> Observed.y, z |-> Observed.z]
  <1>0. A.yaw \in Int /\ -A.yaw \in Int
    BY DEF Pose
  <1>1. v \in Point
    BY PointOperators DEF Pose
  <1>2. w \in Point /\ u \in Point /\ obs \in Point
    <2>1. obs \in Point /\ w \in Point
      BY <1>0, PointOperators, ObservedAssumption DEF Pose, Point
    <2>2. v.x \in Int /\ v.y \in Int /\ v.z \in Int
      BY <1>1 DEF Point
    <2>3. u \in Point
      <3> HIDE DEF v
      <3> QED BY <1>0, <2>2, PointOperators
    <2> QED BY <2>1, <2>3
  <1>3. w = Rotate(A.yaw, obs)
    BY DEF Rotate
  <1>4. u = obs <=> v = w
    <2>1. Rotate(A.yaw, u) = v
      <3> HIDE DEF v
      <3> QED BY <1>0, <1>1, RotateBack
    <2>2. Rotate(-A.yaw, w) = obs
      <3> HIDE DEF obs, w
      <3> QED BY <1>0, <1>2, <1>3, RotateBack
    <2> QED BY <1>3, <2>1, <2>2
  <1>5. Minus(u, Observed) = [x |-> 0, y |-> 0, z |-> 0] <=> u = obs
    <2> HIDE DEF u
    <2> QED BY <1>2, ObservedAssumption DEF Minus, Point, Pose
  <1>6. Minus(B, Compose(A, Observed)) = [x |-> 0, y |-> 0, z |-> 0] <=> v = w
    <2>1. /\ Compose(A, Observed).x = w.x + A.x
          /\ Compose(A, Observed).y = w.y + A.y
          /\ Compose(A, Observed).z = w.z + A.z
      BY DEF Compose, Plus
    <2>2. v = [x |-> B.x - A.x, y |-> B.y - A.y, z |-> B.z - A.z]
      BY DEF Minus
    <2> HIDE DEF v, w
    <2> QED BY <1>1, <1>2, <2>1, <2>2 DEF Minus, Point, Pose
  <1> QED BY <1>4, <1>5, <1>6

LEMMA YawAtMeasurement ==
  ASSUME NEW A \in Pose, NEW B \in Pose
  PROVE  NormalizeAngle((B.yaw - A.yaw) - Observed.yaw) = 0
           <=> (B.yaw - Compose(A, Observed).yaw) % 4 = 0
  <1> DEFINE d == (B.yaw - A.yaw) - Observed.yaw
  <1>1. d \in Int /\ B.yaw - Compose(A, Observed).yaw = d
    BY ObservedAssumption DEF Compose, Pose
  <1>2. NormalizeAngle(d) = 0 <=> d % 4 = 0
    <2> HIDE DEF d
    <2> QED BY <1>1 DEF NormalizeAngle
  <1> QED BY <1>1, <1>2

-----------------------------------------------------------------------------
(* The states of the solver *)

Inv ==
  /\ parameters \in [Nodes -> {pose \in Pose : pose.yaw \in Yaws}]
  /\ registrationPoints.items \in Seq(Points)

\* A step of the solver leaves a pose with a normalised yaw.
LEMMA LocalStepPose ==
  ASSUME NEW pose \in {q \in Pose : q.yaw \in Yaws}, NEW k \in 1..4,
         NEW delta \in {-1, 1}
  PROVE  LocalStep(pose, k, delta) \in {q \in Pose : q.yaw \in Yaws}
  <1>1. CASE Coordinates[k] = "yaw"
    <2>1. NormalizeAngle(pose.yaw + delta) \in (-2)..1
      BY NormalizeAngleRange DEF Pose
    <2>2. NormalizeAngle(pose.yaw + delta) \in Yaws
      BY <2>1 DEF Yaws, MaxYaw
    <2>3. NormalizeAngle(pose.yaw + delta) \in Int
      BY <2>1
    <2> QED BY <1>1, <2>2, <2>3 DEF LocalStep, Pose
  <1>2. CASE Coordinates[k] # "yaw"
    <2>1. Coordinates[k] \in {"x", "y", "z"}
      BY <1>2 DEF Coordinates
    <2> QED BY <1>2, <2>1 DEF LocalStep, Pose
  <1> QED BY <1>1, <1>2

LEMMA Invariance == Spec => []Inv
  <1>1. Init => Inv
    BY InitialPosesAssumption DEF Init, Inv, EmptySampler
  <1>2. Inv /\ [Next]_vars => Inv'
    <2> SUFFICES ASSUME Inv, [Next]_vars
                 PROVE  Inv'
      OBVIOUS
    <2>1. ASSUME NEW point \in Points, AddRegistrationPoint(point)
          PROVE  Inv'
      <3>1. registrationPoints'.items = Append(registrationPoints.items, point)
        BY <2>1 DEF AddRegistrationPoint, AddItem
      <3> QED BY <2>1, <3>1 DEF AddRegistrationPoint, Inv
    <2>2. CASE AddToProblem
      BY <2>2 DEF AddToProblem, Inv
    <2>3. ASSUME NEW node \in Nodes, NEW k \in 1..4, NEW delta \in {-1, 1},
                 SolverStep(node, k, delta)
          PROVE  Inv'
      BY <2>3, LocalStepPose DEF SolverStep, Inv
    <2>4. CASE UNCHANGED vars
      BY <2>4 DEF vars, Inv
    <2> QED BY <2>1, <2>2, <2>3, <2>4 DEF Next
  <1> QED BY <1>1, <1>2, PTL DEF Spec

(***************************************************************************)
(* However long the solver runs, the yaws stay where the CHECK_NEARs of    *)
(* RelativePoseCostFunction want them (relative_pose_cost_function_inl.h:  *)
(* 15-16), because AngleLocalParameterization normalises them.             *)
(***************************************************************************)
THEOREM YawsStayInRange == Spec => []YawsInRange
  <1>1. Inv => YawsInRange
    BY DEF Inv, YawsInRange
  <1> QED BY <1>1, Invariance, PTL

(***************************************************************************)
(* Moving both submaps of a pair by the same motion changes no residual of *)
(* either cost, for any points, distances and poses: RegistrationCost-     *)
(* Function::Evaluate and RelativePoseCostFunction see relative poses only.*)
(***************************************************************************)
THEOREM CostsAreGaugeFree == Spec => []GaugeFree
  <1>1. Inv => GaugeFree
    <2> SUFFICES ASSUME Inv, NEW yaw \in {0, 1}, NEW shift \in {-1, 0}
                 PROVE  LET g == [x |-> shift, y |-> -shift, z |-> shift,
                                  yaw |-> yaw]
                            o == parameters.reference
                            e == parameters.reading
                        IN  /\ \A point \in Items :
                                 Residual(point, Compose(g, o), Compose(g, e))
                                   = Residual(point, o, e)
                            /\ RelativeResidual(Compose(g, o), Compose(g, e))
                                 = RelativeResidual(o, e)
      BY DEF GaugeFree
    <2> DEFINE g == [x |-> shift, y |-> -shift, z |-> shift, yaw |-> yaw]
    <2>1. g \in Pose
      BY DEF Pose
    <2>2. parameters.reference \in Pose /\ parameters.reading \in Pose
      BY DEF Inv, Nodes
    <2>3. Items \subseteq Points
      BY DEF Inv, Items
    <2> HIDE DEF g
    <2>4. \A point \in Items :
            Residual(point, Compose(g, parameters.reference),
                     Compose(g, parameters.reading))
              = Residual(point, parameters.reference, parameters.reading)
      BY <2>1, <2>2, <2>3, ResidualGauge
    <2>5. RelativeResidual(Compose(g, parameters.reference),
                           Compose(g, parameters.reading))
            = RelativeResidual(parameters.reference, parameters.reading)
      BY <2>1, <2>2, RelativeResidualGauge
    <2> QED BY <2>4, <2>5 DEF g
  <1> QED BY <1>1, Invariance, PTL

(***************************************************************************)
(* The residuals of RelativePoseCostFunction are zero exactly at the poses *)
(* that agree with the measurement, for any measurement, up to full turns. *)
(***************************************************************************)
THEOREM ResidualsVanishAtMeasurement == Spec => []ZeroAtMeasurement
  <1>1. Inv => ZeroAtMeasurement
    <2> SUFFICES ASSUME Inv
                 PROVE  ZeroAtMeasurement
      OBVIOUS
    <2> DEFINE A == parameters.reference
               B == parameters.reading
               t == Minus(Rotate(-A.yaw, Minus(B, A)), Observed)
               angle == NormalizeAngle((B.yaw - A.yaw) - Observed.yaw)
    <2>1. A \in Pose /\ B \in Pose
      BY DEF Inv, Nodes
    <2>2. RelativeResidual(A, B)
            = [x |-> t.x, y |-> t.y, z |-> t.z, yaw |-> angle]
      BY DEF RelativeResidual
    <2>3. t = [x |-> t.x, y |-> t.y, z |-> t.z]
      BY DEF Minus
    <2>4. RelativeResidual(A, B) = [x |-> 0, y |-> 0, z |-> 0, yaw |-> 0]
            <=> t = [x |-> 0, y |-> 0, z |-> 0] /\ angle = 0
      <3> HIDE DEF t, angle
      <3> QED BY <2>2, <2>3
    <2> HIDE DEF A, B
    <2>5. t = [x |-> 0, y |-> 0, z |-> 0]
            <=> Minus(B, Compose(A, Observed)) = [x |-> 0, y |-> 0, z |-> 0]
      BY <2>1, TranslationAtMeasurement
    <2>6. angle = 0 <=> (B.yaw - Compose(A, Observed).yaw) % 4 = 0
      BY <2>1, YawAtMeasurement
    <2> QED BY <2>4, <2>5, <2>6 DEF ZeroAtMeasurement, A, B
  <1> QED BY <1>1, Invariance, PTL

-------------------------------------------------------------------------------
(* Interpolation *)

\* The volumes of the corners, from the monomials of the Q vector.
LEMMA CornerVolumes ==
  ASSUME NEW n \in Int, NEW x \in Int, NEW y \in Int, NEW z \in Int
  PROVE  /\ n*n*n - n*n*x - n*n*y - n*n*z + n*x*y + n*y*z + n*z*x - x*y*z
              = (n - x) * (n - y) * (n - z)
         /\ n*n*z - n*y*z - n*z*x + x*y*z = (n - x) * (n - y) * z
         /\ n*n*y - n*x*y - n*y*z + x*y*z = (n - x) * y * (n - z)
         /\ n*y*z - x*y*z = (n - x) * y * z
         /\ n*n*x - n*x*y - n*z*x + x*y*z = x * (n - y) * (n - z)
         /\ n*z*x - x*y*z = x * (n - y) * z
         /\ n*x*y - x*y*z = x * y * (n - z)
  BY SMT

\* The product of a Q vector, the table and the distances, by distance.
LEMMA TableByDistance ==
  ASSUME NEW q \in [1..8 -> Int], NEW d \in [1..8 -> Int]
  PROVE  Dot(q, [row \in 1..8 |-> Dot(InterpTable[row], d)])
           = (q[1] - q[2] - q[3] - q[4] + q[5] + q[6] + q[7] - q[8]) * d[1]
             + (q[4] - q[6] - q[7] + q[8]) * d[2]
             + (q[3] - q[5] - q[6] + q[8]) * d[3]
             + (q[6] - q[8]) * d[4]
             + (q[2] - q[5] - q[7] + q[8]) * d[5]
             + (q[7] - q[8]) * d[6] + (q[5] - q[8]) * d[7] + q[8] * d[8]
  <1> DEFINE c == [row \in 1..8 |-> Dot(InterpTable[row], d)]
  <1>1. /\ c[1] = d[1]
        /\ c[2] = -d[1] + d[5]
        /\ c[3] = -d[1] + d[3]
        /\ c[4] = -d[1] + d[2]
        /\ c[5] = d[1] - d[3] - d[5] + d[7]
        /\ c[6] = d[1] - d[2] - d[3] + d[4]
        /\ c[7] = d[1] - d[2] - d[5] + d[6]
        /\ c[8] = -d[1] + d[2] + d[3] - d[4] + d[5] - d[6] - d[7] + d[8]
    BY DEF InterpTable, Dot
  <1> HIDE DEF c
  <1>2. /\ \A i \in 1..8 : q[i] \in Int /\ d[i] \in Int
        /\ Dot(q, c) = q[1] * c[1] + q[2] * c[2] + q[3] * c[3] + q[4] * c[4]
                       + q[5] * c[5] + q[6] * c[6] + q[7] * c[7] + q[8] * c[8]
    BY DEF Dot
  <1>3. Dot(q, c)
          = (q[1] - q[2] - q[3] - q[4] + q[5] + q[6] + q[7] - q[8]) * d[1]
            + (q[4] - q[6] - q[7] + q[8]) * d[2]
            + (q[3] - q[5] - q[6] + q[8]) * d[3]
            + (q[6] - q[8]) * d[4]
            + (q[2] - q[5] - q[7] + q[8]) * d[5]
            + (q[7] - q[8]) * d[6] + (q[5] - q[8]) * d[7] + q[8] * d[8]
    BY <1>1, <1>2
  <1> QED BY <1>3 DEF c

\* The shares of the volume that interpolation gives the corners of a cell, for
\* a point at d in it.
Corner(d) ==
  LET Share(o, delta) == IF o = 1 THEN delta ELSE N - delta
  IN  [i \in 1..8 |-> LET o == NeighborOffset(i)
                      IN  Share(o[1], d.x) * Share(o[2], d.y) * Share(o[3], d.z)]

LEMMA CornerShares ==
  ASSUME NEW d \in Point
  PROVE  /\ Corner(d)[1] = (N - d.x) * (N - d.y) * (N - d.z)
         /\ Corner(d)[2] = (N - d.x) * (N - d.y) * d.z
         /\ Corner(d)[3] = (N - d.x) * d.y * (N - d.z)
         /\ Corner(d)[4] = (N - d.x) * d.y * d.z
         /\ Corner(d)[5] = d.x * (N - d.y) * (N - d.z)
         /\ Corner(d)[6] = d.x * (N - d.y) * d.z
         /\ Corner(d)[7] = d.x * d.y * (N - d.z)
         /\ Corner(d)[8] = d.x * d.y * d.z
  BY DEF Corner, NeighborOffset

LEMMA InterpolationOfPoint ==
  ASSUME NEW p \in Point, InterpPossible(p)
  PROVE  Interpolated(p) = Dot(Corner(Delta(p)), Distances(p))
  <1> DEFINE d == Delta(p)
             q == QVector(p)
             D == Distances(p)
  <1>1. d \in Point /\ N \in Int
    BY GridAssumption DEF Delta, Point
  <1>2. d.x \in Int /\ d.y \in Int /\ d.z \in Int
    BY <1>1 DEF Point
  <1>3. D \in [1..8 -> Int]
    BY GridAssumption DEF Distances, InterpPossible
  <1>4. /\ q[1] = N * N * N /\ q[2] = N * N * d.x
        /\ q[3] = N * N * d.y /\ q[4] = N * N * d.z
        /\ q[5] = N * d.x * d.y /\ q[6] = N * d.y * d.z
        /\ q[7] = N * d.z * d.x /\ q[8] = d.x * d.y * d.z
        /\ q \in [1..8 -> Int]
    <2> HIDE DEF d
    <2>1. q = <<N * N * N, N * N * d.x, N * N * d.y, N * N * d.z,
                N * d.x * d.y, N * d.y * d.z, N * d.z * d.x, d.x * d.y * d.z>>
      BY DEF QVector, d
    <2>2. /\ N * N * N \in Int /\ N * N * d.x \in Int
          /\ N * N * d.y \in Int /\ N * N * d.z \in Int
          /\ N * d.x * d.y \in Int /\ N * d.y * d.z \in Int
          /\ N * d.z * d.x \in Int /\ d.x * d.y * d.z \in Int
      BY <1>1, <1>2
    <2> QED BY <2>1, <2>2
  <1>5. Interpolated(p) = Dot(q, [row \in 1..8 |-> Dot(InterpTable[row], D)])
    BY DEF Interpolated, Coefficients
  <1> HIDE DEF d, q, D
  <1>6. /\ q[1] - q[2] - q[3] - q[4] + q[5] + q[6] + q[7] - q[8] = Corner(d)[1]
        /\ q[4] - q[6] - q[7] + q[8] = Corner(d)[2]
        /\ q[3] - q[5] - q[6] + q[8] = Corner(d)[3]
        /\ q[6] - q[8] = Corner(d)[4]
        /\ q[2] - q[5] - q[7] + q[8] = Corner(d)[5]
        /\ q[7] - q[8] = Corner(d)[6]
        /\ q[5] - q[8] = Corner(d)[7]
        /\ q[8] = Corner(d)[8]
    <2> DEFINE x == d.x
               y == d.y
               z == d.z
    <2>1. x \in Int /\ y \in Int /\ z \in Int
      BY <1>2
    <2>2. /\ q[1] = N*N*N /\ q[2] = N*N*x /\ q[3] = N*N*y /\ q[4] = N*N*z
          /\ q[5] = N*x*y /\ q[6] = N*y*z /\ q[7] = N*z*x /\ q[8] = x*y*z
      BY <1>4
    <2>3. /\ Corner(d)[1] = (N - x) * (N - y) * (N - z)
          /\ Corner(d)[2] = (N - x) * (N - y) * z
          /\ Corner(d)[3] = (N - x) * y * (N - z)
          /\ Corner(d)[4] = (N - x) * y * z
          /\ Corner(d)[5] = x * (N - y) * (N - z)
          /\ Corner(d)[6] = x * (N - y) * z
          /\ Corner(d)[7] = x * y * (N - z)
          /\ Corner(d)[8] = x * y * z
      BY <1>1, CornerShares
    <2> HIDE DEF x, y, z
    <2>4. /\ N*N*N - N*N*x - N*N*y - N*N*z + N*x*y + N*y*z + N*z*x - x*y*z
               = (N - x) * (N - y) * (N - z)
          /\ N*N*z - N*y*z - N*z*x + x*y*z = (N - x) * (N - y) * z
          /\ N*N*y - N*x*y - N*y*z + x*y*z = (N - x) * y * (N - z)
          /\ N*y*z - x*y*z = (N - x) * y * z
          /\ N*N*x - N*x*y - N*z*x + x*y*z = x * (N - y) * (N - z)
          /\ N*z*x - x*y*z = x * (N - y) * z
          /\ N*x*y - x*y*z = x * y * (N - z)
      BY <1>1, <2>1, CornerVolumes
    <2> QED BY <2>2, <2>3, <2>4, Zenon
  <1>7. Interpolated(p)
          = Corner(d)[1] * D[1] + Corner(d)[2] * D[2] + Corner(d)[3] * D[3]
            + Corner(d)[4] * D[4] + Corner(d)[5] * D[5] + Corner(d)[6] * D[6]
            + Corner(d)[7] * D[7] + Corner(d)[8] * D[8]
    BY <1>3, <1>4, <1>5, <1>6, TableByDistance, Zenon
  <1>8. Interpolated(p) = Dot(Corner(d), D)
    BY <1>7, Zenon DEF Dot
  <1> QED BY <1>8 DEF d, D

(***************************************************************************)
(* interp_table_ and the Q vector interpolate trilinearly, each neighbour  *)
(* weighed by the volume of the opposite corner, for any grid, distances   *)
(* and points (registration_cost_function.h:74,                            *)
(* registration_cost_function.cpp:140-158).                                *)
(***************************************************************************)
THEOREM TableInterpolatesTrilinearly == Spec => []InterpolationIsTrilinear
  <1>1. Inv => InterpolationIsTrilinear
    <2> SUFFICES ASSUME Inv, NEW point \in Items,
                        InterpPossible(ReadingPoint(point))
                 PROVE  Interpolated(ReadingPoint(point))
                          = Dot(Corner(Delta(ReadingPoint(point))),
                                Distances(ReadingPoint(point)))
      BY DEF InterpolationIsTrilinear, Corner
    <2>1. /\ parameters.reference \in Pose /\ parameters.reading \in Pose
          /\ point \in Points
      BY DEF Inv, Nodes, Items
    <2>2. ReadingPoint(point) \in Point
      <3> DEFINE o == parameters.reference
                 e == parameters.reading
      <3>1. point.position \in Point
        BY <2>1, PointsAssumption DEF Point
      <3>2. Rotate(o.yaw, point.position) \in Point /\ Minus(o, e) \in Point
        BY <2>1, <3>1, PointOperators DEF Pose, Point
      <3>3. Plus(Rotate(o.yaw, point.position), Minus(o, e)) \in Point
        BY <3>2, PointOperators DEF Pose, Point
      <3>4. -e.yaw \in Int
        BY <2>1 DEF Pose
      <3> QED BY <3>3, <3>4, PointOperators
              DEF ReadingPoint, ReadingCoordinate, Point
    <2> QED BY <2>2, InterpolationOfPoint
  <1> QED BY <1>1, Invariance, PTL

-------------------------------------------------------------------------------
(* Moving a point within a cell *)

\* The value that the distances of the corners of a cell give at a point in it.
Value(corners, d) == Dot(Corner(d), corners)

LEMMA ValueByCorner ==
  ASSUME NEW D \in [1..8 -> Int], NEW d \in Point
  PROVE  Value(D, d) =
           (N - d.x) * (N - d.y) * (N - d.z) * D[1]
           + (N - d.x) * (N - d.y) * d.z * D[2]
           + (N - d.x) * d.y * (N - d.z) * D[3]
           + (N - d.x) * d.y * d.z * D[4]
           + d.x * (N - d.y) * (N - d.z) * D[5]
           + d.x * (N - d.y) * d.z * D[6]
           + d.x * d.y * (N - d.z) * D[7]
           + d.x * d.y * d.z * D[8]
<1> DEFINE c == Corner(d)
<1>1. /\ c[1] = (N - d.x) * (N - d.y) * (N - d.z)
      /\ c[2] = (N - d.x) * (N - d.y) * d.z
      /\ c[3] = (N - d.x) * d.y * (N - d.z)
      /\ c[4] = (N - d.x) * d.y * d.z
      /\ c[5] = d.x * (N - d.y) * (N - d.z)
      /\ c[6] = d.x * (N - d.y) * d.z
      /\ c[7] = d.x * d.y * (N - d.z)
      /\ c[8] = d.x * d.y * d.z
  BY CornerShares
<1> HIDE DEF c
<1>2. Value(D, d) = c[1] * D[1] + c[2] * D[2] + c[3] * D[3] + c[4] * D[4]
                    + c[5] * D[5] + c[6] * D[6] + c[7] * D[7] + c[8] * D[8]
  BY DEF Value, Dot, c
<1>3. QED
  BY <1>1, <1>2, Zenon

\* The gradient is the change of the value along each axis, wherever the points
\* start on it.
LEMMA GradientByCorner ==
  ASSUME NEW p \in Point, InterpPossible(p)
  PROVE  LET d == Delta(p)
             D == Distances(p)
             gradient == InterpolationGradient(p)
         IN  /\ gradient.x = (N - d.y) * (N - d.z) * (D[5] - D[1])
                             + (N - d.y) * d.z * (D[6] - D[2])
                             + d.y * (N - d.z) * (D[7] - D[3])
                             + d.y * d.z * (D[8] - D[4])
             /\ gradient.y = (N - d.x) * (N - d.z) * (D[3] - D[1])
                             + (N - d.x) * d.z * (D[4] - D[2])
                             + d.x * (N - d.z) * (D[7] - D[5])
                             + d.x * d.z * (D[8] - D[6])
             /\ gradient.z = (N - d.x) * (N - d.y) * (D[2] - D[1])
                             + (N - d.x) * d.y * (D[4] - D[3])
                             + d.x * (N - d.y) * (D[6] - D[5])
                             + d.x * d.y * (D[8] - D[7])
<1> DEFINE d == Delta(p)
           D == Distances(p)
           x == d.x
           y == d.y
           z == d.z
           c == Coefficients(p)
           g == InterpolationGradient(p)
<1>1. x \in Int /\ y \in Int /\ z \in Int /\ N \in Int
  BY GridAssumption DEF Delta, Point
<1>2. D \in [1..8 -> Int]
  BY GridAssumption DEF Distances, InterpPossible
<1>3. c = [row \in 1..8 |-> Dot(InterpTable[row], D)]
  BY DEF Coefficients
<1>4. /\ c[1] = D[1]
      /\ c[2] = -D[1] + D[5]
      /\ c[3] = -D[1] + D[3]
      /\ c[4] = -D[1] + D[2]
      /\ c[5] = D[1] - D[3] - D[5] + D[7]
      /\ c[6] = D[1] - D[2] - D[3] + D[4]
      /\ c[7] = D[1] - D[2] - D[5] + D[6]
      /\ c[8] = -D[1] + D[2] + D[3] - D[4] + D[5] - D[6] - D[7] + D[8]
  <2> HIDE DEF D
  <2>1. QED
    BY <1>2, <1>3 DEF InterpTable, Dot
<1>5. /\ g.x = Dot(c, <<0, N * N, 0, 0, N * y, 0, N * z, y * z>>)
      /\ g.y = Dot(c, <<0, 0, N * N, 0, N * x, N * z, 0, x * z>>)
      /\ g.z = Dot(c, <<0, 0, 0, N * N, 0, N * y, N * x, x * y>>)
  BY DEF InterpolationGradient
<1> HIDE DEF d, D, x, y, z, c, g
<1>6. \A i \in 1..8 : c[i] \in Int /\ D[i] \in Int
  <2>1. D[1] \in Int /\ D[2] \in Int /\ D[3] \in Int /\ D[4] \in Int
        /\ D[5] \in Int /\ D[6] \in Int /\ D[7] \in Int /\ D[8] \in Int
    BY <1>2
  <2>2. \A i \in 1..8 : \/ i = 1 \/ i = 2 \/ i = 3 \/ i = 4
                        \/ i = 5 \/ i = 6 \/ i = 7 \/ i = 8
    OBVIOUS
  <2>3. QED
    BY <1>4, <2>1, <2>2
<1>7. /\ g.x = c[2] * (N * N) + c[5] * (N * y) + c[7] * (N * z) + c[8] * (y * z)
      /\ g.y = c[3] * (N * N) + c[5] * (N * x) + c[6] * (N * z) + c[8] * (x * z)
      /\ g.z = c[4] * (N * N) + c[6] * (N * y) + c[7] * (N * x) + c[8] * (x * y)
  <2>1. /\ N * N \in Int /\ N * x \in Int /\ N * y \in Int /\ N * z \in Int
        /\ x * y \in Int /\ x * z \in Int /\ y * z \in Int
    BY <1>1
  <2>2. QED
    BY <1>5, <1>6, <2>1 DEF Dot
<1>8. g.x = (N - y) * (N - z) * (D[5] - D[1]) + (N - y) * z * (D[6] - D[2])
            + y * (N - z) * (D[7] - D[3]) + y * z * (D[8] - D[4])
  BY <1>1, <1>4, <1>6, <1>7
<1>9. g.y = (N - x) * (N - z) * (D[3] - D[1]) + (N - x) * z * (D[4] - D[2])
            + x * (N - z) * (D[7] - D[5]) + x * z * (D[8] - D[6])
  BY <1>1, <1>4, <1>6, <1>7
<1>10. g.z = (N - x) * (N - y) * (D[2] - D[1]) + (N - x) * y * (D[4] - D[3])
             + x * (N - y) * (D[6] - D[5]) + x * y * (D[8] - D[7])
  BY <1>1, <1>4, <1>6, <1>7
<1>11. QED
  BY <1>8, <1>9, <1>10 DEF d, D, x, y, z, g

\* The corners of a cell, one by one.
LEMMA CornersOfCell ==
  ASSUME NEW p \in Point
  PROVE  LET a == p.x \div N
             b == p.y \div N
             c == p.z \div N
             D == Distances(p)
         IN  /\ a \in Int /\ b \in Int /\ c \in Int
             /\ D[1] = DistanceField[<<a, b, c>>]
             /\ D[2] = DistanceField[<<a, b, c + 1>>]
             /\ D[3] = DistanceField[<<a, b + 1, c>>]
             /\ D[4] = DistanceField[<<a, b + 1, c + 1>>]
             /\ D[5] = DistanceField[<<a + 1, b, c>>]
             /\ D[6] = DistanceField[<<a + 1, b, c + 1>>]
             /\ D[7] = DistanceField[<<a + 1, b + 1, c>>]
             /\ D[8] = DistanceField[<<a + 1, b + 1, c + 1>>]
<1> DEFINE a == p.x \div N
           b == p.y \div N
           c == p.z \div N
<1>1. a \in Int /\ b \in Int /\ c \in Int
  BY GridAssumption DEF Point
<1>2. \A i \in 1..8 :
        Neighbor(p, i) = <<a + NeighborOffset(i)[1], b + NeighborOffset(i)[2],
                           c + NeighborOffset(i)[3]>>
  BY DEF Neighbor
<1> HIDE DEF a, b, c
<1>3. /\ NeighborOffset(1) = <<0, 0, 0>> /\ NeighborOffset(2) = <<0, 0, 1>>
      /\ NeighborOffset(3) = <<0, 1, 0>> /\ NeighborOffset(4) = <<0, 1, 1>>
      /\ NeighborOffset(5) = <<1, 0, 0>> /\ NeighborOffset(6) = <<1, 0, 1>>
      /\ NeighborOffset(7) = <<1, 1, 0>> /\ NeighborOffset(8) = <<1, 1, 1>>
  BY DEF NeighborOffset
<1>4. /\ Neighbor(p, 1) = <<a, b, c>>
      /\ Neighbor(p, 2) = <<a, b, c + 1>>
      /\ Neighbor(p, 3) = <<a, b + 1, c>>
      /\ Neighbor(p, 4) = <<a, b + 1, c + 1>>
      /\ Neighbor(p, 5) = <<a + 1, b, c>>
      /\ Neighbor(p, 6) = <<a + 1, b, c + 1>>
      /\ Neighbor(p, 7) = <<a + 1, b + 1, c>>
      /\ Neighbor(p, 8) = <<a + 1, b + 1, c + 1>>
  BY <1>1, <1>2, <1>3
<1>5. QED
  BY <1>1, <1>4 DEF Distances, a, b, c

\* Where a number that goes up or down by one lies between multiples of N.
LEMMA DivModUnique ==
  ASSUME NEW q \in Int, NEW r \in 0..N-1
  PROVE  (N * q + r) \div N = q /\ ((N * q + r) % N) = r
<1> DEFINE n == N * q + r
           x == n \div N
           y == n % N
<1>0. N \in Nat \ {0}
  BY GridAssumption
<1>1. n \in Int /\ N * q \in Int
  BY <1>0
<1>2. n = N * x + y /\ y \in 0..N-1 /\ x \in Int
  BY <1>0, <1>1
<1>3. N * (q - x) = y - r
  BY <1>0, <1>2
<1>4. q - x < 1
  <2>1. SUFFICES ASSUME q - x >= 1 PROVE FALSE
    BY <1>2
  <2>2. N * (q - x) >= N
    BY <1>0, <1>2, <2>1
  <2>3. QED
    BY <1>0, <1>2, <1>3, <2>2
<1>5. q - x > -1
  <2>1. SUFFICES ASSUME q - x <= -1 PROVE FALSE
    BY <1>2
  <2>2. N * (q - x) <= -N
    BY <1>0, <1>2, <2>1
  <2>3. QED
    BY <1>0, <1>2, <1>3, <2>2
<1>6. q = x
  BY <1>2, <1>4, <1>5
<1>7. y = r
  BY <1>0, <1>2, <1>3, <1>6
<1>8. QED
  BY <1>6, <1>7

LEMMA StepOfCell ==
  ASSUME NEW v \in Int, NEW s \in {-1, 1}, v + s >= v - (v % N)
  PROVE  /\ v % N \in 0..N-1 /\ v \div N \in Int
         /\ \/ /\ (v + s) % N = (v % N) + s
               /\ (v + s) \div N = v \div N
            \/ /\ (v % N) + s = N
               /\ (v + s) % N = 0
               /\ (v + s) \div N = (v \div N) + 1
<1> DEFINE q == v \div N
           r == v % N
<1>0. N \in Nat \ {0}
  BY GridAssumption
<1>1. v = N * q + r /\ q \in Int /\ r \in 0..N-1
  BY <1>0
<1> HIDE DEF q, r
<1>2. r + s >= 0 /\ r + s <= N
  BY <1>0, <1>1 DEF r
<1>3. CASE r + s < N
  <2>1. r + s \in 0..N-1 /\ v + s = N * q + (r + s)
    BY <1>0, <1>1, <1>2, <1>3
  <2>2. (v + s) \div N = q /\ (v + s) % N = r + s
    BY <1>1, <2>1, DivModUnique
  <2>3. QED
    BY <1>1, <2>2 DEF q, r
<1>4. CASE r + s = N
  <2>1. N * (q + 1) = N * q + N
    BY <1>0, <1>1
  <2>2. v + s = N * (q + 1) + 0 /\ 0 \in 0..N-1 /\ q + 1 \in Int
    BY <1>0, <1>1, <1>4, <2>1
  <2>3. (v + s) \div N = q + 1 /\ (v + s) % N = 0
    BY <2>2, DivModUnique
  <2>4. QED
    BY <1>1, <1>4, <2>3 DEF q, r
<1>5. QED
  BY <1>0, <1>1, <1>2, <1>3, <1>4

LEMMA StepAlongX ==
  ASSUME NEW p \in Point, NEW s \in {-1, 1}, InterpPossible(p),
         InterpPossible([p EXCEPT !.x = p.x + s]),
         p.x + s >= p.x - (p.x % N)
  PROVE  Interpolated([p EXCEPT !.x = p.x + s])
           = Interpolated(p) + s * InterpolationGradient(p).x
<1> DEFINE q == [p EXCEPT !.x = p.x + s]
           d == Delta(p)
           e == Delta(q)
           D == Distances(p)
           E == Distances(q)
           g == InterpolationGradient(p)
<1>1. /\ q \in Point /\ q.x = p.x + s /\ q.y = p.y /\ q.z = p.z
      /\ p.x \in Int /\ p.y \in Int /\ p.z \in Int
  BY DEF Point
<1> HIDE DEF q
<1>2. /\ d \in Point /\ d.x \in Int /\ d.y \in Int /\ d.z \in Int
      /\ e \in Point /\ e.x \in Int /\ e.y \in Int /\ e.z \in Int
      /\ e.y = d.y /\ e.z = d.z
      /\ d.x = p.x % N /\ e.x = (p.x + s) % N /\ N \in Int
  BY <1>1, GridAssumption DEF Delta, Point
<1>3. D \in [1..8 -> Int] /\ E \in [1..8 -> Int]
  BY GridAssumption DEF Distances, InterpPossible, q
<1>4. \/ e.x = d.x + s /\ E = D
      \/ /\ d.x + s = N /\ e.x = 0
        /\ E[1] = D[5] /\ E[2] = D[6]
        /\ E[3] = D[7] /\ E[4] = D[8]
  <2>1. CASE /\ (p.x + s) % N = (p.x % N) + s
             /\ (p.x + s) \div N = p.x \div N
    <3>1. \A i \in 1..8 : Neighbor(q, i) = Neighbor(p, i)
      BY <1>1, <2>1 DEF Neighbor
    <3>2. E = D
      BY <3>1 DEF Distances
    <3>3. QED
      BY <1>2, <2>1, <3>2
  <2>2. CASE /\ (p.x % N) + s = N
             /\ (p.x + s) % N = 0
             /\ (p.x + s) \div N = (p.x \div N) + 1
    <3>1. /\ q.x \div N = (p.x \div N) + 1
          /\ q.y \div N = p.y \div N /\ q.z \div N = p.z \div N
      BY <1>1, <2>2
    <3>2. /\ E[1] = D[5] /\ E[2] = D[6]
          /\ E[3] = D[7] /\ E[4] = D[8]
      BY <1>1, <3>1, CornersOfCell
    <3>3. QED
      BY <1>2, <2>2, <3>2
  <2>3. QED
    BY <1>1, <2>1, <2>2, StepOfCell
<1>5. Interpolated(p) = Value(D, d) /\ Interpolated(q) = Value(E, e)
  BY <1>1, InterpolationOfPoint DEF Value, q
<1>6. g.x = (N - d.y) * (N - d.z) * (D[5] - D[1])
            + (N - d.y) * d.z * (D[6] - D[2])
            + d.y * (N - d.z) * (D[7] - D[3]) + d.y * d.z * (D[8] - D[4])
  BY GradientByCorner
<1> HIDE DEF d, e, D, E, g
<1>7. \A i \in 1..8 : D[i] \in Int /\ E[i] \in Int
  BY <1>3
<1> DEFINE From(i, j, k, l) ==
             (N - d.y) * (N - d.z) * i + (N - d.y) * d.z * j
             + d.y * (N - d.z) * k + d.y * d.z * l
<1>8. /\ Value(D, d) = (N - d.x) * From(D[1], D[2], D[3], D[4])
                        + d.x * From(D[5], D[6], D[7], D[8])
      /\ Value(E, e) = (N - e.x) * From(E[1], E[2], E[3], E[4])
                        + e.x * From(E[5], E[6], E[7], E[8])
  <2>1. ASSUME NEW F \in [1..8 -> Int], NEW f \in Point, f.y = d.y, f.z = d.z
        PROVE  Value(F, f) = (N - f.x) * From(F[1], F[2], F[3], F[4])
                             + f.x * From(F[5], F[6], F[7], F[8])
    <3>1. \A i \in 1..8 : F[i] \in Int
      OBVIOUS
    <3>2. f.x \in Int /\ f.y \in Int /\ f.z \in Int
      BY DEF Point
    <3>3. QED
      BY <1>2, <2>1, <3>1, <3>2, ValueByCorner
  <2>2. QED
    BY <1>2, <1>3, <2>1
<1> DEFINE lo == From(D[1], D[2], D[3], D[4])
           hi == From(D[5], D[6], D[7], D[8])
<1>9. lo \in Int /\ hi \in Int /\ g.x = hi - lo
  BY <1>2, <1>6, <1>7
<1>10. Value(E, e) = (N - (d.x + s)) * lo + (d.x + s) * hi
  <2>1. CASE e.x = d.x + s /\ E = D
    BY <1>8, <2>1
  <2>2. CASE /\ d.x + s = N /\ e.x = 0
             /\ E[1] = D[5] /\ E[2] = D[6]
             /\ E[3] = D[7] /\ E[4] = D[8]
    <3>1. From(E[1], E[2], E[3], E[4]) = hi
      BY <2>2
    <3>2. From(E[5], E[6], E[7], E[8]) \in Int
      BY <1>2, <1>7
    <3> HIDE DEF From, lo, hi
    <3>3. QED
      BY <1>2, <1>8, <1>9, <2>2, <3>1, <3>2
  <2>3. QED
    BY <1>4, <2>1, <2>2
<1>11. Value(D, d) = (N - d.x) * lo + d.x * hi
  BY <1>8
<1> HIDE DEF From, lo, hi
<1>12. Value(E, e) = Value(D, d) + s * g.x
  BY <1>2, <1>9, <1>10, <1>11
<1>13. QED
  BY <1>5, <1>12 DEF q, g

LEMMA StepAlongY ==
  ASSUME NEW p \in Point, NEW s \in {-1, 1}, InterpPossible(p),
         InterpPossible([p EXCEPT !.y = p.y + s]),
         p.y + s >= p.y - (p.y % N)
  PROVE  Interpolated([p EXCEPT !.y = p.y + s])
           = Interpolated(p) + s * InterpolationGradient(p).y
<1> DEFINE q == [p EXCEPT !.y = p.y + s]
           d == Delta(p)
           e == Delta(q)
           D == Distances(p)
           E == Distances(q)
           g == InterpolationGradient(p)
<1>1. /\ q \in Point /\ q.y = p.y + s /\ q.x = p.x /\ q.z = p.z
      /\ p.x \in Int /\ p.y \in Int /\ p.z \in Int
  BY DEF Point
<1> HIDE DEF q
<1>2. /\ d \in Point /\ d.x \in Int /\ d.y \in Int /\ d.z \in Int
      /\ e \in Point /\ e.x \in Int /\ e.y \in Int /\ e.z \in Int
      /\ e.x = d.x /\ e.z = d.z
      /\ d.y = p.y % N /\ e.y = (p.y + s) % N /\ N \in Int
  BY <1>1, GridAssumption DEF Delta, Point
<1>3. D \in [1..8 -> Int] /\ E \in [1..8 -> Int]
  BY GridAssumption DEF Distances, InterpPossible, q
<1>4. \/ e.y = d.y + s /\ E = D
      \/ /\ d.y + s = N /\ e.y = 0
        /\ E[1] = D[3] /\ E[2] = D[4]
        /\ E[5] = D[7] /\ E[6] = D[8]
  <2>1. CASE /\ (p.y + s) % N = (p.y % N) + s
             /\ (p.y + s) \div N = p.y \div N
    <3>1. \A i \in 1..8 : Neighbor(q, i) = Neighbor(p, i)
      BY <1>1, <2>1 DEF Neighbor
    <3>2. E = D
      BY <3>1 DEF Distances
    <3>3. QED
      BY <1>2, <2>1, <3>2
  <2>2. CASE /\ (p.y % N) + s = N
             /\ (p.y + s) % N = 0
             /\ (p.y + s) \div N = (p.y \div N) + 1
    <3>1. /\ q.y \div N = (p.y \div N) + 1
          /\ q.x \div N = p.x \div N /\ q.z \div N = p.z \div N
      BY <1>1, <2>2
    <3>2. /\ E[1] = D[3] /\ E[2] = D[4]
          /\ E[5] = D[7] /\ E[6] = D[8]
      BY <1>1, <3>1, CornersOfCell
    <3>3. QED
      BY <1>2, <2>2, <3>2
  <2>3. QED
    BY <1>1, <2>1, <2>2, StepOfCell
<1>5. Interpolated(p) = Value(D, d) /\ Interpolated(q) = Value(E, e)
  BY <1>1, InterpolationOfPoint DEF Value, q
<1>6. g.y = (N - d.x) * (N - d.z) * (D[3] - D[1])
            + (N - d.x) * d.z * (D[4] - D[2])
            + d.x * (N - d.z) * (D[7] - D[5]) + d.x * d.z * (D[8] - D[6])
  BY GradientByCorner
<1> HIDE DEF d, e, D, E, g
<1>7. \A i \in 1..8 : D[i] \in Int /\ E[i] \in Int
  BY <1>3
<1> DEFINE From(i, j, k, l) ==
             (N - d.x) * (N - d.z) * i + (N - d.x) * d.z * j
             + d.x * (N - d.z) * k + d.x * d.z * l
<1>8. /\ Value(D, d) = (N - d.y) * From(D[1], D[2], D[5], D[6])
                        + d.y * From(D[3], D[4], D[7], D[8])
      /\ Value(E, e) = (N - e.y) * From(E[1], E[2], E[5], E[6])
                        + e.y * From(E[3], E[4], E[7], E[8])
  <2>1. ASSUME NEW F \in [1..8 -> Int], NEW f \in Point, f.x = d.x, f.z = d.z
        PROVE  Value(F, f) = (N - f.y) * From(F[1], F[2], F[5], F[6])
                             + f.y * From(F[3], F[4], F[7], F[8])
    <3>1. \A i \in 1..8 : F[i] \in Int
      OBVIOUS
    <3>2. f.x \in Int /\ f.y \in Int /\ f.z \in Int
      BY DEF Point
    <3> DEFINE x == f.x
               y == f.y
               z == f.z
               X == N - x
               Y == N - y
               Z == N - z
    <3>3. Value(F, f) = X * Y * Z * F[1] + X * Y * z * F[2] + X * y * Z * F[3]
                        + X * y * z * F[4] + x * Y * Z * F[5] + x * Y * z * F[6]
                        + x * y * Z * F[7] + x * y * z * F[8]
      BY ValueByCorner
    <3>4. /\ x \in Int /\ y \in Int /\ z \in Int
          /\ X \in Int /\ Y \in Int /\ Z \in Int
      BY <1>2, <3>2
    <3>5. /\ d.x = x /\ d.z = z
          /\ N - d.x = X /\ N - d.z = Z /\ N - f.y = Y
      BY <2>1
    <3> HIDE DEF x, y, z, X, Y, Z
    <3>6. /\ X * Y * Z * F[1] = Y * (X * Z * F[1])
          /\ X * Y * z * F[2] = Y * (X * z * F[2])
          /\ X * y * Z * F[3] = y * (X * Z * F[3])
          /\ X * y * z * F[4] = y * (X * z * F[4])
          /\ x * Y * Z * F[5] = Y * (x * Z * F[5])
          /\ x * Y * z * F[6] = Y * (x * z * F[6])
          /\ x * y * Z * F[7] = y * (x * Z * F[7])
          /\ x * y * z * F[8] = y * (x * z * F[8])
      BY <3>1, <3>4
    <3>7. /\ From(F[1], F[2], F[5], F[6]) =
               X * Z * F[1] + X * z * F[2]
               + x * Z * F[5] + x * z * F[6]
          /\ From(F[3], F[4], F[7], F[8]) =
               X * Z * F[3] + X * z * F[4]
               + x * Z * F[7] + x * z * F[8]
      BY <3>5, Zenon
    <3> HIDE DEF From
    <3>8. Value(F, f) = Y * From(F[1], F[2], F[5], F[6])
                        + y * From(F[3], F[4], F[7], F[8])
      BY <3>1, <3>3, <3>4, <3>6, <3>7
    <3>9. QED
      BY <3>5, <3>8 DEF y
  <2>2. QED
    BY <1>2, <1>3, <2>1
<1> DEFINE lo == From(D[1], D[2], D[5], D[6])
           hi == From(D[3], D[4], D[7], D[8])
<1>9. lo \in Int /\ hi \in Int /\ g.y = hi - lo
  BY <1>2, <1>6, <1>7
<1>10. Value(E, e) = (N - (d.y + s)) * lo + (d.y + s) * hi
  <2>1. CASE e.y = d.y + s /\ E = D
    BY <1>8, <2>1
  <2>2. CASE /\ d.y + s = N /\ e.y = 0
             /\ E[1] = D[3] /\ E[2] = D[4]
             /\ E[5] = D[7] /\ E[6] = D[8]
    <3>1. From(E[1], E[2], E[5], E[6]) = hi
      BY <2>2
    <3>2. From(E[3], E[4], E[7], E[8]) \in Int
      BY <1>2, <1>7
    <3> HIDE DEF From, lo, hi
    <3>3. QED
      BY <1>2, <1>8, <1>9, <2>2, <3>1, <3>2
  <2>3. QED
    BY <1>4, <2>1, <2>2
<1>11. Value(D, d) = (N - d.y) * lo + d.y * hi
  BY <1>8
<1> HIDE DEF From, lo, hi
<1>12. Value(E, e) = Value(D, d) + s * g.y
  BY <1>2, <1>9, <1>10, <1>11
<1>13. QED
  BY <1>5, <1>12 DEF q, g

LEMMA StepAlongZ ==
  ASSUME NEW p \in Point, NEW s \in {-1, 1}, InterpPossible(p),
         InterpPossible([p EXCEPT !.z = p.z + s]),
         p.z + s >= p.z - (p.z % N)
  PROVE  Interpolated([p EXCEPT !.z = p.z + s])
           = Interpolated(p) + s * InterpolationGradient(p).z
<1> DEFINE q == [p EXCEPT !.z = p.z + s]
           d == Delta(p)
           e == Delta(q)
           D == Distances(p)
           E == Distances(q)
           g == InterpolationGradient(p)
<1>1. /\ q \in Point /\ q.z = p.z + s /\ q.x = p.x /\ q.y = p.y
      /\ p.x \in Int /\ p.y \in Int /\ p.z \in Int
  BY DEF Point
<1> HIDE DEF q
<1>2. /\ d \in Point /\ d.x \in Int /\ d.y \in Int /\ d.z \in Int
      /\ e \in Point /\ e.x \in Int /\ e.y \in Int /\ e.z \in Int
      /\ e.x = d.x /\ e.y = d.y
      /\ d.z = p.z % N /\ e.z = (p.z + s) % N /\ N \in Int
  BY <1>1, GridAssumption DEF Delta, Point
<1>3. D \in [1..8 -> Int] /\ E \in [1..8 -> Int]
  BY GridAssumption DEF Distances, InterpPossible, q
<1>4. \/ e.z = d.z + s /\ E = D
      \/ /\ d.z + s = N /\ e.z = 0
        /\ E[1] = D[2] /\ E[3] = D[4]
        /\ E[5] = D[6] /\ E[7] = D[8]
  <2>1. CASE /\ (p.z + s) % N = (p.z % N) + s
             /\ (p.z + s) \div N = p.z \div N
    <3>1. \A i \in 1..8 : Neighbor(q, i) = Neighbor(p, i)
      BY <1>1, <2>1 DEF Neighbor
    <3>2. E = D
      BY <3>1 DEF Distances
    <3>3. QED
      BY <1>2, <2>1, <3>2
  <2>2. CASE /\ (p.z % N) + s = N
             /\ (p.z + s) % N = 0
             /\ (p.z + s) \div N = (p.z \div N) + 1
    <3>1. /\ q.z \div N = (p.z \div N) + 1
          /\ q.x \div N = p.x \div N /\ q.y \div N = p.y \div N
      BY <1>1, <2>2
    <3>2. /\ E[1] = D[2] /\ E[3] = D[4]
          /\ E[5] = D[6] /\ E[7] = D[8]
      BY <1>1, <3>1, CornersOfCell
    <3>3. QED
      BY <1>2, <2>2, <3>2
  <2>3. QED
    BY <1>1, <2>1, <2>2, StepOfCell
<1>5. Interpolated(p) = Value(D, d) /\ Interpolated(q) = Value(E, e)
  BY <1>1, InterpolationOfPoint DEF Value, q
<1>6. g.z = (N - d.x) * (N - d.y) * (D[2] - D[1])
            + (N - d.x) * d.y * (D[4] - D[3])
            + d.x * (N - d.y) * (D[6] - D[5]) + d.x * d.y * (D[8] - D[7])
  BY GradientByCorner
<1> HIDE DEF d, e, D, E, g
<1>7. \A i \in 1..8 : D[i] \in Int /\ E[i] \in Int
  BY <1>3
<1> DEFINE From(i, j, k, l) ==
             (N - d.x) * (N - d.y) * i + (N - d.x) * d.y * j
             + d.x * (N - d.y) * k + d.x * d.y * l
<1>8. /\ Value(D, d) = (N - d.z) * From(D[1], D[3], D[5], D[7])
                        + d.z * From(D[2], D[4], D[6], D[8])
      /\ Value(E, e) = (N - e.z) * From(E[1], E[3], E[5], E[7])
                        + e.z * From(E[2], E[4], E[6], E[8])
  <2>1. ASSUME NEW F \in [1..8 -> Int], NEW f \in Point, f.x = d.x, f.y = d.y
        PROVE  Value(F, f) = (N - f.z) * From(F[1], F[3], F[5], F[7])
                             + f.z * From(F[2], F[4], F[6], F[8])
    <3>1. \A i \in 1..8 : F[i] \in Int
      OBVIOUS
    <3>2. f.x \in Int /\ f.y \in Int /\ f.z \in Int
      BY DEF Point
    <3> DEFINE x == f.x
               y == f.y
               z == f.z
               X == N - x
               Y == N - y
               Z == N - z
    <3>3. Value(F, f) = X * Y * Z * F[1] + X * Y * z * F[2] + X * y * Z * F[3]
                        + X * y * z * F[4] + x * Y * Z * F[5] + x * Y * z * F[6]
                        + x * y * Z * F[7] + x * y * z * F[8]
      BY ValueByCorner
    <3>4. /\ x \in Int /\ y \in Int /\ z \in Int
          /\ X \in Int /\ Y \in Int /\ Z \in Int
      BY <1>2, <3>2
    <3>5. /\ d.x = x /\ d.y = y
          /\ N - d.x = X /\ N - d.y = Y /\ N - f.z = Z
      BY <2>1
    <3> HIDE DEF x, y, z, X, Y, Z
    <3>6. /\ X * Y * Z * F[1] = Z * (X * Y * F[1])
          /\ X * Y * z * F[2] = z * (X * Y * F[2])
          /\ X * y * Z * F[3] = Z * (X * y * F[3])
          /\ X * y * z * F[4] = z * (X * y * F[4])
          /\ x * Y * Z * F[5] = Z * (x * Y * F[5])
          /\ x * Y * z * F[6] = z * (x * Y * F[6])
          /\ x * y * Z * F[7] = Z * (x * y * F[7])
          /\ x * y * z * F[8] = z * (x * y * F[8])
      BY <3>1, <3>4
    <3>7. /\ From(F[1], F[3], F[5], F[7]) =
               X * Y * F[1] + X * y * F[3]
               + x * Y * F[5] + x * y * F[7]
          /\ From(F[2], F[4], F[6], F[8]) =
               X * Y * F[2] + X * y * F[4]
               + x * Y * F[6] + x * y * F[8]
      BY <3>5, Zenon
    <3> HIDE DEF From
    <3>8. Value(F, f) = Z * From(F[1], F[3], F[5], F[7])
                        + z * From(F[2], F[4], F[6], F[8])
      BY <3>1, <3>3, <3>4, <3>6, <3>7
    <3>9. QED
      BY <3>5, <3>8 DEF z
  <2>2. QED
    BY <1>2, <1>3, <2>1
<1> DEFINE lo == From(D[1], D[3], D[5], D[7])
           hi == From(D[2], D[4], D[6], D[8])
<1>9. lo \in Int /\ hi \in Int /\ g.z = hi - lo
  BY <1>2, <1>6, <1>7
<1>10. Value(E, e) = (N - (d.z + s)) * lo + (d.z + s) * hi
  <2>1. CASE e.z = d.z + s /\ E = D
    BY <1>8, <2>1
  <2>2. CASE /\ d.z + s = N /\ e.z = 0
             /\ E[1] = D[2] /\ E[3] = D[4]
             /\ E[5] = D[6] /\ E[7] = D[8]
    <3>1. From(E[1], E[3], E[5], E[7]) = hi
      BY <2>2
    <3>2. From(E[2], E[4], E[6], E[8]) \in Int
      BY <1>2, <1>7
    <3> HIDE DEF From, lo, hi
    <3>3. QED
      BY <1>2, <1>8, <1>9, <2>2, <3>1, <3>2
  <2>3. QED
    BY <1>4, <2>1, <2>2
<1>11. Value(D, d) = (N - d.z) * lo + d.z * hi
  BY <1>8
<1> HIDE DEF From, lo, hi
<1>12. Value(E, e) = Value(D, d) + s * g.z
  BY <1>2, <1>9, <1>10, <1>11
<1>13. QED
  BY <1>5, <1>12 DEF q, g

-------------------------------------------------------------------------------
(* The analytic Jacobian *)

LEMMA InterpolationInt ==
  ASSUME NEW p \in Point, InterpPossible(p)
  PROVE  /\ Interpolated(p) \in Int
         /\ InterpolationGradient(p).x \in Int
         /\ InterpolationGradient(p).y \in Int
         /\ InterpolationGradient(p).z \in Int
<1> DEFINE d == Delta(p)
           D == Distances(p)
<1>1. d \in Point /\ d.x \in Int /\ d.y \in Int /\ d.z \in Int /\ N \in Int
  BY GridAssumption DEF Delta, Point
<1>2. D \in [1..8 -> Int]
  BY GridAssumption DEF Distances, InterpPossible
<1>3. \A i \in 1..8 : D[i] \in Int
  BY <1>2
<1>4. Interpolated(p) = Value(D, d)
  BY InterpolationOfPoint DEF Value
<1> HIDE DEF d, D
<1>5. Value(D, d) \in Int
  <2> DEFINE x == d.x
             y == d.y
             z == d.z
  <2>1. /\ x \in Int /\ y \in Int /\ z \in Int
        /\ N - x \in Int /\ N - y \in Int /\ N - z \in Int
    BY <1>1
  <2>2. Value(D, d) = (N - x) * (N - y) * (N - z) * D[1]
                      + (N - x) * (N - y) * z * D[2]
                      + (N - x) * y * (N - z) * D[3] + (N - x) * y * z * D[4]
                      + x * (N - y) * (N - z) * D[5] + x * (N - y) * z * D[6]
                      + x * y * (N - z) * D[7] + x * y * z * D[8]
    BY <1>1, <1>2, ValueByCorner
  <2> HIDE DEF x, y, z
  <2>3. /\ (N - x) * (N - y) * (N - z) \in Int /\ (N - x) * (N - y) * z \in Int
        /\ (N - x) * y * (N - z) \in Int /\ (N - x) * y * z \in Int
        /\ x * (N - y) * (N - z) \in Int /\ x * (N - y) * z \in Int
        /\ x * y * (N - z) \in Int /\ x * y * z \in Int
    BY <2>1
  <2>4. QED
    BY <1>3, <2>2, <2>3
<1>6. /\ InterpolationGradient(p).x \in Int
      /\ InterpolationGradient(p).y \in Int
      /\ InterpolationGradient(p).z \in Int
  BY <1>1, <1>3, GradientByCorner DEF d, D
<1>7. QED
  BY <1>4, <1>5, <1>6

\* One sub-step along an axis, either way.
UnitSteps == {c \in [x : {-1, 0, 1}, y : {-1, 0, 1}, z : {-1, 0, 1}] :
                \/ c.x # 0 /\ c.y = 0 /\ c.z = 0
                \/ c.x = 0 /\ c.y # 0 /\ c.z = 0
                \/ c.x = 0 /\ c.y = 0 /\ c.z # 0}

\* A step that does not leave the cell backwards changes the interpolated
\* distance by the gradient.
LEMMA StepByGradient ==
  ASSUME NEW p \in Point, NEW c \in UnitSteps,
         InterpPossible(p), InterpPossible(Plus(p, c)),
         \A axis \in {"x", "y", "z"} :
           Plus(p, c)[axis] >= p[axis] - (p[axis] % N)
  PROVE  LET g == InterpolationGradient(p)
         IN  Interpolated(Plus(p, c))
               = Interpolated(p) + (c.x * g.x + c.y * g.y + c.z * g.z)
<1> DEFINE g == InterpolationGradient(p)
<1>1. /\ Interpolated(p) \in Int
      /\ g.x \in Int /\ g.y \in Int /\ g.z \in Int
  BY InterpolationInt
<1>2. /\ p.x \in Int /\ p.y \in Int /\ p.z \in Int
      /\ p = [x |-> p.x, y |-> p.y, z |-> p.z]
  BY DEF Point
<1>3. /\ c.x \in {-1, 0, 1} /\ c.y \in {-1, 0, 1} /\ c.z \in {-1, 0, 1}
      /\ Plus(p, c) = [x |-> p.x + c.x, y |-> p.y + c.y, z |-> p.z + c.z]
  BY DEF UnitSteps, Plus
<1>4. /\ p.x + c.x >= p.x - (p.x % N)
      /\ p.y + c.y >= p.y - (p.y % N)
      /\ p.z + c.z >= p.z - (p.z % N)
  BY <1>3
<1> HIDE DEF g
<1>5. CASE c.x # 0 /\ c.y = 0 /\ c.z = 0
  <2>1. c.x \in {-1, 1}
    BY <1>3, <1>5
  <2>2. Plus(p, c) = [p EXCEPT !.x = p.x + c.x]
    BY <1>2, <1>3, <1>5
  <2>3. Interpolated(Plus(p, c)) = Interpolated(p) + c.x * g.x
    BY <1>4, <2>1, <2>2, StepAlongX DEF g
  <2>4. c.x * g.x + c.y * g.y + c.z * g.z = c.x * g.x
    BY <1>1, <1>3, <1>5
  <2>5. QED
    BY <2>3, <2>4 DEF g
<1>6. CASE c.y # 0 /\ c.x = 0 /\ c.z = 0
  <2>1. c.y \in {-1, 1}
    BY <1>3, <1>6
  <2>2. Plus(p, c) = [p EXCEPT !.y = p.y + c.y]
    BY <1>2, <1>3, <1>6
  <2>3. Interpolated(Plus(p, c)) = Interpolated(p) + c.y * g.y
    BY <1>4, <2>1, <2>2, StepAlongY DEF g
  <2>4. c.x * g.x + c.y * g.y + c.z * g.z = c.y * g.y
    BY <1>1, <1>3, <1>6
  <2>5. QED
    BY <2>3, <2>4 DEF g
<1>7. CASE c.z # 0 /\ c.x = 0 /\ c.y = 0
  <2>1. c.z \in {-1, 1}
    BY <1>3, <1>7
  <2>2. Plus(p, c) = [p EXCEPT !.z = p.z + c.z]
    BY <1>2, <1>3, <1>7
  <2>3. Interpolated(Plus(p, c)) = Interpolated(p) + c.z * g.z
    BY <1>4, <2>1, <2>2, StepAlongZ DEF g
  <2>4. c.x * g.x + c.y * g.y + c.z * g.z = c.z * g.z
    BY <1>1, <1>3, <1>7
  <2>5. QED
    BY <2>3, <2>4 DEF g
<1>8. QED
  BY <1>5, <1>6, <1>7 DEF UnitSteps

LEMMA SinCosNegative ==
  ASSUME NEW a \in Int
  PROVE  Sin(-a) = -Sin(a) /\ Cos(-a) = Cos(a)
<1>1. (-a) % 4 = (4 - (a % 4)) % 4
  OBVIOUS
<1>2. QED
  BY <1>1, SinCosValues, -a \in Int

LEMMA SinCosQuarter ==
  ASSUME NEW a \in Int
  PROVE  Sin(a + 1) = Cos(a) /\ Cos(a + 1) = -Sin(a)
<1>1. (a + 1) % 4 = ((a % 4) + 1) % 4
  OBVIOUS
<1>2. QED
  BY <1>1, SinCosValues, a + 1 \in Int

\* The column of a coordinate in the rows of a node.
Column(node, reference, reading, p, k) ==
  LET rows == IF node = "reference" THEN ByReference(reference, reading, p)
                                    ELSE ByReading(reference, reading, p)
  IN  [x |-> rows.x[k], y |-> rows.y[k], z |-> rows.z[k]]

\* The columns of x, y and z are steps along an axis of the reading submap.
LEMMA ColumnsAreSteps ==
  ASSUME NEW node \in Nodes, NEW o \in Pose, NEW e \in Pose, NEW p \in Point,
         NEW k \in 1..3
  PROVE  Column(node, o, e, p, k) \in UnitSteps
<1>1. e.yaw \in Int
  BY DEF Pose
<1>2. /\ Sin(e.yaw) \in {-1, 0, 1} /\ Cos(e.yaw) \in {-1, 0, 1}
      /\ Sin(e.yaw) = 0 <=> Cos(e.yaw) # 0
  BY <1>1, SinCosValues
<1>3. -Sin(e.yaw) \in {-1, 0, 1} /\ -Cos(e.yaw) \in {-1, 0, 1}
  BY <1>2
<1>4. -Sin(e.yaw) = 0 <=> Sin(e.yaw) = 0
  BY <1>2
<1>5. -Cos(e.yaw) = 0 <=> Cos(e.yaw) = 0
  BY <1>2
<1> DEFINE c == Column(node, o, e, p, k)
<1>6. /\ c.x \in {-1, 0, 1} /\ c.y \in {-1, 0, 1} /\ c.z \in {-1, 0, 1}
      /\ \/ c.x # 0 /\ c.y = 0 /\ c.z = 0
         \/ c.x = 0 /\ c.y # 0 /\ c.z = 0
         \/ c.x = 0 /\ c.y = 0 /\ c.z # 0
  <2>1. CASE node = "reference"
    <3>1. /\ c.x = <<Cos(e.yaw), Sin(e.yaw), 0>>[k]
          /\ c.y = <<-Sin(e.yaw), Cos(e.yaw), 0>>[k]
          /\ c.z = <<0, 0, 1>>[k]
      BY <2>1 DEF Column, ByReference
    <3> HIDE DEF c
    <3>2. QED
      BY <1>2, <1>3, <1>4, <1>5, <3>1
  <2>2. CASE node = "reading"
    <3>1. /\ c.x = <<-Cos(e.yaw), -Sin(e.yaw), 0>>[k]
          /\ c.y = <<Sin(e.yaw), -Cos(e.yaw), 0>>[k]
          /\ c.z = <<0, 0, -1>>[k]
      BY <2>2 DEF Column, ByReading
    <3> HIDE DEF c
    <3>2. QED
      BY <1>2, <1>3, <1>4, <1>5, <3>1
  <2>3. QED
    BY <2>1, <2>2 DEF Nodes
<1>7. c = [x |-> c.x, y |-> c.y, z |-> c.z]
  BY DEF Column
<1> HIDE DEF c
<1>8. c \in UnitSteps
  BY <1>6, <1>7 DEF UnitSteps
<1>9. QED
  BY <1>8 DEF c

\* A step of a node along x, y or z moves the point by the column.
LEMMA NodeStepMovesPoint ==
  ASSUME NEW poses \in [Nodes -> Pose], NEW node \in Nodes, NEW p \in Point,
         NEW k \in 1..3
  PROVE  LET o == poses.reference
             e == poses.reading
             moved == [poses EXCEPT ![node] = LocalStep(@, k, 1)]
         IN  /\ moved \in [Nodes -> Pose]
             /\ ReadingCoordinate(moved.reference, moved.reading, p)
                  = Plus(ReadingCoordinate(o, e, p), Column(node, o, e, p, k))
<1> DEFINE o == poses.reference
           e == poses.reading
           moved == [poses EXCEPT ![node] = LocalStep(@, k, 1)]
           u == [x |-> IF k = 1 THEN 1 ELSE 0, y |-> IF k = 2 THEN 1 ELSE 0,
                 z |-> IF k = 3 THEN 1 ELSE 0]
           r == Rotate(o.yaw, p)
           m == Minus(o, e)
           v == Plus(r, m)
<1>1. o \in Pose /\ e \in Pose
  BY DEF Nodes
<1>2. \A pose \in Pose :
        /\ LocalStep(pose, k, 1) = [x |-> pose.x + u.x, y |-> pose.y + u.y,
                                    z |-> pose.z + u.z, yaw |-> pose.yaw]
        /\ LocalStep(pose, k, 1) \in Pose
  <2> SUFFICES ASSUME NEW pose \in Pose
               PROVE  /\ LocalStep(pose, k, 1) =
                           [x |-> pose.x + u.x, y |-> pose.y + u.y,
                            z |-> pose.z + u.z, yaw |-> pose.yaw]
                      /\ LocalStep(pose, k, 1) \in Pose
    OBVIOUS
  <2>1. /\ pose.x \in Int /\ pose.y \in Int /\ pose.z \in Int /\ pose.yaw \in Int
        /\ pose = [x |-> pose.x, y |-> pose.y, z |-> pose.z, yaw |-> pose.yaw]
    BY DEF Pose
  <2>2. CASE k = 1
    <3>1. LocalStep(pose, k, 1) = [pose EXCEPT !.x = pose.x + 1]
      BY <2>2 DEF LocalStep, Coordinates
    <3>2. QED
      BY <2>1, <2>2, <3>1 DEF Pose
  <2>3. CASE k = 2
    <3>1. LocalStep(pose, k, 1) = [pose EXCEPT !.y = pose.y + 1]
      BY <2>3 DEF LocalStep, Coordinates
    <3>2. QED
      BY <2>1, <2>3, <3>1 DEF Pose
  <2>4. CASE k = 3
    <3>1. LocalStep(pose, k, 1) = [pose EXCEPT !.z = pose.z + 1]
      BY <2>4 DEF LocalStep, Coordinates
    <3>2. QED
      BY <2>1, <2>4, <3>1 DEF Pose
  <2>5. QED
    BY <2>2, <2>3, <2>4
<1>3. moved \in [Nodes -> Pose]
  <2>1. poses[node] \in Pose
    OBVIOUS
  <2>2. LocalStep(poses[node], k, 1) \in Pose
    BY <1>2, <2>1
  <2>3. QED
    BY <2>2
<1>4. /\ r \in Point /\ m \in Point /\ u \in Point
      /\ e.yaw \in Int /\ -e.yaw \in Int
  <2>1. r \in Point /\ m \in Point
    <3> HIDE DEF o, e
    <3>1. QED
      BY <1>1, PointOperators DEF Pose, Point
  <2>2. u \in Point
    BY DEF Point
  <2>3. e.yaw \in Int /\ -e.yaw \in Int
    BY <1>1 DEF Pose
  <2>4. QED
    BY <2>1, <2>2, <2>3
<1>5. v \in Point
  BY <1>4, PointOperators DEF Point
<1>6. ReadingCoordinate(o, e, p) = Rotate(-e.yaw, v)
  BY DEF ReadingCoordinate
<1>7. CASE node = "reference"
  <2>1. /\ moved.reference = LocalStep(o, k, 1) /\ moved.reading = e
        /\ LocalStep(o, k, 1).yaw = o.yaw
    BY <1>1, <1>2, <1>7 DEF Nodes
  <2>2. Minus(LocalStep(o, k, 1), e) = Plus(m, u)
    BY <1>1, <1>2 DEF Minus, Plus, Pose
  <2>3. ReadingCoordinate(moved.reference, moved.reading, p)
          = Rotate(-e.yaw, Plus(r, Plus(m, u)))
    BY <2>1, <2>2 DEF ReadingCoordinate
  <2>4. Plus(r, Plus(m, u)) = Plus(v, u)
    <3> HIDE DEF r, m, u
    <3>1. QED
      BY <1>4 DEF Plus, Point
  <2>5. Rotate(-e.yaw, Plus(v, u))
          = Plus(Rotate(-e.yaw, v), Rotate(-e.yaw, u))
    <3> HIDE DEF v, u
    <3>1. QED
      BY <1>4, <1>5, RotateLinear DEF Point
  <2>6. Rotate(-e.yaw, u) = Column(node, o, e, p, k)
    <3>1. Sin(-e.yaw) = -Sin(e.yaw) /\ Cos(-e.yaw) = Cos(e.yaw)
      BY <1>4, SinCosNegative
    <3>2. Column(node, o, e, p, k)
            = [x |-> <<Cos(e.yaw), Sin(e.yaw), 0>>[k],
               y |-> <<-Sin(e.yaw), Cos(e.yaw), 0>>[k], z |-> <<0, 0, 1>>[k]]
      BY <1>7 DEF Column, ByReference
    <3>3. Sin(e.yaw) \in {-1, 0, 1} /\ Cos(e.yaw) \in {-1, 0, 1}
      BY <1>4, SinCosValues
    <3> HIDE DEF o, e
    <3>4. QED
      BY <3>1, <3>2, <3>3 DEF Rotate
  <2>7. QED
    BY <1>3, <1>6, <2>3, <2>4, <2>5, <2>6
<1>8. CASE node = "reading"
  <2>1. /\ moved.reading = LocalStep(e, k, 1) /\ moved.reference = o
        /\ LocalStep(e, k, 1).yaw = e.yaw
    BY <1>1, <1>2, <1>8 DEF Nodes
  <2>2. Minus(o, LocalStep(e, k, 1)) = Minus(m, u)
    BY <1>1, <1>2 DEF Minus, Pose
  <2>3. ReadingCoordinate(moved.reference, moved.reading, p)
          = Rotate(-e.yaw, Plus(r, Minus(m, u)))
    BY <2>1, <2>2 DEF ReadingCoordinate
  <2>4. Plus(r, Minus(m, u)) = Minus(v, u)
    <3> HIDE DEF r, m, u
    <3>1. QED
      BY <1>4 DEF Plus, Minus, Point
  <2>5. Rotate(-e.yaw, Minus(v, u))
          = Minus(Rotate(-e.yaw, v), Rotate(-e.yaw, u))
    <3> HIDE DEF v, u
    <3>1. QED
      BY <1>4, <1>5, RotateLinear DEF Point
  <2>6. /\ Rotate(-e.yaw, u).x = -Column(node, o, e, p, k).x
        /\ Rotate(-e.yaw, u).y = -Column(node, o, e, p, k).y
        /\ Rotate(-e.yaw, u).z = -Column(node, o, e, p, k).z
    <3>1. Sin(-e.yaw) = -Sin(e.yaw) /\ Cos(-e.yaw) = Cos(e.yaw)
      BY <1>4, SinCosNegative
    <3>2. Column(node, o, e, p, k)
            = [x |-> <<-Cos(e.yaw), -Sin(e.yaw), 0>>[k],
               y |-> <<Sin(e.yaw), -Cos(e.yaw), 0>>[k], z |-> <<0, 0, -1>>[k]]
      BY <1>8 DEF Column, ByReading
    <3>3. Sin(e.yaw) \in {-1, 0, 1} /\ Cos(e.yaw) \in {-1, 0, 1}
      BY <1>4, SinCosValues
    <3> HIDE DEF o, e
    <3>4. QED
      BY <3>1, <3>2, <3>3 DEF Rotate
  <2>7. Minus(Rotate(-e.yaw, v), Rotate(-e.yaw, u))
          = Plus(Rotate(-e.yaw, v), Column(node, o, e, p, k))
    <3> DEFINE w == Rotate(-e.yaw, v)
               t == Rotate(-e.yaw, u)
               c == Column(node, o, e, p, k)
    <3>1. w \in Point
      BY <1>4, <1>5, PointOperators DEF Point
    <3>2. c.x \in Int /\ c.y \in Int /\ c.z \in Int
      BY <1>1, ColumnsAreSteps DEF UnitSteps
    <3>3. t.x = -c.x /\ t.y = -c.y /\ t.z = -c.z
      BY <2>6
    <3> HIDE DEF w, t, c
    <3>4. Minus(w, t) = Plus(w, c)
      BY <3>1, <3>2, <3>3 DEF Minus, Plus, Point
    <3>5. QED
      BY <3>4 DEF w, t, c
  <2>8. QED
    BY <1>3, <1>6, <2>3, <2>4, <2>5, <2>7
<1>9. QED
  BY <1>7, <1>8 DEF Nodes

LEMMA ReadingPointInSpace ==
  ASSUME NEW o \in Pose, NEW e \in Pose, NEW p \in Point
  PROVE  ReadingCoordinate(o, e, p) \in Point
<1>1. Rotate(o.yaw, p) \in Point /\ Minus(o, e) \in Point
  BY PointOperators DEF Pose, Point
<1>2. Plus(Rotate(o.yaw, p), Minus(o, e)) \in Point
  BY <1>1, PointOperators DEF Point
<1>3. -e.yaw \in Int
  BY DEF Pose
<1>4. QED
  BY <1>2, <1>3, PointOperators DEF ReadingCoordinate, Point

\* The entry of the Jacobian is the gradient along the column.
LEMMA JacobianByColumn ==
  ASSUME NEW node \in Nodes, NEW point \in Points, NEW o \in Pose,
         NEW e \in Pose, NEW k \in 1..4,
         InterpPossible(ReadingCoordinate(o, e, point.position))
  PROVE  LET c == Column(node, o, e, point.position, k)
             g == InterpolationGradient(ReadingCoordinate(o, e, point.position))
         IN  Jacobian(node, point, o, e)[k]
               = -point.weight * (g.x * c.x + g.y * c.y + g.z * c.z)
BY DEF Jacobian, Column

LEMMA TranslationColumnsHold ==
  ASSUME parameters \in [Nodes -> Pose], NEW node \in Nodes,
         NEW point \in Points
  PROVE  TranslationColumns(node, point)
<1> DEFINE o == parameters.reference
           e == parameters.reading
           p == ReadingCoordinate(o, e, point.position)
           g == InterpolationGradient(p)
<1>1. o \in Pose /\ e \in Pose
  BY DEF Nodes
<1>2. /\ point.position \in Point /\ point.weight \in Int
      /\ point.distance \in Int
  BY PointsAssumption DEF Point
<1>3. p \in Point
  BY <1>1, <1>2, ReadingPointInSpace
<1>4. ASSUME NEW k \in 1..3
      PROVE  LET moved == [parameters EXCEPT ![node] = LocalStep(@, k, 1)]
                 q == ReadingCoordinate(moved.reference, moved.reading,
                                        point.position)
                 sameCell == \A axis \in {"x", "y", "z"} :
                               q[axis] >= p[axis] - (p[axis] % N)
             IN  InterpPossible(p) /\ InterpPossible(q) /\ sameCell
                   => Residual(point, moved.reference, moved.reading)
                        - Residual(point, o, e) = Jacobian(node, point, o, e)[k]
  <2> DEFINE moved == [parameters EXCEPT ![node] = LocalStep(@, k, 1)]
             q == ReadingCoordinate(moved.reference, moved.reading,
                                    point.position)
             c == Column(node, o, e, point.position, k)
             w == point.weight
             i == point.distance * N * N * N
  <2>1. SUFFICES ASSUME InterpPossible(p), InterpPossible(q),
                        \A axis \in {"x", "y", "z"} :
                          q[axis] >= p[axis] - (p[axis] % N)
                 PROVE  Residual(point, moved.reference, moved.reading)
                          - Residual(point, o, e)
                          = Jacobian(node, point, o, e)[k]
    OBVIOUS
  <2>2. moved \in [Nodes -> Pose] /\ q = Plus(p, c)
    BY <1>2, NodeStepMovesPoint
  <2>3. q \in Point
    <3>1. moved.reference \in Pose /\ moved.reading \in Pose
      BY <2>2 DEF Nodes
    <3> HIDE DEF moved
    <3>2. QED
      BY <1>2, <3>1, ReadingPointInSpace
  <2>4. c \in UnitSteps
    BY <1>1, <1>2, ColumnsAreSteps
  <2>5. /\ Residual(point, moved.reference, moved.reading)
             = w * (i - Interpolated(q))
        /\ Residual(point, o, e) = w * (i - Interpolated(p))
    BY <2>1 DEF Residual
  <2>6. Jacobian(node, point, o, e)[k]
          = -w * (g.x * c.x + g.y * c.y + g.z * c.z)
    <3>1. k \in 1..4
      OBVIOUS
    <3>2. QED
      BY <1>1, <2>1, <3>1, JacobianByColumn
  <2>7. /\ Interpolated(p) \in Int
        /\ g.x \in Int /\ g.y \in Int /\ g.z \in Int
    <3> HIDE DEF p
    <3>1. QED
      BY <1>3, <2>1, InterpolationInt
  <2>8. c.x \in Int /\ c.y \in Int /\ c.z \in Int
    BY <2>4 DEF UnitSteps
  <2>9. w \in Int /\ i \in Int
    BY <1>2, GridAssumption
  <2> HIDE DEF p, q, c, g, w, i, moved, o, e
  <2>10. Interpolated(q)
           = Interpolated(p) + (c.x * g.x + c.y * g.y + c.z * g.z)
    BY <1>3, <2>1, <2>2, <2>4, StepByGradient DEF g
  <2> DEFINE s == g.x * c.x + g.y * c.y + g.z * c.z
  <2>11. s \in Int /\ Interpolated(q) = Interpolated(p) + s
    BY <2>7, <2>8, <2>10
  <2> HIDE DEF s
  <2>12. w * (i - Interpolated(q)) - w * (i - Interpolated(p)) = -w * s
    BY <2>7, <2>9, <2>11
  <2>13. QED
    BY <2>5, <2>6, <2>12 DEF s
<1>5. QED
  BY <1>4 DEF TranslationColumns, ReadingPoint

\* The column of the yaw is the vector to the point turned by a quarter.
LEMMA YawColumnTurns ==
  ASSUME NEW o \in Pose, NEW e \in Pose, NEW p \in Point
  PROVE  /\ LET c == Column("reference", o, e, p, 4)
                t == Rotate(o.yaw + 1 - e.yaw, p)
            IN  c.x = t.x /\ c.y = t.y /\ c.z = 0
         /\ LET c == Column("reading", o, e, p, 4)
                t == Rotate(-e.yaw - 1, Plus(Rotate(o.yaw, p), Minus(o, e)))
            IN  c.x = t.x /\ c.y = t.y /\ c.z = 0
<1> DEFINE a == o.yaw
           b == e.yaw
           m == b - a
           v == Plus(Rotate(a, p), Minus(o, e))
<1>1. /\ a \in Int /\ b \in Int /\ m \in Int /\ -m \in Int /\ -b \in Int
      /\ -b - 1 \in Int /\ o.x \in Int /\ o.y \in Int /\ o.z \in Int
      /\ e.x \in Int /\ e.y \in Int /\ e.z \in Int
      /\ p.x \in Int /\ p.y \in Int /\ p.z \in Int
  BY DEF Pose, Point
<1>2. /\ Sin(m) \in Int /\ Cos(m) \in Int /\ Sin(b) \in Int /\ Cos(b) \in Int
  BY <1>1, SinCosInt
<1>3. a + 1 - b = -m + 1 /\ (-b - 1) + a = -(m + 1) /\ -b - 1 = -(b + 1)
  BY <1>1
<1>4. Sin(-m + 1) = Cos(m) /\ Cos(-m + 1) = Sin(m)
  <2>1. Sin(-m) = -Sin(m) /\ Cos(-m) = Cos(m)
    BY <1>1, SinCosNegative
  <2>2. Sin(-m + 1) = Cos(-m) /\ Cos(-m + 1) = -Sin(-m)
    BY <1>1, SinCosQuarter
  <2>3. QED
    BY <1>2, <2>1, <2>2
<1>5. \A y \in Int : Sin(-(y + 1)) = -Cos(y) /\ Cos(-(y + 1)) = -Sin(y)
  <2>1. TAKE y \in Int
  <2>2. y + 1 \in Int
    OBVIOUS
  <2>3. Sin(y + 1) = Cos(y) /\ Cos(y + 1) = -Sin(y)
    BY SinCosQuarter
  <2>4. Sin(-(y + 1)) = -Sin(y + 1) /\ Cos(-(y + 1)) = Cos(y + 1)
    BY <2>2, SinCosNegative
  <2>5. QED
    BY <2>3, <2>4
<1>6. LET c == Column("reference", o, e, p, 4)
          t == Rotate(a + 1 - b, p)
      IN  c.x = t.x /\ c.y = t.y /\ c.z = 0
  <2> DEFINE c == Column("reference", o, e, p, 4)
             t == Rotate(a + 1 - b, p)
  <2>1. /\ c.x = p.x * Sin(m) - p.y * Cos(m)
        /\ c.y = p.x * Cos(m) + p.y * Sin(m)
        /\ c.z = 0
    BY DEF Column, ByReference
  <2>2. t = Rotate(-m + 1, p)
    BY <1>3
  <2>3. /\ t.x = Cos(-m + 1) * p.x - Sin(-m + 1) * p.y
        /\ t.y = Sin(-m + 1) * p.x + Cos(-m + 1) * p.y
    BY <2>2 DEF Rotate
  <2> HIDE DEF m, c, t
  <2>4. c.x = t.x /\ c.y = t.y
    BY <1>1, <1>2, <1>4, <2>1, <2>3
  <2>5. QED
    BY <2>1, <2>4 DEF c, t
<1>7. LET c == Column("reading", o, e, p, 4)
          t == Rotate(-b - 1, v)
      IN  c.x = t.x /\ c.y = t.y /\ c.z = 0
  <2> DEFINE c == Column("reading", o, e, p, 4)
             t == Rotate(-b - 1, v)
             dx == e.x - o.x
             dy == e.y - o.y
             r == Rotate(-b - 1, Rotate(a, p))
             u == Rotate(-b - 1, Minus(o, e))
  <2>1. /\ c.x = -p.x * Sin(m) + p.y * Cos(m) + dx * Sin(b) - dy * Cos(b)
        /\ c.y = -p.x * Cos(m) - p.y * Sin(m) + dx * Cos(b) + dy * Sin(b)
        /\ c.z = 0
    BY DEF Column, ByReading
  <2>2. t = Plus(r, u)
    <3>1. Rotate(a, p) \in Point /\ Minus(o, e) \in Point
      BY <1>1, PointOperators
    <3>2. QED
      BY <1>1, <3>1, RotateLinear DEF Point
  <2>3. r = Rotate(-(m + 1), p)
    <3>1. r = Rotate((-b - 1) + a, p)
      <4> HIDE DEF a, b
      <4>1. QED
        BY <1>1, RotateTwice
    <3>2. QED
      BY <1>3, <3>1
  <2>4. Sin(-(m + 1)) = -Cos(m) /\ Cos(-(m + 1)) = -Sin(m)
    BY <1>1, <1>5
  <2>5. Sin(-b - 1) = -Cos(b) /\ Cos(-b - 1) = -Sin(b)
    BY <1>1, <1>3, <1>5
  <2>6. /\ r.x = Cos(-(m + 1)) * p.x - Sin(-(m + 1)) * p.y
        /\ r.y = Sin(-(m + 1)) * p.x + Cos(-(m + 1)) * p.y
    BY <2>3 DEF Rotate
  <2>7. /\ u.x = Cos(-b - 1) * (o.x - e.x) - Sin(-b - 1) * (o.y - e.y)
        /\ u.y = Sin(-b - 1) * (o.x - e.x) + Cos(-b - 1) * (o.y - e.y)
    BY DEF Rotate, Minus
  <2>8. t.x = r.x + u.x /\ t.y = r.y + u.y
    BY <2>2 DEF Plus
  <2> HIDE DEF c, t, r, u, m
  <2>9. /\ r.x = -p.x * Sin(m) + p.y * Cos(m)
        /\ r.y = -p.x * Cos(m) - p.y * Sin(m)
    BY <1>1, <1>2, <2>4, <2>6
  <2>10. /\ u.x = dx * Sin(b) - dy * Cos(b)
         /\ u.y = dx * Cos(b) + dy * Sin(b)
    BY <1>1, <1>2, <2>5, <2>7
  <2>11. c.x = t.x /\ c.y = t.y
    <3> DEFINE ps == -p.x * Sin(m) + p.y * Cos(m)
               pc == -p.x * Cos(m) - p.y * Sin(m)
    <3>1. ps \in Int /\ pc \in Int
      BY <1>1, <1>2
    <3>2. /\ dx * Sin(b) \in Int /\ dy * Cos(b) \in Int
          /\ dx * Cos(b) \in Int /\ dy * Sin(b) \in Int
      BY <1>1, <1>2
    <3> HIDE DEF dx, dy
    <3>3. c.x = ps + dx * Sin(b) - dy * Cos(b) /\ c.y = pc + dx * Cos(b) + dy * Sin(b)
      BY <2>1
    <3> HIDE DEF ps, pc
    <3>4. r.x = ps /\ r.y = pc
      BY <2>9 DEF ps, pc
    <3>5. QED
      BY <2>8, <2>10, <3>1, <3>2, <3>3, <3>4
  <2>12. QED
    BY <2>1, <2>11 DEF c, t
<1>8. QED
  BY <1>6, <1>7

LEMMA YawColumnInt ==
  ASSUME NEW node \in Nodes, NEW o \in Pose, NEW e \in Pose, NEW p \in Point
  PROVE  /\ Column(node, o, e, p, 4).x \in Int
         /\ Column(node, o, e, p, 4).y \in Int
<1>1. /\ Rotate(o.yaw + 1 - e.yaw, p) \in Point
      /\ Rotate(-e.yaw - 1, Plus(Rotate(o.yaw, p), Minus(o, e))) \in Point
  <2>1. /\ o.yaw \in Int /\ o.yaw + 1 - e.yaw \in Int /\ -e.yaw - 1 \in Int
        /\ o.x \in Int /\ o.y \in Int /\ o.z \in Int
        /\ e.x \in Int /\ e.y \in Int /\ e.z \in Int
        /\ p.x \in Int /\ p.y \in Int /\ p.z \in Int
    BY DEF Pose, Point
  <2>2. Rotate(o.yaw, p) \in Point /\ Minus(o, e) \in Point
    BY <2>1, PointOperators
  <2>3. Plus(Rotate(o.yaw, p), Minus(o, e)) \in Point
    BY <2>2, PointOperators DEF Point
  <2>4. Rotate(o.yaw + 1 - e.yaw, p) \in Point
    BY <2>1, PointOperators
  <2>5. QED
    BY <2>1, <2>3, <2>4, PointOperators DEF Point
<1>2. QED
  BY <1>1, YawColumnTurns DEF Nodes, Point

LEMMA YawColumnHolds ==
  ASSUME parameters \in [Nodes -> Pose], NEW node \in Nodes,
         NEW point \in Points
  PROVE  YawColumn(node, point)
<1> DEFINE o == parameters.reference
           e == parameters.reading
           p == ReadingCoordinate(o, e, point.position)
           g == InterpolationGradient(p)
           c == Column(node, o, e, point.position, 4)
           t == IF node = "reference"
                THEN Rotate(o.yaw + 1 - e.yaw, point.position)
                ELSE Rotate(-e.yaw - 1, Plus(Rotate(o.yaw, point.position),
                                             Minus(o, e)))
<1>1. o \in Pose /\ e \in Pose
  BY DEF Nodes
<1>2. point.position \in Point
  BY PointsAssumption DEF Point
<1>3. c.x = t.x /\ c.y = t.y /\ c.z = 0
  <2>1. CASE node = "reference"
    <3> HIDE DEF o, e
    <3>1. QED
      BY <1>1, <1>2, <2>1, YawColumnTurns
  <2>2. CASE node = "reading"
    <3> HIDE DEF o, e
    <3>1. QED
      BY <1>1, <1>2, <2>2, YawColumnTurns
  <2>3. QED
    BY <2>1, <2>2 DEF Nodes
<1>4. ASSUME InterpPossible(p)
      PROVE  Jacobian(node, point, o, e)[4]
               = -point.weight * (g.x * t.x + g.y * t.y)
  <2>1. Jacobian(node, point, o, e)[4]
          = -point.weight * (g.x * c.x + g.y * c.y + g.z * c.z)
    <3> HIDE DEF o, e
    <3>1. QED
      BY <1>1, <1>4, JacobianByColumn
  <2>2. /\ g.x \in Int /\ g.y \in Int /\ g.z \in Int
    <3> HIDE DEF o, e
    <3>1. p \in Point
      BY <1>1, <1>2, ReadingPointInSpace
    <3> HIDE DEF p
    <3>2. QED
      BY <1>4, <3>1, InterpolationInt
  <2>3. c.x \in Int /\ c.y \in Int
    <3>1. Column(node, o, e, point.position, 4).x \in Int
          /\ Column(node, o, e, point.position, 4).y \in Int
      BY <1>1, <1>2, YawColumnInt
    <3>2. QED
      BY <3>1
  <2> HIDE DEF g, c, t
  <2>4. g.x * c.x + g.y * c.y + g.z * c.z = g.x * t.x + g.y * t.y
    BY <1>3, <2>2, <2>3
  <2>5. QED
    BY <2>1, <2>4
<1>5. QED
  BY <1>4 DEF YawColumn, ReadingPoint

(***************************************************************************)
(* The analytic Jacobian of the registration cost is the derivative of its *)
(* residual, for both submaps, any distances, points and poses: a step of  *)
(* a node along x, y or z changes the residual by the entry of its column, *)
(* and the column of the yaw turns the point by a quarter more             *)
(* (registration_cost_function.cpp:178-268).                               *)
(***************************************************************************)
THEOREM JacobianIsExact == Spec => []JacobianIsDerivative
<1>1. Inv => JacobianIsDerivative
  <2> SUFFICES ASSUME Inv, NEW node \in Nodes, NEW point \in Items
               PROVE  TranslationColumns(node, point) /\ YawColumn(node, point)
    BY DEF JacobianIsDerivative
  <2>1. parameters \in [Nodes -> Pose] /\ point \in Points
    BY DEF Inv, Items
  <2>2. QED
    BY <2>1, TranslationColumnsHold, YawColumnHolds
<1>2. QED
  BY <1>1, Invariance, PTL

-------------------------------------------------------------------------------
(* The weighted sampler *)

\* The cumulative weights grow by the weight of each item, and so never fall.
SamplerInv ==
  LET items == registrationPoints.items
      cumulative == registrationPoints.cumulative
  IN  /\ items \in Seq(Points) /\ cumulative \in Seq(Nat)
      /\ Len(cumulative) = Len(items)
      /\ \A i \in 1..Len(items) :
           cumulative[i] = (IF i = 1 THEN 0 ELSE cumulative[i - 1])
                           + items[i].weight
      /\ \A i, j \in 1..Len(items) : i <= j => cumulative[i] <= cumulative[j]

LEMMA AddItemKeepsSampler ==
  ASSUME SamplerInv, NEW point \in Points,
         registrationPoints' = AddItem(registrationPoints, point, point.weight)
  PROVE  SamplerInv'
<1> DEFINE items == registrationPoints.items
           cum == registrationPoints.cumulative
           total == TotalWeight(registrationPoints)
           n == Len(items)
<1>1. /\ items \in Seq(Points) /\ cum \in Seq(Nat) /\ Len(cum) = n /\ n \in Nat
      /\ \A i \in 1..n :
           cum[i] = (IF i = 1 THEN 0 ELSE cum[i - 1]) + items[i].weight
      /\ \A i, j \in 1..n : i <= j => cum[i] <= cum[j]
  BY DEF SamplerInv
<1>2. point.weight \in Nat
  BY PointsAssumption
<1>3. /\ total = IF n = 0 THEN 0 ELSE cum[n]
      /\ total \in Nat /\ \A i \in 1..n : cum[i] <= total
  <2>1. cum = <<>> <=> n = 0
    BY <1>1
  <2>2. total = IF n = 0 THEN 0 ELSE cum[n]
    BY <1>1, <2>1 DEF TotalWeight, Last
  <2> HIDE DEF total, cum, n
  <2>3. QED
    BY <1>1, <2>2
<1>4. /\ registrationPoints'.items = Append(items, point)
      /\ registrationPoints'.cumulative = Append(cum, total + point.weight)
  BY DEF AddItem
<1> DEFINE items2 == registrationPoints'.items
           cum2 == registrationPoints'.cumulative
<1> HIDE DEF items, cum, total
<1>5. /\ items2 \in Seq(Points) /\ cum2 \in Seq(Nat)
      /\ Len(items2) = n + 1 /\ Len(cum2) = n + 1
      /\ \A i \in 1..n : items2[i] = items[i] /\ cum2[i] = cum[i]
      /\ items2[n + 1] = point /\ cum2[n + 1] = total + point.weight
  BY <1>1, <1>2, <1>3, <1>4
<1> HIDE DEF items2, cum2, n
<1>6. ASSUME NEW i \in 1..(n + 1)
      PROVE  cum2[i] = (IF i = 1 THEN 0 ELSE cum2[i - 1]) + items2[i].weight
  <2>1. CASE i \in 1..n
    <3>1. i # 1 => i - 1 \in 1..n
      BY <1>1, <2>1
    <3>2. QED
      BY <1>1, <1>5, <2>1, <3>1
  <2>2. CASE i = n + 1
    <3>1. total = IF i = 1 THEN 0 ELSE cum2[i - 1]
      <4>1. CASE n = 0
        BY <1>3, <2>2, <4>1
      <4>2. CASE n # 0
        <5>1. n \in 1..n /\ i - 1 = n /\ i # 1
          BY <1>1, <2>2, <4>2
        <5>2. QED
          BY <1>3, <1>5, <4>2, <5>1
      <4>3. QED
        BY <4>1, <4>2
    <3>2. QED
      BY <1>5, <2>2, <3>1
  <2>3. QED
    BY <1>1, <2>1, <2>2
<1>7. ASSUME NEW i \in 1..(n + 1), NEW j \in 1..(n + 1), i <= j
      PROVE  cum2[i] <= cum2[j]
  <2>1. CASE j \in 1..n
    <3>1. i \in 1..n
      BY <1>1, <1>7, <2>1
    <3>2. QED
      BY <1>1, <1>5, <1>7, <2>1, <3>1
  <2>2. CASE j = n + 1 /\ i \in 1..n
    <3>1. cum[i] <= total /\ cum[i] \in Nat
      BY <1>1, <1>3, <2>2
    <3>2. QED
      BY <1>2, <1>3, <1>5, <2>2, <3>1
  <2>3. CASE j = n + 1 /\ i = n + 1
    BY <1>2, <1>3, <1>5, <2>3
  <2>4. QED
    BY <1>1, <1>7, <2>1, <2>2, <2>3
<1>8. QED
  BY <1>1, <1>5, <1>6, <1>7 DEF SamplerInv, items2, cum2

LEMMA SamplerInvariant == Spec => []SamplerInv
<1>1. Init => SamplerInv
  BY DEF Init, SamplerInv, EmptySampler
<1>2. SamplerInv /\ [Next]_vars => SamplerInv'
  <2> SUFFICES ASSUME SamplerInv, [Next]_vars
               PROVE  SamplerInv'
    OBVIOUS
  <2>1. ASSUME NEW point \in Points, AddRegistrationPoint(point)
        PROVE  SamplerInv'
    BY <2>1, AddItemKeepsSampler DEF AddRegistrationPoint
  <2>2. CASE UNCHANGED registrationPoints
    BY <2>2 DEF SamplerInv
  <2>3. QED
    BY <2>1, <2>2 DEF Next, AddToProblem, SolverStep, vars
<1>3. QED
  BY <1>1, <1>2, PTL DEF Spec

\* A set of natural numbers that is not empty has a least element.
LEMMA LeastNatural ==
  ASSUME NEW S \in SUBSET Nat, S # {}
  PROVE  \E m \in S : \A n \in S : m <= n
<1> DEFINE R == {pair \in Nat \X Nat : pair[1] < pair[2]}
<1>1. IsWellFoundedOn(R, Nat)
  BY NatLessThanWellFounded DEF OpToRel
<1> HIDE DEF R
<1>2. PICK m \in S : \A n \in S : <<n, m>> \notin R
  BY <1>1, WFMin
<1>3. \A n \in S : ~(n < m)
  BY <1>2 DEF R
<1>4. QED
  BY <1>3

\* upper_bound returns the first item whose cumulative weight is larger.
LEMMA UpperBound ==
  ASSUME NEW sampler, sampler.cumulative \in Seq(Nat), NEW random \in Nat,
         NEW i \in 1..Len(sampler.cumulative)
  PROVE  RandomIndex(sampler, random) = i <=>
           /\ sampler.cumulative[i] > random
           /\ \A j \in 1..(i - 1) : ~(sampler.cumulative[j] > random)
<1> DEFINE cum == sampler.cumulative
           Larger == {j \in 1..Len(cum) : cum[j] > random}
           index == RandomIndex(sampler, random)
<1>1. index = IF Larger # {} THEN Min(Larger) ELSE 0
  BY DEF RandomIndex, SelectInSeq
<1>2. Len(cum) \in Nat /\ Larger \subseteq Nat
  OBVIOUS
<1>3. ASSUME Larger # {}
      PROVE  Min(Larger) \in Larger /\ \A j \in Larger : Min(Larger) <= j
  <2>1. \E m \in Larger : \A j \in Larger : m <= j
    BY <1>2, <1>3, LeastNatural
  <2> HIDE DEF Larger
  <2>2. QED
    BY <2>1 DEF Min
<1>4. ASSUME index = i
      PROVE  cum[i] > random /\ \A j \in 1..(i - 1) : ~(cum[j] > random)
  <2>1. Larger # {} /\ i = Min(Larger)
    <3> HIDE DEF Larger, index
    <3>1. QED
      BY <1>1, <1>4
  <2>2. i \in Larger /\ \A j \in Larger : i <= j
    <3> HIDE DEF Larger
    <3>1. QED
      BY <1>3, <2>1
  <2>3. QED
    BY <1>2, <2>2
<1>5. ASSUME cum[i] > random, \A j \in 1..(i - 1) : ~(cum[j] > random)
      PROVE  index = i
  <2>1. i \in Larger /\ \A j \in Larger : i <= j
    BY <1>2, <1>5
  <2> HIDE DEF Larger
  <2>2. Min(Larger) \in Larger /\ Min(Larger) <= i /\ i <= Min(Larger)
    BY <1>3, <2>1
  <2>3. Min(Larger) = i
    <3>1. Min(Larger) \in Nat /\ i \in Nat
      BY <1>2, <2>1, <2>2
    <3>2. QED
      BY <2>2, <3>1
  <2>4. QED
    BY <1>1, <2>1, <2>3
<1>6. QED
  BY <1>4, <1>5

(***************************************************************************)
(* getRandomItem returns each item in proportion to its weight: of the     *)
(* total weight's random numbers, as many as its weight lead to it, for    *)
(* any points and weights (weighted_sampler_inl.h:9-43).                   *)
(***************************************************************************)
THEOREM SamplerDrawsInProportion == Spec => []DrawsInProportion
<1>1. ASSUME SamplerInv, NEW i \in DOMAIN registrationPoints.items
      PROVE  Cardinality({random \in 0..(TotalWeight(registrationPoints) - 1) :
                            RandomIndex(registrationPoints, random) = i})
               = registrationPoints.items[i].weight
  <2> DEFINE items == registrationPoints.items
             cum == registrationPoints.cumulative
             n == Len(items)
             total == TotalWeight(registrationPoints)
             weight == items[i].weight
             before == IF i = 1 THEN 0 ELSE cum[i - 1]
             S == {random \in 0..(total - 1) :
                     RandomIndex(registrationPoints, random) = i}
  <2>1. /\ cum \in Seq(Nat) /\ Len(cum) = n /\ n \in Nat /\ i \in 1..n
        /\ cum[i] = before + weight
        /\ \A j, k \in 1..n : j <= k => cum[j] <= cum[k]
        /\ items \in Seq(Points)
    BY <1>1 DEF SamplerInv
  <2>2. total = cum[n] /\ total \in Nat
    <3>1. cum # <<>>
      BY <2>1
    <3>2. total = cum[n]
      BY <2>1, <3>1 DEF TotalWeight, Last
    <3>3. cum[n] \in Nat
      BY <2>1
    <3>4. QED
      BY <3>2, <3>3
  <2>3. weight \in Nat /\ weight > 0
    <3>1. items[i] \in Points
      BY <2>1
    <3>2. QED
      BY <3>1, PointsAssumption
  <2>4. before \in Nat /\ cum[i] \in Nat /\ cum[i] <= total
    <3>1. i # 1 => i - 1 \in 1..n
      BY <2>1
    <3> HIDE DEF cum, n, total
    <3>2. QED
      BY <2>1, <2>2, <3>1
  <2> HIDE DEF cum, n, total, weight
  <2>5. ASSUME NEW random \in Nat
        PROVE  (\A j \in 1..(i - 1) : ~(cum[j] > random)) <=> before <= random
    <3>1. CASE i = 1
      BY <3>1, <2>5
    <3>2. CASE i # 1
      <4>1. i - 1 \in 1..(i - 1) /\ i - 1 \in 1..n /\ before = cum[i - 1]
        BY <2>1, <3>2
      <4>2. \A j \in 1..(i - 1) : cum[j] <= before /\ cum[j] \in Nat
        BY <2>1, <4>1
      <4>3. QED
        BY <2>4, <4>1, <4>2
    <3>3. QED
      BY <3>1, <3>2
  <2>6. ASSUME NEW random \in Nat
        PROVE  RandomIndex(registrationPoints, random) = i
                 <=> before <= random /\ random < cum[i]
    <3>1. RandomIndex(registrationPoints, random) = i <=>
            /\ cum[i] > random
            /\ \A j \in 1..(i - 1) : ~(cum[j] > random)
      BY <2>1, UpperBound DEF cum
    <3>2. cum[i] > random <=> random < cum[i]
      BY <2>4
    <3>3. QED
      BY <2>5, <3>1, <3>2
  <2>7. S = before..(cum[i] - 1)
    <3> HIDE DEF before
    <3>1. \A random \in 0..(total - 1) : random \in Nat
      BY <2>2
    <3>2. \A random : random \in S <=> random \in before..(cum[i] - 1)
      BY <2>2, <2>4, <2>6, <3>1
    <3> HIDE DEF S
    <3>3. QED
      BY <3>2
  <2>8. Cardinality(before..(cum[i] - 1)) = weight
    <3> HIDE DEF before
    <3>1. before \in Int /\ cum[i] - 1 \in Int
      BY <2>4
    <3>2. QED
      BY <2>1, <2>3, <2>4, <3>1, FS_Interval
  <2> HIDE DEF before
  <2>9. QED
    BY <2>7, <2>8 DEF total, weight
<1>2. SamplerInv => DrawsInProportion
  BY <1>1 DEF DrawsInProportion
<1>3. QED
  BY <1>2, SamplerInvariant, PTL

-------------------------------------------------------------------------------
(* Sums *)

\* SumFunction adds the values in the order in which CHOOSE picks them; Adds
\* says that g holds the sums over all parts of the domain.
Pick(s) == CHOOSE x \in s : TRUE

Adds(f, g) ==
  g = [s \in SUBSET (DOMAIN f) |->
         IF s = {} THEN 0 ELSE f[Pick(s)] + g[s \ {Pick(s)}]]

LEMMA SumByParts ==
  ASSUME NEW f
  PROVE  SumFunction(f) = (CHOOSE g : Adds(f, g))[DOMAIN f]
BY DEF SumFunction, SumFunctionOnSet, FoldFunctionOnSet, MapThenFoldSet, Adds,
       Pick

\* Taking out the element that is picked leaves one less.
LEMMA PickedOut ==
  ASSUME NEW s, IsFiniteSet(s), s # {}
  PROVE  /\ Pick(s) \in s /\ Cardinality(s) \in Nat \ {0}
         /\ IsFiniteSet(s \ {Pick(s)})
         /\ Cardinality(s \ {Pick(s)}) = Cardinality(s) - 1
<1>1. Pick(s) \in s
  BY DEF Pick
<1>2. Cardinality(s) \in Nat /\ Cardinality(s) # 0
  BY FS_EmptySet, FS_CardinalityType
<1>3. /\ IsFiniteSet(s \ {Pick(s)})
      /\ Cardinality(s \ {Pick(s)}) = Cardinality(s) - 1
  BY <1>1, FS_RemoveElement
<1>4. QED
  BY <1>1, <1>2, <1>3

\* The sums exist: the sums over small parts give those over the larger ones.
LEMMA SumsExist ==
  ASSUME NEW f, IsFiniteSet(DOMAIN f)
  PROVE  \E g : Adds(f, g)
<1> DEFINE Parts == SUBSET (DOMAIN f)
           Right(g, s) == g[s] = IF s = {} THEN 0
                                 ELSE f[Pick(s)] + g[s \ {Pick(s)}]
           UpTo(g, k) == \A s \in Parts : Cardinality(s) <= k => Right(g, s)
           Bad == {k \in Nat : ~ \E g : UpTo(g, k)}
<1>1. \A s \in Parts : IsFiniteSet(s) /\ Cardinality(s) \in Nat
  BY FS_Subset, FS_CardinalityType
<1>2. \A s \in Parts : s \ {Pick(s)} \in Parts
  OBVIOUS
<1>3. Bad = {}
  <2>1. SUFFICES ASSUME Bad # {} PROVE FALSE
    OBVIOUS
  <2>2. PICK k \in Bad : \A m \in Bad : k <= m
    BY <2>1, LeastNatural
  <2>3. k \in Nat /\ ~ \E g : UpTo(g, k)
    BY <2>2
  <2>4. CASE k = 0
    <3> DEFINE g == [s \in Parts |-> 0]
    <3>1. \A s \in Parts : Cardinality(s) <= 0 => s = {}
      BY <1>1, FS_EmptySet
    <3>2. UpTo(g, 0)
      BY <3>1
    <3>3. QED
      BY <2>3, <2>4, <3>2
  <2>5. CASE k # 0
    <3>1. k - 1 \in Nat /\ ~(k <= k - 1)
      BY <2>3, <2>5
    <3>2. PICK h : UpTo(h, k - 1)
      BY <2>2, <3>1
    <3> DEFINE g == [s \in Parts |->
                       IF Cardinality(s) = k THEN f[Pick(s)] + h[s \ {Pick(s)}]
                       ELSE h[s]]
    <3>3. ASSUME NEW s \in Parts, Cardinality(s) <= k
          PROVE  Right(g, s)
      <4>1. CASE s = {}
        <5>1. Cardinality(s) = 0
          BY <4>1, FS_EmptySet
        <5>2. Right(h, s)
          BY <2>3, <3>1, <3>2, <5>1
        <5>3. QED
          BY <2>5, <4>1, <5>1, <5>2
      <4>2. CASE s # {}
        <5>1. /\ Cardinality(s) \in Nat
              /\ Cardinality(s \ {Pick(s)}) = Cardinality(s) - 1
          BY <1>1, <4>2, PickedOut
        <5>2. Cardinality(s \ {Pick(s)}) # k
          BY <2>3, <3>3, <5>1
        <5>3. g[s \ {Pick(s)}] = h[s \ {Pick(s)}]
          BY <1>2, <5>2
        <5>4. CASE Cardinality(s) = k
          BY <4>2, <5>3, <5>4
        <5>5. CASE Cardinality(s) # k
          <6>1. Cardinality(s) <= k - 1
            BY <2>3, <3>3, <5>1, <5>5
          <6>2. Right(h, s)
            BY <3>2, <6>1
          <6>3. QED
            BY <4>2, <5>3, <5>5, <6>2
        <5>6. QED
          BY <5>4, <5>5
      <4>3. QED
        BY <4>1, <4>2
    <3>4. UpTo(g, k)
      BY <3>3
    <3>5. QED
      BY <2>3, <3>4
  <2>6. QED
    BY <2>4, <2>5
<1>4. IsFiniteSet(DOMAIN f) /\ Cardinality(DOMAIN f) \in Nat
  BY FS_CardinalityType
<1>5. PICK h : UpTo(h, Cardinality(DOMAIN f))
  BY <1>3, <1>4
<1>6. \A s \in Parts : Right(h, s)
  BY <1>4, <1>5, FS_Subset
<1> DEFINE g == [s \in Parts |-> h[s]]
<1>7. \A s \in Parts : Right(g, s)
  BY <1>2, <1>6
<1>8. g = [s \in Parts |-> IF s = {} THEN 0
                           ELSE f[Pick(s)] + g[s \ {Pick(s)}]]
  BY <1>7
<1>9. QED
  BY <1>8 DEF Adds

\* Doubling every value doubles the sum: a smallest part of the domain for which
\* it did not would have a smaller one.
LEMMA SumOfDoubled ==
  ASSUME NEW f, IsFiniteSet(DOMAIN f), \A x \in DOMAIN f : f[x] \in Int
  PROVE  /\ SumFunction(f) \in Int
         /\ SumFunction([x \in DOMAIN f |-> 2 * f[x]]) = 2 * SumFunction(f)
<1> DEFINE f2 == [x \in DOMAIN f |-> 2 * f[x]]
           g == CHOOSE h : Adds(f, h)
           g2 == CHOOSE h : Adds(f2, h)
           Bad == {k \in Nat : \E s \in SUBSET (DOMAIN f) :
                     Cardinality(s) = k /\ ~(g[s] \in Int /\ g2[s] = 2 * g[s])}
<1>1. Adds(f, g) /\ Adds(f2, g2)
  BY SumsExist
<1>2. \A s \in SUBSET (DOMAIN f) :
        /\ IsFiniteSet(s) /\ Cardinality(s) \in Nat
        /\ g[s] = IF s = {} THEN 0 ELSE f[Pick(s)] + g[s \ {Pick(s)}]
        /\ g2[s] = IF s = {} THEN 0 ELSE f2[Pick(s)] + g2[s \ {Pick(s)}]
  <2> HIDE DEF g, g2
  <2>1. DOMAIN f2 = DOMAIN f
    OBVIOUS
  <2>2. QED
    BY <1>1, <2>1, FS_Subset, FS_CardinalityType DEF Adds
<1> HIDE DEF g, g2
<1>3. Bad = {}
  <2>1. SUFFICES ASSUME Bad # {} PROVE FALSE
    OBVIOUS
  <2>2. PICK k \in Bad : \A m \in Bad : k <= m
    BY <2>1, LeastNatural
  <2>3. PICK s \in SUBSET (DOMAIN f) :
          Cardinality(s) = k /\ ~(g[s] \in Int /\ g2[s] = 2 * g[s])
    BY <2>2
  <2>4. s # {}
    <3>1. SUFFICES ASSUME s = {} PROVE FALSE
      OBVIOUS
    <3>2. g[s] = 0 /\ g2[s] = 0
      BY <1>2, <3>1
    <3>3. QED
      BY <2>3, <3>2
  <2> DEFINE t == s \ {Pick(s)}
  <2>5. /\ Pick(s) \in s /\ k \in Nat
        /\ t \in SUBSET (DOMAIN f) /\ Cardinality(t) = k - 1
        /\ k - 1 \in Nat /\ ~(k <= k - 1)
    <3>1. IsFiniteSet(s) /\ Cardinality(s) = k
      BY <1>2, <2>3
    <3>2. /\ Pick(s) \in s /\ k \in Nat \ {0} /\ Cardinality(t) = k - 1
      BY <2>4, <3>1, PickedOut
    <3>3. QED
      BY <3>2
  <2> HIDE DEF t
  <2>6. g[t] \in Int /\ g2[t] = 2 * g[t]
    BY <2>2, <2>5
  <2>7. /\ g[s] = f[Pick(s)] + g[t] /\ g2[s] = f2[Pick(s)] + g2[t]
        /\ f[Pick(s)] \in Int /\ f2[Pick(s)] = 2 * f[Pick(s)]
    BY <1>2, <2>4, <2>5 DEF t
  <2>8. QED
    BY <2>3, <2>6, <2>7
<1>4. g[DOMAIN f] \in Int /\ g2[DOMAIN f] = 2 * g[DOMAIN f]
  BY <1>2, <1>3
<1>5. SumFunction(f) = g[DOMAIN f] /\ SumFunction(f2) = g2[DOMAIN f]
  BY SumByParts DEF g, g2
<1>6. QED
  BY <1>4, <1>5

\* A sum of positive values is positive, by the same argument.
LEMMA SumIsPositive ==
  ASSUME NEW f, IsFiniteSet(DOMAIN f), DOMAIN f # {},
         \A x \in DOMAIN f : f[x] \in Nat \ {0}
  PROVE  SumFunction(f) \in Nat \ {0}
<1> DEFINE g == CHOOSE h : Adds(f, h)
           Fine(s) == g[s] \in Nat /\ (s # {} => g[s] # 0)
           Bad == {k \in Nat : \E s \in SUBSET (DOMAIN f) :
                     Cardinality(s) = k /\ ~Fine(s)}
<1>1. Adds(f, g)
  BY SumsExist
<1>2. \A s \in SUBSET (DOMAIN f) :
        /\ IsFiniteSet(s) /\ Cardinality(s) \in Nat
        /\ g[s] = IF s = {} THEN 0 ELSE f[Pick(s)] + g[s \ {Pick(s)}]
  <2> HIDE DEF g
  <2>1. QED
    BY <1>1, FS_Subset, FS_CardinalityType DEF Adds
<1> HIDE DEF g
<1>3. Bad = {}
  <2>1. SUFFICES ASSUME Bad # {} PROVE FALSE
    OBVIOUS
  <2>2. PICK k \in Bad : \A m \in Bad : k <= m
    BY <2>1, LeastNatural
  <2>3. PICK s \in SUBSET (DOMAIN f) : Cardinality(s) = k /\ ~Fine(s)
    BY <2>2
  <2>4. s # {}
    <3>1. SUFFICES ASSUME s = {} PROVE FALSE
      OBVIOUS
    <3>2. g[s] = 0
      BY <1>2, <3>1
    <3>3. QED
      BY <2>3, <3>1, <3>2
  <2> DEFINE t == s \ {Pick(s)}
  <2>5. /\ Pick(s) \in s /\ k \in Nat
        /\ t \in SUBSET (DOMAIN f) /\ Cardinality(t) = k - 1
        /\ k - 1 \in Nat /\ ~(k <= k - 1)
    <3>1. IsFiniteSet(s) /\ Cardinality(s) = k
      BY <1>2, <2>3
    <3>2. /\ Pick(s) \in s /\ k \in Nat \ {0} /\ Cardinality(t) = k - 1
      BY <2>4, <3>1, PickedOut
    <3>3. QED
      BY <3>2
  <2> HIDE DEF t
  <2>6. g[t] \in Nat
    BY <2>2, <2>5
  <2>7. g[s] = f[Pick(s)] + g[t] /\ f[Pick(s)] \in Nat \ {0}
    BY <1>2, <2>4, <2>5 DEF t
  <2>8. QED
    BY <2>3, <2>6, <2>7
<1>4. Fine(DOMAIN f)
  BY <1>2, <1>3
<1>5. SumFunction(f) = g[DOMAIN f]
  BY SumByParts DEF g
<1>6. QED
  BY <1>4, <1>5

-------------------------------------------------------------------------------
(* Evaluating the cost *)

\* The number of residuals is the one the constructor fixed.
ResidualsInv ==
  /\ samplingRatio \in SamplingRatios
  /\ numResiduals # -1 => numResiduals = NumResiduals

LEMMA ResidualsInvariant == Spec => []ResidualsInv
<1>1. Init => ResidualsInv
  BY DEF Init, ResidualsInv
<1>2. ResidualsInv /\ [Next]_vars => ResidualsInv'
  <2> SUFFICES ASSUME ResidualsInv, [Next]_vars
               PROVE  ResidualsInv'
    OBVIOUS
  <2>1. ASSUME NEW point \in Points, AddRegistrationPoint(point)
        PROVE  ResidualsInv'
    BY <2>1 DEF AddRegistrationPoint, ResidualsInv
  <2>2. CASE AddToProblem
    BY <2>2 DEF AddToProblem, ResidualsInv, NumResiduals, Deterministic
  <2>3. CASE UNCHANGED <<registrationPoints, samplingRatio, numResiduals>>
    BY <2>3 DEF ResidualsInv, NumResiduals, Deterministic
  <2>4. QED
    BY <2>1, <2>2, <2>3 DEF Next, SolverStep, vars
<1>3. QED
  BY <1>1, <1>2, PTL DEF Spec

EvaluationInv == Inv /\ SamplerInv /\ ResidualsInv

LEMMA EvaluationInvariant == Spec => []EvaluationInv
BY Invariance, SamplerInvariant, ResidualsInvariant, PTL DEF EvaluationInv

\* A drawn index is that of an item.
LEMMA IndicesInRange ==
  ASSUME SamplerInv, NEW i \in RandomIndices(registrationPoints)
  PROVE  i \in 1..Len(registrationPoints.items)
<1> DEFINE cum == registrationPoints.cumulative
           n == Len(registrationPoints.items)
           total == TotalWeight(registrationPoints)
<1>1. PICK random \in 0..(total - 1) :
        i = RandomIndex(registrationPoints, random)
  BY DEF RandomIndices
<1>2. /\ cum \in Seq(Nat) /\ Len(cum) = n /\ n \in Nat
      /\ \A j \in 1..n : cum[j] \in Nat
  BY DEF SamplerInv
<1>3. n # 0 /\ total = cum[n]
  BY <1>1, <1>2 DEF TotalWeight, Last
<1>4. n \in 1..n /\ cum[n] \in Nat /\ random \in Nat /\ cum[n] > random
  BY <1>1, <1>2, <1>3
<1> DEFINE Larger == {j \in 1..n : cum[j] > random}
<1>5. PICK m \in Larger : \A j \in Larger : m <= j
  <2>1. n \in Larger /\ Larger \subseteq Nat
    BY <1>4
  <2> HIDE DEF Larger
  <2>2. QED
    BY <2>1, LeastNatural
<1>6. m \in 1..n /\ cum[m] > random
  BY <1>5
<1>7. \A j \in 1..(m - 1) : ~(cum[j] > random)
  <2>1. TAKE j \in 1..(m - 1)
  <2>2. j \in 1..n /\ ~(m <= j)
    BY <1>2, <1>6
  <2>3. j \notin Larger
    <3> HIDE DEF Larger
    <3>1. QED
      BY <1>5, <2>2
  <2>4. QED
    BY <2>2, <2>3
<1>8. RandomIndex(registrationPoints, random) = m
  BY <1>2, <1>4, <1>6, <1>7, UpperBound DEF cum
<1>9. QED
  BY <1>1, <1>6, <1>8

EvaluatedPoint == [position : Point, distance : Int, weight : Nat \ {0}]

\* The points of an evaluation are registration points, whose weights may have
\* been replaced by 1.
LEMMA DrawnPoints ==
  ASSUME EvaluationInv, NEW draw \in Draws
  PROVE  \E m \in Nat :
           /\ numResiduals # -1 => m = numResiduals
           /\ DOMAIN draw = 1..m /\ DOMAIN Drawn(draw) = 1..m
           /\ Drawn(draw) \in Seq(EvaluatedPoint)
<1> DEFINE items == registrationPoints.items
           m == IF numResiduals = -1 THEN 0 ELSE numResiduals
           Row == EvaluatedPoint
<1>1. /\ items \in Seq(Points) /\ Len(items) \in Nat
      /\ samplingRatio \in Nat \cup {-1}
      /\ numResiduals # -1 => numResiduals = NumResiduals
  BY RatiosAssumption DEF EvaluationInv, Inv, ResidualsInv
<1>2. /\ Deterministic => NumResiduals = Len(items)
      /\ NumResiduals \in Nat
  <2>1. CASE Deterministic
    BY <1>1, <2>1 DEF NumResiduals
  <2>2. CASE ~Deterministic
    <3>1. samplingRatio * Len(items) \in Nat
      BY <1>1, <2>2 DEF Deterministic
    <3>2. QED
      BY <2>2, <3>1 DEF NumResiduals
  <2>3. QED
    BY <2>1, <2>2
<1>3. m \in Nat /\ 1..numResiduals = 1..m
  BY <1>1, <1>2
<1>4. DOMAIN draw = 1..m
  BY <1>3 DEF Draws
<1>5. \A i \in 1..m : draw[i] \in 1..Len(items)
  <2>1. CASE Deterministic
    <3>1. draw = [i \in 1..m |-> i]
      BY <1>3, <2>1 DEF Draws
    <3>2. m = 0 \/ m = Len(items)
      BY <1>1, <1>2, <2>1
    <3> HIDE DEF m, items
    <3>3. QED
      BY <1>1, <1>3, <3>1, <3>2 DEF items
  <2>2. CASE ~Deterministic
    <3>1. draw \in [1..m -> RandomIndices(registrationPoints)]
      BY <1>3, <2>2 DEF Draws
    <3> HIDE DEF m
    <3>2. QED
      BY <3>1, IndicesInRange DEF EvaluationInv
  <2>3. QED
    BY <2>1, <2>2
<1>6. Points \subseteq Row
  BY PointsAssumption DEF Point, EvaluatedPoint
<1>7. \A i \in 1..m : Drawn(draw)[i] \in Row
  <2>1. TAKE i \in 1..m
  <2>2. items[draw[i]] \in Row
    <3>1. items[draw[i]] \in Points
      BY <1>1, <1>5
    <3>2. QED
      BY <1>6, <3>1
  <2>3. [items[draw[i]] EXCEPT !.weight = 1] \in Row
    BY <2>2 DEF EvaluatedPoint
  <2>4. Drawn(draw)[i] = IF Deterministic THEN items[draw[i]]
                         ELSE [items[draw[i]] EXCEPT !.weight = 1]
    BY <1>4 DEF Drawn
  <2>5. QED
    BY <2>2, <2>3, <2>4
<1>8. DOMAIN Drawn(draw) = 1..m /\ Drawn(draw) = [i \in 1..m |-> Drawn(draw)[i]]
  BY <1>4 DEF Drawn
<1> HIDE DEF m, Row
<1>9. Drawn(draw) \in [1..m -> Row]
  BY <1>7, <1>8
<1>10. Drawn(draw) \in Seq(Row)
  BY <1>3, <1>9
<1>11. QED
  BY <1>3, <1>4, <1>8, <1>10 DEF m, Row

(***************************************************************************)
(* The cost can be evaluated whenever the sampling asks for a point, for   *)
(* any points of positive weight, any ratio and whichever points are drawn *)
(* (registration_cost_function.cpp:89-133, 270-277).                       *)
(***************************************************************************)
THEOREM EvaluationSucceeds == Spec => []EvaluatesWithSamples
<1>1. ASSUME EvaluationInv, numResiduals # -1, registrationPoints.items # <<>>,
             Deterministic \/ samplingRatio * Len(registrationPoints.items) >= 2,
             NEW draw \in Draws
      PROVE  SummedWeight(Drawn(draw)) # 0
  <2> DEFINE f == [i \in DOMAIN Drawn(draw) |-> Drawn(draw)[i].weight]
  <2>1. PICK m \in Nat :
          /\ m = numResiduals /\ DOMAIN Drawn(draw) = 1..m
          /\ Drawn(draw) \in Seq(EvaluatedPoint)
    BY <1>1, DrawnPoints
  <2>2. m > 0
    <3>1. Len(registrationPoints.items) \in Nat \ {0}
      BY <1>1 DEF EvaluationInv, Inv
    <3>2. m = NumResiduals
      BY <1>1, <2>1 DEF EvaluationInv, ResidualsInv
    <3>3. CASE Deterministic
      BY <3>1, <3>2, <3>3 DEF NumResiduals
    <3>4. CASE ~Deterministic
      <4>1. samplingRatio * Len(registrationPoints.items) >= 2
        BY <1>1, <3>4
      <4>2. samplingRatio * Len(registrationPoints.items) \in Int
        BY <1>1, <3>1, RatiosAssumption DEF EvaluationInv, ResidualsInv
      <4>3. QED
        BY <3>2, <3>4, <4>1, <4>2 DEF NumResiduals
    <3>5. QED
      BY <3>3, <3>4
  <2>3. /\ DOMAIN f = 1..m /\ IsFiniteSet(DOMAIN f) /\ DOMAIN f # {}
        /\ \A i \in DOMAIN f : f[i] \in Nat \ {0}
    <3>1. DOMAIN f = 1..m
      BY <2>1
    <3>2. IsFiniteSet(1..m)
      BY FS_Interval
    <3>3. 1..m # {}
      BY <2>2
    <3>4. \A i \in 1..m : f[i] \in Nat \ {0}
      <4>1. TAKE i \in 1..m
      <4>2. Drawn(draw)[i] \in EvaluatedPoint
        BY <2>1
      <4>3. f[i] = Drawn(draw)[i].weight
        BY <2>1
      <4>4. QED
        BY <4>2, <4>3 DEF EvaluatedPoint
    <3>5. QED
      BY <3>1, <3>2, <3>3, <3>4
  <2> HIDE DEF f
  <2>4. SumFunction(f) \in Nat \ {0}
    BY <2>3, SumIsPositive
  <2>5. QED
    BY <2>4 DEF SummedWeight, f
<1>2. EvaluationInv => EvaluatesWithSamples
  BY <1>1 DEF EvaluatesWithSamples, Evaluable
<1>3. QED
  BY <1>2, EvaluationInvariant, PTL

\* A residual is the weight of its point times what depends on the point's
\* position and distance only.
LEMMA ResidualByWeight ==
  ASSUME NEW o \in Pose, NEW e \in Pose,
         NEW point \in EvaluatedPoint
  PROVE  \E value \in Int :
           /\ Residual(point, o, e) = point.weight * value
           /\ Residual([point EXCEPT !.weight = 2 * @], o, e)
                = (2 * point.weight) * value
<1> DEFINE p == ReadingCoordinate(o, e, point.position)
           value == IF InterpPossible(p)
                    THEN point.distance * N * N * N - Interpolated(p)
                    ELSE NoCorrespondenceCost * N * N * N
<1>1. p \in Point /\ point.distance \in Int
  BY ReadingPointInSpace DEF EvaluatedPoint
<1>2. value \in Int
  <2> HIDE DEF p
  <2>1. InterpPossible(p) => Interpolated(p) \in Int
    BY <1>1, InterpolationInt
  <2>2. QED
    BY <1>1, <2>1, GridAssumption
<1>3. /\ Residual(point, o, e) = point.weight * value
      /\ Residual([point EXCEPT !.weight = 2 * @], o, e)
           = (2 * point.weight) * value
  BY DEF Residual, EvaluatedPoint
<1>4. QED
  BY <1>2, <1>3

(***************************************************************************)
(* The weights of the registration points only count relative to each      *)
(* other: doubling all of them changes no scaled residual, for any points, *)
(* poses and draws (registration_cost_function.cpp:160-176, 270-290).      *)
(***************************************************************************)
THEOREM WeightsAreRelative == Spec => []WeightsOnlyRelative
<1>1. ASSUME EvaluationInv, NEW draw \in Draws
      PROVE  LET once == Drawn(draw)
                 twice == [i \in DOMAIN once |-> [once[i] EXCEPT !.weight = 2 * @]]
                 a == Evaluate(once, parameters.reference, parameters.reading)
                 b == Evaluate(twice, parameters.reference, parameters.reading)
             IN  \A i \in DOMAIN draw :
                   a.residuals[i] * a.factor[1] * b.factor[2]
                     = b.residuals[i] * b.factor[1] * a.factor[2]
  <2> DEFINE o == parameters.reference
             e == parameters.reading
             once == Drawn(draw)
             twice == [i \in DOMAIN once |-> [once[i] EXCEPT !.weight = 2 * @]]
             a == Evaluate(once, o, e)
             b == Evaluate(twice, o, e)
             Row == EvaluatedPoint
             f == [i \in DOMAIN once |-> once[i].weight]
             f2 == [i \in DOMAIN twice |-> twice[i].weight]
             s == SummedWeight(once)
  <2>1. PICK m \in Nat :
          DOMAIN draw = 1..m /\ DOMAIN once = 1..m /\ once \in Seq(Row)
    BY <1>1, DrawnPoints
  <2>2. o \in Pose /\ e \in Pose
    BY <1>1 DEF EvaluationInv, Inv, Nodes
  <2>3. \A i \in 1..m : once[i] \in Row /\ once[i].weight \in Nat
    <3> HIDE DEF once
    <3>1. \A i \in 1..m : once[i] \in Row
      BY <2>1
    <3>2. QED
      BY <3>1 DEF EvaluatedPoint
  <2> HIDE DEF once
  <2>4. \A i \in 1..m : twice[i].weight = 2 * once[i].weight
    <3>1. TAKE i \in 1..m
    <3>2. once[i] \in Row /\ twice[i] = [once[i] EXCEPT !.weight = 2 * @]
      BY <2>1, <2>3
    <3>3. QED
      BY <3>2 DEF EvaluatedPoint
  <2>5. Len(once) = m /\ Len(twice) = m
    <3>1. Len(once) = m
      BY <2>1
    <3>2. twice = [i \in 1..m |-> [once[i] EXCEPT !.weight = 2 * @]]
      BY <2>1
    <3>3. QED
      BY <3>1, <3>2
  <2>6. s \in Int /\ SummedWeight(twice) = 2 * s
    <3>1. /\ DOMAIN f = 1..m /\ IsFiniteSet(DOMAIN f)
          /\ \A i \in DOMAIN f : f[i] \in Int
      BY <2>1, <2>3, FS_Interval
    <3>2. f2 = [i \in DOMAIN f |-> 2 * f[i]]
      <4>1. DOMAIN twice = DOMAIN once
        OBVIOUS
      <4> HIDE DEF twice
      <4>2. QED
        BY <2>1, <2>4, <4>1
    <3> HIDE DEF f, f2
    <3>3. SumFunction(f) \in Int /\ SumFunction(f2) = 2 * SumFunction(f)
      BY <3>1, <3>2, SumOfDoubled
    <3>4. s = SumFunction(f) /\ SummedWeight(twice) = SumFunction(f2)
      <4> HIDE DEF twice
      <4>1. QED
        BY DEF SummedWeight, f, f2
    <3>5. QED
      BY <3>3, <3>4
  <2>7. /\ a.factor[1] = m /\ a.factor[2] = s
        /\ b.factor[1] = m /\ b.factor[2] = 2 * s
    <3> HIDE DEF s, twice
    <3>1. QED
      BY <2>5, <2>6 DEF Evaluate, s
  <2>8. ASSUME NEW i \in 1..m
        PROVE  a.residuals[i] * a.factor[1] * b.factor[2]
                 = b.residuals[i] * b.factor[1] * a.factor[2]
    <3>1. once[i] \in Row /\ once[i].weight \in Nat
      BY <2>3
    <3>2. PICK value \in Int :
            /\ Residual(once[i], o, e) = once[i].weight * value
            /\ Residual([once[i] EXCEPT !.weight = 2 * @], o, e)
                 = (2 * once[i].weight) * value
      BY <2>2, <3>1, ResidualByWeight
    <3> DEFINE w == once[i].weight
    <3>3. a.residuals[i] = w * value
      BY <2>1, <3>2 DEF Evaluate
    <3>4. b.residuals[i] = (2 * w) * value
      <4>1. i \in DOMAIN twice /\ twice[i] = [once[i] EXCEPT !.weight = 2 * @]
        BY <2>1
      <4> HIDE DEF twice, w
      <4>2. b.residuals[i] = Residual(twice[i], o, e)
        BY <4>1 DEF Evaluate
      <4>3. QED
        BY <3>2, <4>1, <4>2 DEF w
    <3> DEFINE x == a.residuals[i]
               y == b.residuals[i]
    <3>5. w \in Int
      BY <3>1
    <3> HIDE DEF w, s, a, b
    <3>6. x = w * value /\ y = 2 * x /\ x \in Int
      BY <3>3, <3>4, <3>5
    <3> HIDE DEF x, y
    <3>7. x * m * (2 * s) = (2 * x) * m * s
      BY <2>6, <3>6
    <3>8. QED
      BY <2>7, <3>6, <3>7 DEF x, y
  <2>9. QED
    BY <2>1, <2>8 DEF once
<1>2. EvaluationInv => WeightsOnlyRelative
  BY <1>1 DEF WeightsOnlyRelative
<1>3. QED
  BY <1>2, EvaluationInvariant, PTL
=============================================================================
