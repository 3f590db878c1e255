------------------- MODULE VoxgraphMapperRefinement_proofs -------------------
(***************************************************************************)
(* Proofs for a mapper whose services are not called, for every value of   *)
(* the other constants and with loop closures at any time: it implements   *)
(* the safety part of OptimizationService, and the two threads use poses,  *)
(* loop closures and submaps in turn.                                      *)
(***************************************************************************)
EXTENDS VoxgraphMapper_proofs

\* The assumption of the theorems, a condition on the mapper's surroundings.
NoServices == Services = {}

ServicePc == {"map_drop", "map_overlap", "map_optimize", "map_publish",
              "graph_optimize"}

\* The ROS thread optimises in the services only.
RosDoesNotOptimize == pc \notin ServicePc /\ stage["ros"] = "idle"

\* What the steps that are no optimisation leave alone.
optimizationVars == <<problem, solves, stage, copiedPoses, submapPoses,
                      optimized>>

FromOdometry ==
  {k \in DOMAIN relativeConstraints : relativeConstraints[k].type = "odometry"}

Kept == UNCHANGED <<relativeConstraints, optimizationVars>>

GrowsByOdometry ==
  /\ ~Optimizing("async")
  /\ Len(relativeConstraints') = Len(relativeConstraints) + 1
  /\ FromOdometry' = FromOdometry \cup {Len(relativeConstraints')}
  /\ UNCHANGED optimizationVars

GrowsByLoopClosure ==
  /\ Len(relativeConstraints') = Len(relativeConstraints) + 1
  /\ FromOdometry' = FromOdometry
  /\ UNCHANGED optimizationVars

Launches ==
  /\ ~Optimizing("async")
  /\ stage' = [stage EXCEPT !["async"] = "begin"]
  /\ UNCHANGED <<relativeConstraints, problem, solves, copiedPoses,
                 submapPoses, optimized>>

\* Appending makes the list one longer, by a constraint of its type.
LEMMA AppendGrows ==
  ASSUME PoseGraphTypeOK, NEW type, NEW from, NEW to,
         AddRelativePoseConstraint(type, from, to)
  PROVE  /\ Len(relativeConstraints') = Len(relativeConstraints) + 1
         /\ FromOdometry' = IF type = "odometry"
                            THEN FromOdometry \cup {Len(relativeConstraints')}
                            ELSE FromOdometry
<1> DEFINE C == [type : {"odometry", "loop_closure"},
                 from : SubmapID, to : SubmapID]
           c == [type |-> type, from |-> from, to |-> to]
           R == C \cup {c}
<1>1. relativeConstraints \in Seq(C)
  BY DEF PoseGraphTypeOK
<1>2. relativeConstraints \in Seq(R) /\ c \in R
  <2> HIDE DEF C
  <2>1. C \subseteq R
    OBVIOUS
  <2>2. QED
    BY <1>1, <2>1
<1>3. relativeConstraints' = Append(relativeConstraints, c)
  BY DEF AddRelativePoseConstraint
<1>4. c.type = type
  OBVIOUS
<1> HIDE DEF R, c
<1>5. /\ Len(relativeConstraints') = Len(relativeConstraints) + 1
      /\ Len(relativeConstraints) \in Nat
      /\ DOMAIN relativeConstraints = 1..Len(relativeConstraints)
      /\ DOMAIN relativeConstraints' = 1..Len(relativeConstraints')
      /\ \A k \in 1..Len(relativeConstraints) :
           relativeConstraints'[k] = relativeConstraints[k]
      /\ relativeConstraints'[Len(relativeConstraints')] = c
  BY <1>2, <1>3
<1>6. 1..Len(relativeConstraints')
        = 1..Len(relativeConstraints) \cup {Len(relativeConstraints')}
  BY <1>5
<1>7. FromOdometry' = IF type = "odometry"
                      THEN FromOdometry \cup {Len(relativeConstraints')}
                      ELSE FromOdometry
  BY <1>4, <1>5, <1>6 DEF FromOdometry
<1>8. QED
  BY <1>5, <1>7

\* Every step is of one of five kinds, and none gets the ROS thread to optimise.
LEMMA StepKinds ==
  ASSUME NoServices, TypeOK, SwitchExclusive, RosDoesNotOptimize, [Next]_vars
  PROVE  /\ RosDoesNotOptimize'
         /\ \/ Kept \/ GrowsByOdometry \/ GrowsByLoopClosure \/ Launches
            \/ OptimizePoseGraph("async")
<1> USE DEF RosDoesNotOptimize, ServicePc, optimizationVars
<1>1. CASE \E stamp \in Stamp : ReceivePointcloud(stamp)
  BY <1>1 DEF ReceivePointcloud, poseGraphVars, interfaceVars, Kept
<1>2. CASE \E from, to \in Stamp : LoopClosureCallback(from, to)
  <2>1. PICK A, B : AddLoopClosureConstraint(A, B)
    BY <1>2 DEF LoopClosureCallback
  <2>2. /\ Len(relativeConstraints') = Len(relativeConstraints) + 1
        /\ FromOdometry' = FromOdometry
    BY <2>1, AppendGrows DEF AddLoopClosureConstraint, TypeOK
  <2>3. QED
    BY <1>2, <2>2 DEF LoopClosureCallback, GrowsByLoopClosure, interfaceVars
<1>3. CASE FinishMapCallback \/ OptimizeGraphCallback
  BY <1>3 DEF FinishMapCallback, OptimizeGraphCallback, NoServices
<1>4. CASE SwitchCreate
  <2>1. ~Optimizing("async")
    BY <1>4 DEF SwitchCreate, SwitchExclusive, SwitchPc
  <2>2. \/ relativeConstraints' = relativeConstraints
        \/ /\ Len(relativeConstraints') = Len(relativeConstraints) + 1
           /\ FromOdometry' = FromOdometry \cup {Len(relativeConstraints')}
    BY <1>4, AppendGrows DEF SwitchCreate, AddOdometryMeasurement, TypeOK
  <2>3. pc' = "launch"
    BY <1>4 DEF SwitchCreate, SwitchOrder
  <2>4. QED
    BY <1>4, <2>1, <2>2, <2>3 DEF SwitchCreate, Kept, GrowsByOdometry,
       interfaceVars
<1>5. CASE LaunchOptimization
  <2>1. ~Optimizing("async")
    BY <1>5 DEF LaunchOptimization, SwitchExclusive, SwitchPc
  <2>2. QED
    BY <1>5, <2>1 DEF LaunchOptimization, Begin, Launches, poseGraphVars,
       TypeOK, InterfaceTypeOK, Thread
<1>6. CASE RegistrationOverlap
  BY <1>6 DEF RegistrationOverlap, SwitchOrder, Kept
<1>7. CASE RegistrationDrop
  BY <1>7 DEF RegistrationDrop, SwitchOrder, Kept, interfaceVars
<1>8. CASE SwitchPublish \/ FinishMapPublish
  BY <1>8 DEF SwitchPublish, FinishMapPublish, PublishMaps, Kept,
              constraintCollection, interfaceVars
<1>9. CASE SkipPointcloud \/ UpdateToTime \/ WaitForOptimization \/ SwitchFinish
           \/ IntegratePointcloud \/ ServiceOptimized
  BY <1>9 DEF SkipPointcloud, UpdateToTime, WaitForOptimization, SwitchFinish,
     SwitchOrder, IntegratePointcloud, ServiceOptimized, Kept, poseGraphVars,
     interfaceVars
<1>10. CASE LoopClosureFlag
  BY <1>10 DEF LoopClosureFlag, Kept, poseGraphVars
<1>11. CASE \E th \in Thread : OptimizePoseGraph(th)
  <2>1. PICK th \in Thread : OptimizePoseGraph(th)
    BY <1>11
  <2>2. th = "async"
    BY <2>1, OptimizeStepStage DEF Optimizing, Thread
  <2>3. stage'["ros"] = stage["ros"]
    BY <2>1, <2>2, OptimizeStepStage DEF Thread
  <2>4. QED
    BY <2>1, <2>2, <2>3 DEF OptimizePoseGraph
<1>12. CASE UNCHANGED vars
  BY <1>12 DEF vars, poseGraphVars, interfaceVars, Kept
<1>13. QED
  BY <1>1, <1>2, <1>3, <1>4, <1>5, <1>6, <1>7, <1>8, <1>9, <1>10, <1>11, <1>12
     DEF Next, Still, Input, CallbackStep

-------------------------------------------------------------------------------
(* The inductive invariant *)

\* What the optimisation thread has at each stage: a problem with the constraints
\* it has taken, those of the last optimisation among them, a copy of its poses.
OptimizationUnderWay ==
  /\ optimized <= Len(relativeConstraints)
  /\ stage["async"] \in {"registration", "solve"} =>
       optimized <= problem.relative /\ problem.relative <= Len(relativeConstraints)
  /\ stage["async"] = "write" => copiedPoses["async"] = solves

\* The types of what the refinement speaks of.
LEMMA RefinedTypes ==
  ASSUME TypeOK
  PROVE  /\ Len(relativeConstraints) \in Nat
         /\ problem.relative \in Nat
         /\ solves \in Nat /\ optimized \in Nat /\ submapPoses \in Nat
         /\ copiedPoses \in [Thread -> Nat]
         /\ stage \in [Thread -> Stage]
         /\ "async" \in Thread
BY DEF TypeOK, PoseGraphTypeOK, InterfaceTypeOK, Thread

\* Building a problem takes every relative constraint.
LEMMA ProblemTakesAll ==
  ASSUME TypeOK
  PROVE  /\ AddPoseConstraintsToProblem =>
              problem'.relative = Len(relativeConstraints)
         /\ \A finish : AddRegistrationConstraintsToProblem(finish) =>
              problem'.relative = problem.relative
         /\ \A inUse : ResetProblem(inUse) => problem'.relative = 0
BY DEF TypeOK, PoseGraphTypeOK, AddPoseConstraintsToProblem,
       AddRegistrationConstraintsToProblem, ResetProblem, EmptyProblem, NoProblem

\* What the service shows of the mapper does not change.
LEMMA Stutters ==
  ASSUME UNCHANGED <<relativeConstraints, solves, submapPoses, optimized>>,
         ServicePhase' = ServicePhase,
         ServicePhase = "taken" => problem'.relative = problem.relative
  PROVE  UNCHANGED Service!vars
BY DEF Service!vars

\* The steps of the optimisation keep the invariant and do what the abstract
\* optimisation does.
LEMMA OptimizeStepRefines ==
  ASSUME TypeOK, TypeOK', OptimizationUnderWay, OptimizePoseGraph("async")
  PROVE  OptimizationUnderWay' /\ [Service!Next]_(Service!vars)
<1> DEFINE th == "async"
<1>1. UNCHANGED relativeConstraints
  BY DEF OptimizePoseGraph, OptimizeStep, TestFlag, Initialize,
     TakePoseConstraints, TakeRegistrationConstraints, Presolve, ClearFlag,
     Solve, CopyPoses, WritePoses, poseGraphVars, constraintCollection
<1>2. CASE TestFlag(th) \/ ClearFlag(th) \/ Initialize(th)
  <2>1. /\ UNCHANGED <<solves, optimized, submapPoses, copiedPoses>>
        /\ stage[th] \in {"begin", "clear_flag", "pre_reset", "reset"}
        /\ stage'[th] \in {"pre_reset", "reset", "pre_constraints",
                           "constraints"}
    BY <1>2, RefinedTypes DEF TestFlag, ClearFlag, Initialize, GoTo,
       poseGraphVars
  <2>2. ServicePhase = "started" /\ ServicePhase' = "started"
    BY <2>1 DEF ServicePhase
  <2>3. QED
    BY <1>1, <2>1, <2>2, Stutters DEF OptimizationUnderWay
<1>3. CASE TakePoseConstraints(th)
  <2>1. /\ UNCHANGED <<solves, optimized, submapPoses, copiedPoses>>
        /\ problem'.relative = Len(relativeConstraints)
    BY <1>3, RefinedTypes, ProblemTakesAll DEF TakePoseConstraints
  <2>2. CASE stage[th] = "pre_constraints" /\ stage'[th] = "pre_solve"
    <3>1. ServicePhase = "started" /\ ServicePhase' = "started"
      BY <2>2 DEF ServicePhase
    <3>2. QED
      BY <1>1, <2>1, <2>2, <3>1, Stutters DEF OptimizationUnderWay
  <2>3. CASE stage[th] = "constraints" /\ stage'[th] = "registration"
    <3>1. ServicePhase = "started" /\ ServicePhase' = "taken"
      BY <2>3 DEF ServicePhase
    <3>2. OptimizationUnderWay'
      BY <1>1, <2>1, <2>3, RefinedTypes DEF OptimizationUnderWay
    <3>3. Service!Take
      BY <1>1, <2>1, <3>1 DEF Service!Take
    <3>4. QED
      BY <3>2, <3>3 DEF Service!Next
  <2>4. QED
    BY <1>3, <2>2, <2>3, RefinedTypes DEF TakePoseConstraints, GoTo
<1>4. CASE TakeRegistrationConstraints(th, finished)
  <2>1. /\ UNCHANGED <<solves, optimized, submapPoses, copiedPoses>>
        /\ stage[th] = "registration"
        /\ stage'[th] = "solve"
        /\ problem'.relative = problem.relative
    BY <1>4, RefinedTypes, ProblemTakesAll DEF TakeRegistrationConstraints, GoTo
  <2>2. ServicePhase = "taken" /\ ServicePhase' = "taken"
    BY <2>1 DEF ServicePhase
  <2>3. QED
    BY <1>1, <2>1, <2>2, Stutters DEF OptimizationUnderWay
<1>5. CASE Presolve(th)
  <2>1. /\ UNCHANGED <<problem, optimized, submapPoses, copiedPoses>>
        /\ stage[th] = "pre_solve"
        /\ stage'[th] = "clear_flag"
        /\ solves' = solves + 1
    BY <1>5, RefinedTypes DEF Presolve, GoTo, SolveProblem
  <2>2. ServicePhase = "started" /\ ServicePhase' = "started"
    BY <2>1 DEF ServicePhase
  <2>3. Service!Presolve
    BY <1>1, <2>1, <2>2 DEF Service!Presolve
  <2>4. QED
    BY <1>1, <2>1, <2>3 DEF Service!Next, OptimizationUnderWay
<1>6. CASE Solve(th)
  <2>1. /\ UNCHANGED <<problem, submapPoses, copiedPoses>>
        /\ stage[th] = "solve"
        /\ stage'[th] = "copy"
        /\ solves' = solves + 1
        /\ optimized' = Larger(optimized, problem.relative)
    BY <1>6, RefinedTypes DEF Solve, GoTo, SolveProblem
  <2>2. /\ optimized' = problem.relative
        /\ problem.relative <= Len(relativeConstraints)
    BY <2>1, RefinedTypes DEF OptimizationUnderWay, Larger
  <2>3. ServicePhase = "taken" /\ ServicePhase' = "solved"
    BY <2>1 DEF ServicePhase
  <2>4. Service!Solve
    BY <1>1, <2>1, <2>2, <2>3 DEF Service!Solve
  <2>5. QED
    BY <1>1, <2>1, <2>2, <2>4 DEF Service!Next, OptimizationUnderWay
<1>7. CASE CopyPoses(th)
  <2>1. /\ UNCHANGED <<problem, solves, optimized, submapPoses>>
        /\ stage[th] = "copy"
        /\ stage'[th] = "write"
        /\ copiedPoses'[th] = solves
    BY <1>7, RefinedTypes DEF CopyPoses, GoTo, poseGraphVars
  <2>2. ServicePhase = "solved" /\ ServicePhase' = "solved"
    BY <2>1 DEF ServicePhase
  <2>3. QED
    BY <1>1, <2>1, <2>2, Stutters DEF OptimizationUnderWay
<1>8. CASE WritePoses(th)
  <2>1. /\ UNCHANGED <<problem, solves, optimized, copiedPoses>>
        /\ stage[th] = "write"
        /\ stage'[th] = "idle"
        /\ submapPoses' = copiedPoses[th]
    BY <1>8, RefinedTypes DEF WritePoses, GoTo, poseGraphVars
  <2>2. ServicePhase = "solved" /\ ServicePhase' = "idle"
    BY <2>1 DEF ServicePhase
  <2>3. Service!Deliver
    BY <1>1, <2>1, <2>2 DEF OptimizationUnderWay, Service!Deliver
  <2>4. QED
    BY <1>1, <2>1, <2>3 DEF Service!Next, OptimizationUnderWay
<1>9. QED
  BY <1>2, <1>3, <1>4, <1>5, <1>6, <1>7, <1>8
     DEF OptimizePoseGraph, OptimizeStep

\* So do all the other steps.
LEMMA StepRefines ==
  ASSUME NoServices, TypeOK, TypeOK', SwitchExclusive, RosDoesNotOptimize,
         OptimizationUnderWay, [Next]_vars
  PROVE  /\ RosDoesNotOptimize'
         /\ OptimizationUnderWay'
         /\ [Service!Next]_(Service!vars)
<1>1. RosDoesNotOptimize'
  BY StepKinds
<1>2. CASE Kept
  <2>1. ServicePhase' = ServicePhase
    BY <1>2 DEF Kept, optimizationVars, ServicePhase
  <2>2. QED
    BY <1>1, <1>2, <2>1, Stutters
       DEF Kept, optimizationVars, OptimizationUnderWay
<1>3. CASE GrowsByOdometry \/ GrowsByLoopClosure
  <2>1. OptimizationUnderWay'
    BY <1>3, RefinedTypes DEF GrowsByOdometry, GrowsByLoopClosure,
       optimizationVars, OptimizationUnderWay
  <2>2. ServicePhase' = ServicePhase
    BY <1>3 DEF GrowsByOdometry, GrowsByLoopClosure, optimizationVars,
       ServicePhase
  <2>3. CASE GrowsByOdometry
    <3>1. ServicePhase = "idle"
      BY <2>3 DEF GrowsByOdometry, Optimizing, ServicePhase
    <3>2. Service!AddOdometry
      BY <2>2, <2>3, <3>1
         DEF GrowsByOdometry, optimizationVars, Service!AddOdometry, FromOdometry
    <3>3. QED
      BY <1>1, <2>1, <3>2 DEF Service!Next
  <2>4. CASE GrowsByLoopClosure
    <3>1. Service!AddLoopClosure
      BY <2>2, <2>4 DEF GrowsByLoopClosure, optimizationVars,
         Service!AddLoopClosure, FromOdometry
    <3>2. QED
      BY <1>1, <2>1, <3>1 DEF Service!Next
  <2>5. QED
    BY <1>3, <2>3, <2>4
<1>4. CASE Launches
  <2>1. stage["async"] = "idle" /\ stage'["async"] = "begin"
    BY <1>4, RefinedTypes DEF Launches, Optimizing
  <2>2. OptimizationUnderWay'
    BY <1>4, <2>1 DEF Launches, OptimizationUnderWay
  <2>3. ServicePhase = "idle" /\ ServicePhase' = "started"
    BY <2>1 DEF ServicePhase
  <2>4. Service!Start
    BY <1>4, <2>3 DEF Launches, Service!Start
  <2>5. QED
    BY <1>1, <2>2, <2>4 DEF Service!Next
<1>5. CASE OptimizePoseGraph("async")
  BY <1>1, <1>5, OptimizeStepRefines
<1>6. QED
  BY <1>2, <1>3, <1>4, <1>5, StepKinds

\* This is so in all behaviours.
LEMMA RefinementInvariant ==
  ASSUME NoServices
  PROVE  Spec => [](RosDoesNotOptimize /\ OptimizationUnderWay)
<1>1. Init => RosDoesNotOptimize /\ OptimizationUnderWay
  BY DEF Init, PoseGraphInit, InterfaceInit, RosDoesNotOptimize, ServicePc,
         OptimizationUnderWay, NoProblem, Thread
<1>2. /\ TypeOK /\ TypeOK' /\ SwitchExclusive
      /\ RosDoesNotOptimize /\ OptimizationUnderWay
      /\ [Next]_vars
      => RosDoesNotOptimize' /\ OptimizationUnderWay'
  BY StepRefines, NoServices
<1>3. QED
  BY <1>1, <1>2, TypeCorrect, SwitchIsExclusive, PTL DEF Spec

\* Where no service is called, every behaviour of the mapper is one of
\* OptimizationService, whenever the clouds and the loop closures arrive: submaps
\* and their odometry only come between optimisations, an optimisation takes all
\* constraints there are by then, those of submaps and earlier loop closures among
\* them, and does not end before it has solved these and delivered the poses of
\* that solve (voxgraph_mapper.cpp:219-238, :511-524).
THEOREM MapperRefinesService ==
  ASSUME NoServices
  PROVE  Spec => Service!Spec
<1>1. Init => Service!Init
  BY DEF Init, PoseGraphInit, InterfaceInit, Service!Init, ServicePhase, Thread
<1>2. /\ TypeOK /\ TypeOK' /\ SwitchExclusive
      /\ RosDoesNotOptimize /\ OptimizationUnderWay
      /\ [Next]_vars
      => [Service!Next]_(Service!vars)
  BY StepRefines, NoServices
<1>3. QED
  BY <1>1, <1>2, TypeCorrect, SwitchIsExclusive, RefinementInvariant, PTL
     DEF Spec, Service!Spec

-------------------------------------------------------------------------------
(* The poses of the last solve *)

\* Until the first solve of an optimisation the submaps have the poses of the
\* last solve of the one before.
PosesSettled ==
  stage["async"] \in {"idle", "begin", "pre_reset", "pre_constraints",
                      "pre_solve"} => submapPoses = solves

LEMMA OptimizeStepSettles ==
  ASSUME TypeOK, OptimizationUnderWay, PosesSettled, OptimizePoseGraph("async")
  PROVE  PosesSettled'
<1> DEFINE th == "async"
<1>1. CASE TestFlag(th) \/ Initialize(th) \/ TakePoseConstraints(th)
  <2>1. /\ UNCHANGED <<solves, submapPoses>>
        /\ stage[th] \in {"begin", "pre_reset", "pre_constraints"} \/
           stage'[th] \in {"constraints", "registration"}
    BY <1>1, RefinedTypes DEF TestFlag, Initialize, TakePoseConstraints, GoTo,
       poseGraphVars
  <2>2. QED
    BY <2>1 DEF PosesSettled
<1>2. CASE TakeRegistrationConstraints(th, finished) \/ Presolve(th)
           \/ ClearFlag(th) \/ Solve(th) \/ CopyPoses(th)
  <2>1. stage'[th] \in {"solve", "clear_flag", "reset", "copy", "write"}
    BY <1>2, RefinedTypes DEF TakeRegistrationConstraints, Presolve, ClearFlag,
       Solve, CopyPoses, GoTo
  <2>2. QED
    BY <2>1 DEF PosesSettled
<1>3. CASE WritePoses(th)
  BY <1>3 DEF WritePoses, GoTo, OptimizationUnderWay, PosesSettled,
     poseGraphVars
<1>4. QED
  BY <1>1, <1>2, <1>3 DEF OptimizePoseGraph, OptimizeStep

\* Where no service is called, the submaps have the poses of the last solve
\* whenever no optimisation is running (pose_graph_interface.cpp:200-205).
THEOREM PosesAreOfLastSolve ==
  ASSUME NoServices PROVE Spec => []PosesOfLastSolve
<1>1. Init => PosesSettled
  BY DEF Init, PoseGraphInit, InterfaceInit, PosesSettled
<1>2. /\ TypeOK /\ SwitchExclusive
      /\ RosDoesNotOptimize /\ OptimizationUnderWay
      /\ PosesSettled /\ [Next]_vars
      => PosesSettled'
  <2> SUFFICES ASSUME TypeOK, SwitchExclusive, RosDoesNotOptimize,
                      OptimizationUnderWay, PosesSettled, [Next]_vars
               PROVE  PosesSettled'
    OBVIOUS
  <2>1. CASE Kept \/ GrowsByOdometry \/ GrowsByLoopClosure
    BY <2>1 DEF Kept, GrowsByOdometry, GrowsByLoopClosure, optimizationVars,
       PosesSettled
  <2>2. CASE Launches
    <3>1. stage["async"] = "idle" /\ UNCHANGED <<solves, submapPoses>>
      BY <2>2 DEF Launches, Optimizing
    <3>2. QED
      BY <3>1 DEF PosesSettled
  <2>3. QED
    BY <2>1, <2>2, StepKinds, OptimizeStepSettles, NoServices
<1>3. PosesSettled => PosesOfLastSolve
  BY DEF PosesSettled, PosesOfLastSolve, Optimizing, Thread
<1>4. QED
  BY <1>1, <1>2, <1>3, TypeCorrect, SwitchIsExclusive, RefinementInvariant, PTL
     DEF Spec

-------------------------------------------------------------------------------
(* Loop closures are first solved alone *)

\* The flag is up for every loop closure that has not been solved without the
\* registration constraints, or is about to be raised.
FlagDue ==
  /\ pc = "raise_flag" => ~Optimizing("async")
  /\ \A k \in LoopClosures :
       k <= preoptimized \/ newLoopClosures \/ pc = "raise_flag"
  /\ stage["async"] = "pre_solve" => problem.relative = Len(relativeConstraints)
  /\ stage["async"] = "clear_flag" => Len(relativeConstraints) <= preoptimized
  /\ stage["async"] \in {"reset", "constraints", "registration", "solve"} =>
       \A k \in LoopClosures : k <= preoptimized

\* A loop closure is a position in the list.
LEMMA LoopClosureInList ==
  ASSUME TypeOK
  PROVE  /\ \A k \in LoopClosures : k \in Nat /\ k <= Len(relativeConstraints)
         /\ preoptimized \in Nat /\ problem.relative \in Nat
         /\ Len(relativeConstraints) \in Nat
BY DEF LoopClosures, TypeOK, PoseGraphTypeOK, InterfaceTypeOK

\* The optimisation clears the flag after a solve of all loop closures.
LEMMA OptimizeStepKeepsFlag ==
  ASSUME TypeOK, FlagDue, OptimizePoseGraph("async")
  PROVE  FlagDue'
<1> DEFINE th == "async"
<1>1. /\ UNCHANGED <<relativeConstraints, pc>>
      /\ LoopClosures' = LoopClosures
      /\ pc # "raise_flag"
  <2>1. UNCHANGED <<relativeConstraints, pc>>
    BY DEF OptimizePoseGraph, OptimizeStep, TestFlag, Initialize,
       TakePoseConstraints, TakeRegistrationConstraints, Presolve, ClearFlag,
       Solve, CopyPoses, WritePoses, poseGraphVars, constraintCollection
  <2>2. stage[th] # "idle"
    BY OptimizeStepStage DEF OptimizePoseGraph, Thread, Optimizing
  <2>3. QED
    BY <2>1, <2>2 DEF LoopClosures, FlagDue, Optimizing
<1>2. CASE TestFlag(th)
  <2>1. /\ UNCHANGED <<newLoopClosures, preoptimized>>
        /\ stage'[th] = IF newLoopClosures THEN "pre_reset" ELSE "reset"
    BY <1>2, RefinedTypes DEF TestFlag, GoTo
  <2>2. QED
    BY <1>1, <2>1 DEF FlagDue
<1>3. CASE Initialize(th)
  <2>1. /\ UNCHANGED <<newLoopClosures, preoptimized>>
        /\ \/ stage'[th] = "pre_constraints"
           \/ stage[th] = "reset" /\ stage'[th] = "constraints"
    BY <1>3, RefinedTypes DEF Initialize, GoTo
  <2>2. QED
    BY <1>1, <2>1 DEF FlagDue
<1>4. CASE TakePoseConstraints(th)
  <2>1. /\ UNCHANGED <<newLoopClosures, preoptimized>>
        /\ problem'.relative = Len(relativeConstraints)
        /\ \/ stage'[th] = "pre_solve"
           \/ stage[th] = "constraints" /\ stage'[th] = "registration"
    BY <1>4, RefinedTypes, ProblemTakesAll DEF TakePoseConstraints, GoTo
  <2>2. QED
    BY <1>1, <2>1 DEF FlagDue
<1>5. CASE TakeRegistrationConstraints(th, finished)
  <2>1. /\ UNCHANGED <<newLoopClosures, preoptimized>>
        /\ stage[th] = "registration" /\ stage'[th] = "solve"
    BY <1>5, RefinedTypes DEF TakeRegistrationConstraints, GoTo
  <2>2. QED
    BY <1>1, <2>1 DEF FlagDue
<1>6. CASE Presolve(th)
  <2>1. /\ stage[th] = "pre_solve" /\ stage'[th] = "clear_flag"
        /\ UNCHANGED newLoopClosures
        /\ preoptimized' = Larger(preoptimized, problem.relative)
    BY <1>6, RefinedTypes DEF Presolve, GoTo
  <2>2. /\ preoptimized <= preoptimized'
        /\ Len(relativeConstraints) <= preoptimized'
        /\ preoptimized' \in Nat
    BY <2>1, LoopClosureInList DEF FlagDue, Larger
  <2>3. \A k \in LoopClosures : k <= preoptimized'
    BY <2>2, LoopClosureInList
  <2>4. QED
    BY <1>1, <2>1, <2>2, <2>3 DEF FlagDue
<1>7. CASE ClearFlag(th)
  <2>1. /\ stage[th] = "clear_flag" /\ stage'[th] = "reset"
        /\ UNCHANGED preoptimized
    BY <1>7, RefinedTypes DEF ClearFlag, GoTo
  <2>2. \A k \in LoopClosures : k <= preoptimized
    BY <2>1, LoopClosureInList DEF FlagDue
  <2>3. QED
    BY <1>1, <2>1, <2>2 DEF FlagDue
<1>8. CASE Solve(th) \/ CopyPoses(th) \/ WritePoses(th)
  <2>1. /\ UNCHANGED <<newLoopClosures, preoptimized>>
        /\ stage'[th] \in {"copy", "write", "idle"}
    BY <1>8, RefinedTypes DEF Solve, CopyPoses, WritePoses, GoTo
  <2>2. QED
    BY <1>1, <2>1 DEF FlagDue
<1>9. QED
  BY <1>2, <1>3, <1>4, <1>5, <1>6, <1>7, <1>8
     DEF OptimizePoseGraph, OptimizeStep

\* The creation of a submap adds no loop closure.
LEMMA CreationKeepsLoopClosures ==
  ASSUME TypeOK, SwitchCreate
  PROVE  LoopClosures' = LoopClosures
<1>1. CASE UNCHANGED relativeConstraints
  BY <1>1 DEF LoopClosures
<1>2. CASE \E from, to : AddOdometryMeasurement(from, to)
  <2>1. PICK from, to : AddRelativePoseConstraint("odometry", from, to)
    BY <1>2 DEF AddOdometryMeasurement
  <2>2. PICK n \in Nat :
          /\ DOMAIN relativeConstraints = 1..n
          /\ DOMAIN relativeConstraints' = 1..(n + 1)
          /\ \A k \in 1..n : relativeConstraints'[k] = relativeConstraints[k]
          /\ relativeConstraints'[n + 1] =
               [type |-> "odometry", from |-> from, to |-> to]
    BY <2>1, AppendedConstraint DEF TypeOK
  <2>3. 1..(n + 1) = 1..n \cup {n + 1}
    OBVIOUS
  <2>4. QED
    BY <2>2, <2>3 DEF LoopClosures
<1>3. QED
  BY <1>1, <1>2 DEF SwitchCreate

\* The steps outside the optimisation that touch loop closures, flag or stages.
LEMMA FlagStepKinds ==
  ASSUME NoServices, TypeOK, SwitchExclusive, RosDoesNotOptimize, [Next]_vars,
         ~OptimizePoseGraph("async")
  PROVE  \/ \E from, to \in Stamp : LoopClosureCallback(from, to)
         \/ LoopClosureFlag
         \/ /\ ~Optimizing("async")
            /\ pc # "raise_flag" /\ pc' # "raise_flag"
            /\ LoopClosures' = LoopClosures
            /\ stage'["async"] \in {"idle", "begin"}
            /\ UNCHANGED <<problem, newLoopClosures, preoptimized, optimized>>
         \/ /\ UNCHANGED <<relativeConstraints, problem, stage, newLoopClosures,
                           preoptimized, optimized>>
            /\ pc = "raise_flag" <=> pc' = "raise_flag"
<1>1. CASE SwitchCreate
  <2>1. /\ ~Optimizing("async")
        /\ pc # "raise_flag" /\ pc' # "raise_flag"
        /\ UNCHANGED <<problem, stage, newLoopClosures, preoptimized, optimized>>
    BY <1>1 DEF SwitchCreate, SwitchOrder, SwitchExclusive, SwitchPc,
       interfaceVars
  <2>2. QED
    BY <1>1, <2>1, CreationKeepsLoopClosures DEF Optimizing
<1>2. CASE LaunchOptimization
  <2>1. /\ stage' = [stage EXCEPT !["async"] = "begin"]
        /\ pc = "launch" /\ pc' = "publish"
        /\ UNCHANGED <<relativeConstraints, problem, newLoopClosures,
                       preoptimized, optimized>>
    BY <1>2 DEF LaunchOptimization, Begin, poseGraphVars
  <2>2. stage'["async"] = "begin"
    BY <2>1, RefinedTypes
  <2>3. ~Optimizing("async")
    BY <2>1 DEF SwitchExclusive, SwitchPc
  <2>4. QED
    BY <2>1, <2>2, <2>3 DEF LoopClosures
<1>3. CASE Input
  BY <1>3 DEF Input, ReceivePointcloud, FinishMapCallback,
     OptimizeGraphCallback, NoServices, poseGraphVars, interfaceVars
<1>4. CASE CallbackStep
  <2>1. pc \notin ServicePc
    BY DEF RosDoesNotOptimize
  <2>2. QED
    BY <1>1, <1>2, <1>4, <2>1 DEF CallbackStep, ServicePc,
       SkipPointcloud, UpdateToTime, WaitForOptimization, SwitchFinish,
       SwitchOrder, RegistrationDrop, RegistrationOverlap, SwitchPublish,
       PublishMaps, FinishMapPublish, IntegratePointcloud, ServiceOptimized,
       poseGraphVars, interfaceVars, constraintCollection
<1>5. CASE \E th \in Thread : OptimizePoseGraph(th)
  BY <1>5, OptimizeStepStage DEF RosDoesNotOptimize, OptimizePoseGraph,
     Optimizing, Thread
<1>6. CASE UNCHANGED vars
  BY <1>6 DEF vars, poseGraphVars, interfaceVars
<1>7. QED
  BY <1>3, <1>4, <1>5, <1>6 DEF Next, Still

LEMMA OtherStepsKeepFlag ==
  ASSUME NoServices, TypeOK, SwitchExclusive, RosDoesNotOptimize, FlagDue,
         [Next]_vars, ~OptimizePoseGraph("async"),
         [(\E from, to \in Stamp : LoopClosureCallback(from, to)) =>
            ~Optimizing("async")]_vars
  PROVE  FlagDue'
<1>1. CASE UNCHANGED vars
  BY <1>1 DEF vars, poseGraphVars, interfaceVars, FlagDue, LoopClosures,
     Optimizing
<1>2. CASE vars' # vars /\ \E from, to \in Stamp : LoopClosureCallback(from, to)
  BY <1>2 DEF LoopClosureCallback, interfaceVars, Optimizing, FlagDue
<1>3. CASE LoopClosureFlag
  BY <1>3 DEF LoopClosureFlag, RaiseLoopClosureFlag, poseGraphVars,
              LoopClosures, FlagDue
<1>4. CASE /\ ~Optimizing("async")
           /\ pc # "raise_flag" /\ pc' # "raise_flag"
           /\ LoopClosures' = LoopClosures
           /\ stage'["async"] \in {"idle", "begin"}
           /\ UNCHANGED <<problem, newLoopClosures, preoptimized, optimized>>
  BY <1>4 DEF FlagDue
<1>5. CASE /\ UNCHANGED <<relativeConstraints, problem, stage, newLoopClosures,
                          preoptimized, optimized>>
           /\ pc = "raise_flag" <=> pc' = "raise_flag"
  BY <1>5 DEF LoopClosures, Optimizing, FlagDue
<1>6. QED
  BY <1>1, <1>2, <1>3, <1>4, <1>5, FlagStepKinds

\* Where no service is called and loop closures arrive between the
\* optimisations, the flag is only down when every loop closure has been solved
\* without the registration constraints (pose_graph_interface.cpp:178-187).
THEOREM LoopClosuresAreTakenCareOf ==
  ASSUME NoServices
  PROVE  Spec /\ LoopClosuresBetween => []LoopClosuresTakenCareOf
<1>1. Init => FlagDue
  BY DEF Init, PoseGraphInit, InterfaceInit, FlagDue, LoopClosures, Thread,
     Optimizing
<1>2. /\ TypeOK /\ SwitchExclusive /\ RosDoesNotOptimize /\ FlagDue
      /\ [Next]_vars
      /\ [(\E from, to \in Stamp : LoopClosureCallback(from, to)) =>
             ~Optimizing("async")]_vars
      => FlagDue'
  BY OtherStepsKeepFlag, OptimizeStepKeepsFlag, NoServices
<1>3. FlagDue => LoopClosuresTakenCareOf
  BY DEF FlagDue, LoopClosuresTakenCareOf
<1>4. QED
  BY <1>1, <1>2, <1>3, TypeCorrect, SwitchIsExclusive, RefinementInvariant, PTL
     DEF Spec, LoopClosuresBetween

-------------------------------------------------------------------------------
(* Loop closures during an optimisation *)

\* A loop closure has been solved with everything, or it is in the problem or
\* will be, or its flag is up or about to be raised.
FlagOrSolve ==
  \A k \in LoopClosures :
    \/ k <= optimized \/ newLoopClosures \/ pc = "raise_flag"
    \/ stage["async"] \in {"reset", "constraints"}
    \/ stage["async"] \in {"registration", "solve"} /\ k <= problem.relative

\* The optimisation clears the flag before it takes all constraints.
LEMMA OptimizeStepKeepsFlagOrSolve ==
  ASSUME TypeOK, FlagOrSolve, OptimizePoseGraph("async")
  PROVE  FlagOrSolve'
<1> DEFINE th == "async"
<1>1. UNCHANGED <<relativeConstraints, pc>> /\ LoopClosures' = LoopClosures
  BY DEF OptimizePoseGraph, OptimizeStep, TestFlag, Initialize,
     TakePoseConstraints, TakeRegistrationConstraints, Presolve, ClearFlag,
     Solve, CopyPoses, WritePoses, poseGraphVars, constraintCollection,
     LoopClosures
<1>2. CASE TestFlag(th) \/ Presolve(th) \/ CopyPoses(th) \/ WritePoses(th)
  <2>1. /\ UNCHANGED <<newLoopClosures, optimized>>
        /\ stage[th] \in {"begin", "pre_solve", "copy", "write"}
    BY <1>2 DEF TestFlag, Presolve, CopyPoses, WritePoses, GoTo
  <2>2. QED
    BY <1>1, <2>1 DEF FlagOrSolve
<1>3. CASE Initialize(th) \/ ClearFlag(th)
  <2>1. /\ UNCHANGED optimized
        /\ \/ stage'[th] \in {"reset", "constraints"}
           \/ stage[th] = "pre_reset" /\ UNCHANGED newLoopClosures
    BY <1>3, RefinedTypes DEF Initialize, ClearFlag, GoTo
  <2>2. QED
    BY <1>1, <2>1 DEF FlagOrSolve
<1>4. CASE TakePoseConstraints(th)
  <2>1. /\ UNCHANGED <<newLoopClosures, optimized>>
        /\ problem'.relative = Len(relativeConstraints)
        /\ \/ stage[th] = "pre_constraints"
           \/ stage[th] = "constraints" /\ stage'[th] = "registration"
    BY <1>4, RefinedTypes, ProblemTakesAll DEF TakePoseConstraints, GoTo
  <2>2. QED
    BY <1>1, <2>1, LoopClosureInList DEF FlagOrSolve
<1>5. CASE TakeRegistrationConstraints(th, finished)
  <2>1. /\ UNCHANGED <<newLoopClosures, optimized>>
        /\ problem'.relative = problem.relative
        /\ stage[th] = "registration" /\ stage'[th] = "solve"
    BY <1>5, RefinedTypes, ProblemTakesAll DEF TakeRegistrationConstraints, GoTo
  <2>2. QED
    BY <1>1, <2>1 DEF FlagOrSolve
<1>6. CASE Solve(th)
  <2>1. /\ UNCHANGED newLoopClosures
        /\ optimized' = Larger(optimized, problem.relative)
        /\ stage[th] = "solve"
    BY <1>6 DEF Solve, GoTo
  <2>2. optimized <= optimized' /\ problem.relative <= optimized'
        /\ optimized' \in Nat
    BY <2>1, RefinedTypes DEF Larger
  <2>3. \A k \in LoopClosures :
          k <= optimized \/ k <= problem.relative => k <= optimized'
    BY <2>2, RefinedTypes, LoopClosureInList
  <2>4. QED
    BY <1>1, <2>1, <2>3 DEF FlagOrSolve
<1>7. QED
  BY <1>2, <1>3, <1>4, <1>5, <1>6 DEF OptimizePoseGraph, OptimizeStep

LEMMA OtherStepsKeepFlagOrSolve ==
  ASSUME NoServices, TypeOK, SwitchExclusive, RosDoesNotOptimize, FlagOrSolve,
         [Next]_vars, ~OptimizePoseGraph("async")
  PROVE  FlagOrSolve'
<1>1. CASE \E from, to \in Stamp : LoopClosureCallback(from, to)
  BY <1>1 DEF LoopClosureCallback, FlagOrSolve
<1>2. CASE LoopClosureFlag
  BY <1>2 DEF LoopClosureFlag, RaiseLoopClosureFlag, FlagOrSolve
<1>3. CASE /\ ~Optimizing("async")
           /\ pc # "raise_flag"
           /\ LoopClosures' = LoopClosures
           /\ UNCHANGED <<newLoopClosures, optimized>>
  BY <1>3 DEF FlagOrSolve, Optimizing
<1>4. CASE /\ UNCHANGED <<relativeConstraints, problem, stage, newLoopClosures,
                          optimized>>
           /\ pc = "raise_flag" <=> pc' = "raise_flag"
  BY <1>4 DEF LoopClosures, FlagOrSolve
<1>5. QED
  BY <1>1, <1>2, <1>3, <1>4, FlagStepKinds

\* Where no service is called, a loop closure that an optimisation has missed is
\* still flagged when it ends, at whatever moments the loop closures arrive
\* (pose_graph_interface.cpp:178-187).
THEOREM MissedLoopClosuresAreFlagged ==
  ASSUME NoServices PROVE Spec => []MissedLoopClosuresFlagged
<1>1. Init => FlagOrSolve
  BY DEF Init, PoseGraphInit, FlagOrSolve, LoopClosures
<1>2. /\ TypeOK /\ SwitchExclusive /\ RosDoesNotOptimize /\ FlagOrSolve
      /\ [Next]_vars
      => FlagOrSolve'
  BY OtherStepsKeepFlagOrSolve, OptimizeStepKeepsFlagOrSolve, NoServices
<1>3. FlagOrSolve => MissedLoopClosuresFlagged
  BY DEF FlagOrSolve, MissedLoopClosuresFlagged, Optimizing
<1>4. QED
  BY <1>1, <1>2, <1>3, TypeCorrect, SwitchIsExclusive, RefinementInvariant, PTL
     DEF Spec

-------------------------------------------------------------------------------
(* The active submap *)

Behind(pair) == {pair[1], pair[2]} \subseteq SubmapIds \ {ActiveSubmap}

\* Registration constraints join submaps that the mapper has left, or is about
\* to leave, and the optimisation took them over when they did.
PairsBehind ==
  /\ \A pair \in registrationConstraints :
       IF pc = "create" THEN {pair[1], pair[2]} \subseteq SubmapIds
                        ELSE Behind(pair)
  /\ stage["async"] = "solve" => \A pair \in problem.registration : Behind(pair)

\* Which steps change the registration constraints and what is solved of them.
LEMMA PairsKept ==
  ASSUME PairsBehind,
         UNCHANGED <<size, registrationConstraints>>,
         pc # "create", pc' # "create" \/ pc = "finish",
         stage'["async"] = "solve" =>
           stage["async"] = "solve" /\ UNCHANGED problem
  PROVE  PairsBehind'
BY DEF PairsBehind, Behind, SubmapIds, ActiveSubmap

LEMMA CreationLeavesPairs ==
  ASSUME TypeOK, SwitchExclusive, PairsBehind, SwitchCreate
  PROVE  PairsBehind'
<1>1. /\ pc = "create" /\ pc' # "create"
      /\ UNCHANGED <<registrationConstraints, stage>>
      /\ stage["async"] # "solve"
  BY DEF SwitchCreate, SwitchOrder, SwitchExclusive, SwitchPc, Optimizing,
     interfaceVars
<1>2. SubmapIds' \ {ActiveSubmap'} = SubmapIds
  BY DEF SwitchCreate, CreateNewSubmap, TypeOK, MapperTypeOK, SubmapIds,
     ActiveSubmap
<1>3. QED
  BY <1>1, <1>2 DEF PairsBehind, Behind

LEMMA OverlapAddsPairs ==
  ASSUME NoServices, TypeOK, SwitchExclusive, RosDoesNotOptimize, PairsBehind,
         RegistrationOverlap
  PROVE  PairsBehind'
<1>1. /\ pc = "overlap" /\ pc' = "create"
      /\ UNCHANGED <<size, stage, problem>>
      /\ stage["async"] # "solve"
  BY DEF RegistrationOverlap, SwitchOrder, RosDoesNotOptimize, ServicePc,
     SwitchExclusive, SwitchPc, Optimizing, collectionVars
<1>2. PICK overlapping \in OverlappingSubmapLists(SubmapIds) :
        registrationConstraints' =
          registrationConstraints \cup Mirrored(overlapping)
  BY DEF RegistrationOverlap, AddOverlappingPairs, AddRegistrationConstraints
<1>3. \A pair \in Mirrored(overlapping) :
        {pair[1], pair[2]} \subseteq SubmapIds
  BY <1>2 DEF Mirrored, OverlappingSubmapLists
<1>4. SubmapIds' = SubmapIds
  BY <1>1 DEF SubmapIds
<1>5. QED
  BY <1>1, <1>2, <1>3, <1>4 DEF PairsBehind, Behind

LEMMA OptimizeStepLeavesPairs ==
  ASSUME TypeOK, SwitchExclusive, PairsBehind, OptimizePoseGraph("async")
  PROVE  PairsBehind'
<1> DEFINE th == "async"
<1>1. /\ UNCHANGED <<pc, size, registrationConstraints>>
      /\ pc # "create"
  BY OptimizeStepStage DEF OptimizePoseGraph, OptimizeStep, TestFlag,
     Initialize, TakePoseConstraints, TakeRegistrationConstraints, Presolve,
     ClearFlag, Solve, CopyPoses, WritePoses, poseGraphVars,
     constraintCollection, collectionVars, SwitchExclusive, SwitchPc, Thread
<1>2. CASE TakeRegistrationConstraints(th, finished)
  <2>1. problem'.registration = registrationConstraints
    BY <1>2 DEF TakeRegistrationConstraints, TypeOK, PoseGraphTypeOK,
       AddRegistrationConstraintsToProblem
  <2>2. QED
    BY <1>1, <2>1 DEF PairsBehind, Behind, SubmapIds, ActiveSubmap
<1>3. CASE stage'[th] # "solve"
  BY <1>1, <1>3, PairsKept
<1>4. QED
  BY <1>2, <1>3, RefinedTypes DEF OptimizePoseGraph, OptimizeStep, TestFlag,
     Initialize, TakePoseConstraints, Presolve, ClearFlag, Solve, CopyPoses,
     WritePoses, GoTo

\* Where no service is called, no optimisation works on registration constraints
\* of the submap that clouds are integrated into (voxgraph_mapper.cpp:464-468).
THEOREM ActiveSubmapIsNotOptimized ==
  ASSUME NoServices PROVE Spec => []ActiveSubmapNotOptimized
<1>1. Init => PairsBehind
  BY DEF Init, PoseGraphInit, InterfaceInit, PairsBehind, Thread
<1>2. /\ TypeOK /\ SwitchExclusive /\ RosDoesNotOptimize /\ PairsBehind
      /\ [Next]_vars
      => PairsBehind'
  <2> SUFFICES ASSUME TypeOK, SwitchExclusive, RosDoesNotOptimize,
                      PairsBehind, [Next]_vars
               PROVE  PairsBehind'
    OBVIOUS
  <2>1. pc \notin ServicePc /\ stage["ros"] = "idle"
    BY DEF RosDoesNotOptimize
  <2>2. CASE SwitchCreate
    BY <2>2, CreationLeavesPairs
  <2>3. CASE RegistrationOverlap
    BY <2>3, OverlapAddsPairs, NoServices
  <2>4. CASE RegistrationDrop
    <3>1. registrationConstraints' = {} /\ UNCHANGED <<size, stage, problem>>
      BY <2>4 DEF RegistrationDrop, DropRegistrationConstraints,
         ResetRegistrationConstraints, interfaceVars, collectionVars
    <3>2. QED
      BY <3>1 DEF PairsBehind, Behind, SubmapIds, ActiveSubmap
  <2>5. CASE LaunchOptimization
    <3>1. stage'["async"] # "solve"
      BY <2>5, RefinedTypes DEF LaunchOptimization, Begin
    <3>2. QED
      BY <2>5, <3>1, PairsKept
         DEF LaunchOptimization, poseGraphVars, collectionVars
  <2>6. CASE Input
    BY <2>6, PairsKept, NoServices DEF Input, ReceivePointcloud,
       LoopClosureCallback, FinishMapCallback, OptimizeGraphCallback,
       NoServices, poseGraphVars, interfaceVars, collectionVars
  <2>7. CASE CallbackStep
    BY <2>1, <2>2, <2>3, <2>4, <2>5, <2>7, PairsKept DEF CallbackStep,
       ServicePc, SkipPointcloud, UpdateToTime, WaitForOptimization,
       SwitchFinish, SwitchOrder, SwitchPublish, PublishMaps,
       FinishMapPublish, IntegratePointcloud, LoopClosureFlag,
       ServiceOptimized, poseGraphVars, interfaceVars, collectionVars,
       constraintCollection
  <2>8. CASE \E th \in Thread : OptimizePoseGraph(th)
    BY <2>1, <2>8, OptimizeStepStage, OptimizeStepLeavesPairs
       DEF Optimizing, Thread
  <2>9. CASE UNCHANGED vars
    BY <2>9 DEF vars, poseGraphVars, interfaceVars, collectionVars,
       PairsBehind, Behind, SubmapIds, ActiveSubmap
  <2>10. QED
    BY <2>6, <2>7, <2>8, <2>9 DEF Next, Still
<1>3. RosDoesNotOptimize /\ PairsBehind => ActiveSubmapNotOptimized
  BY DEF RosDoesNotOptimize, PairsBehind, Behind, ActiveSubmapNotOptimized,
     Thread
<1>4. QED
  BY <1>1, <1>2, <1>3, TypeCorrect, SwitchIsExclusive, RefinementInvariant, PTL
     DEF Spec
===============================================================================
