-------------------------- MODULE PoseGraphInterface --------------------------
(***************************************************************************)
(* The frontend's access to the pose graph                                 *)
(* (frontend/pose_graph_interface/pose_graph_interface.cpp) and the        *)
(* optimisation that VoxgraphMapper::optimizePoseGraph runs on it.         *)
(*                                                                         *)
(* optimizePoseGraph is called by two threads: the one std::async starts   *)
(* when a submap is switched, and the ROS thread in the finish_map and     *)
(* optimize_pose_graph services.  Nothing locks the pose graph, so each    *)
(* thread walks through the procedure in steps of its own, stage[th].      *)
(***************************************************************************)
EXTENDS PoseGraph

VARIABLES
  newLoopClosures,  \* new_loop_closures_added_since_last_optimization_
  stage,            \* where each thread stands in optimizePoseGraph
  copiedPoses,      \* the poses getSubmapPoses has copied, per thread
  submapPoses,      \* the poses in the submap collection
  preoptimized,     \* history: relative constraints solved without registration
  optimized         \* history: relative constraints solved with everything

optimizeVars == <<stage, copiedPoses, submapPoses, preoptimized, optimized>>
interfaceVars == <<newLoopClosures, stage, copiedPoses, submapPoses,
                   preoptimized, optimized>>

Thread == {"ros", "async"}
Stage == {"idle", "begin",
          "pre_reset", "pre_constraints", "pre_solve", "clear_flag",
          "reset", "constraints", "registration", "solve",
          "copy", "write"}

(***************************************************************************)
(* Poses are versions: the n-th solve leaves version n in the nodes, so    *)
(* solves is the version of the nodes and submapPoses the version that the *)
(* submap collection was last given.                                       *)
(***************************************************************************)
InterfaceTypeOK ==
  /\ newLoopClosures \in BOOLEAN
  /\ stage \in [Thread -> Stage]
  /\ copiedPoses \in [Thread -> Nat]
  /\ submapPoses \in Nat
  /\ preoptimized \in Nat
  /\ optimized \in Nat

InterfaceInit ==
  /\ newLoopClosures = FALSE
  /\ stage = [th \in Thread |-> "idle"]
  /\ copiedPoses = [th \in Thread |-> 0]
  /\ submapPoses = 0
  /\ preoptimized = 0
  /\ optimized = 0

Optimizing(th) == stage[th] # "idle"

\* The thread is walking one of the constraint lists.
ReadsConstraints(th) ==
  stage[th] \in {"pre_constraints", "constraints", "registration"}

\* The thread holds a pointer into *problem_ptr_.
UsesProblem(th) ==
  stage[th] \in {"pre_constraints", "pre_solve",
                 "constraints", "registration", "solve"}

-------------------------------------------------------------------------------
(* Calls that add to the graph *)

AddSubmap(id) == AddSubmapNode(id)

AddOdometryMeasurement(from, to) ==
  AddRelativePoseConstraint("odometry", from, to)

\* The constraint is added first, the flag raised afterwards.
AddLoopClosureConstraint(from, to) ==
  AddRelativePoseConstraint("loop_closure", from, to)

RaiseLoopClosureFlag == newLoopClosures' = TRUE

\* Mutant: the reference frame is taken to be there.
AddHeightMeasurementOnly(id) ==
  /\ UNCHANGED referenceFrames
  /\ AddAbsolutePoseConstraint("mission", id)

AddHeightMeasurement(id) ==
  /\ AddReferenceFrameNode("mission")
  /\ AddAbsolutePoseConstraint("mission", id)

\* Every pair i < j of the ids; which pairs overlap is up to the geometry.
OverlappingSubmapLists(ids) ==
  SUBSET {pair \in ids \X ids : pair[1] < pair[2]}

\* updateRegistrationConstraints: drop the old list, then add the new pairs.
DropRegistrationConstraints(caller) ==
  ResetRegistrationConstraints(
    \E th \in Thread \ {caller} : stage[th] = "registration")

AddOverlappingPairs(ids) ==
  \E overlapping \in OverlappingSubmapLists(ids) :
    AddRegistrationConstraints(overlapping)

-------------------------------------------------------------------------------
(* optimizePoseGraph, step by step *)

Begin(th) == stage' = [stage EXCEPT ![th] = "begin"]

GoTo(th, from, to) ==
  /\ stage[th] = from
  /\ stage' = [stage EXCEPT ![th] = to]

TestFlag(th) ==
  /\ GoTo(th, "begin", IF newLoopClosures THEN "pre_reset" ELSE "reset")
  /\ UNCHANGED <<poseGraphVars, newLoopClosures, copiedPoses, submapPoses,
                 preoptimized, optimized>>

Initialize(th) ==
  /\ \/ GoTo(th, "pre_reset", "pre_constraints")
     \/ GoTo(th, "reset", "constraints")
  /\ ResetProblem(\E other \in Thread \ {th} : UsesProblem(other))
  /\ UNCHANGED <<submapNodes, referenceFrames, constraintCollection, solves,
                 newLoopClosures, copiedPoses, submapPoses,
                 preoptimized, optimized>>

TakePoseConstraints(th) ==
  /\ \/ GoTo(th, "pre_constraints", "pre_solve")
     \/ GoTo(th, "constraints", "registration")
  /\ AddPoseConstraintsToProblem
  /\ UNCHANGED <<submapNodes, referenceFrames, constraintCollection, solves,
                 newLoopClosures, copiedPoses, submapPoses,
                 preoptimized, optimized>>

TakeRegistrationConstraints(th, finished) ==
  /\ GoTo(th, "registration", "solve")
  /\ AddRegistrationConstraintsToProblem(finished)
  /\ UNCHANGED <<submapNodes, referenceFrames, constraintCollection, solves,
                 newLoopClosures, copiedPoses, submapPoses,
                 preoptimized, optimized>>

Larger(m, n) == IF m < n THEN n ELSE m

\* The solve without the registration constraints, and the one with them.
Presolve(th) ==
  /\ GoTo(th, "pre_solve", "clear_flag")
  /\ SolveProblem
  /\ preoptimized' = Larger(preoptimized, problem.relative)
  /\ UNCHANGED <<submapNodes, referenceFrames, constraintCollection, problem,
                 status, newLoopClosures, copiedPoses, submapPoses, optimized>>

\* Mutant: the optimisation ends after the solve without registration.
ClearFlagAndFinish(th) ==
  /\ GoTo(th, "clear_flag", "copy")
  /\ newLoopClosures' = FALSE
  /\ UNCHANGED <<poseGraphVars, copiedPoses, submapPoses,
                 preoptimized, optimized>>

ClearFlag(th) ==
  /\ GoTo(th, "clear_flag", "reset")
  /\ newLoopClosures' = FALSE
  /\ UNCHANGED <<poseGraphVars, copiedPoses, submapPoses,
                 preoptimized, optimized>>

\* Mutant: the flag is cleared after both solves.
SolveAndClearFlag(th) ==
  /\ GoTo(th, "solve", "copy")
  /\ SolveProblem
  /\ optimized' = Larger(optimized, problem.relative)
  /\ newLoopClosures' = FALSE
  /\ UNCHANGED <<submapNodes, referenceFrames, constraintCollection, problem,
                 status, copiedPoses, submapPoses, preoptimized>>

Solve(th) ==
  /\ GoTo(th, "solve", "copy")
  /\ SolveProblem
  /\ optimized' = Larger(optimized, problem.relative)
  /\ UNCHANGED <<submapNodes, referenceFrames, constraintCollection, problem,
                 status, newLoopClosures, copiedPoses, submapPoses,
                 preoptimized>>

\* updateSubmapCollectionPoses copies the node poses into a map and then
\* writes them to the submaps.
CopyPoses(th) ==
  /\ GoTo(th, "copy", "write")
  /\ copiedPoses' = [copiedPoses EXCEPT ![th] = solves]
  /\ UNCHANGED <<poseGraphVars, newLoopClosures, submapPoses,
                 preoptimized, optimized>>

\* Mutant: the poses stay in the pose graph.
KeepPoses(th) ==
  /\ GoTo(th, "write", "idle")
  /\ UNCHANGED <<poseGraphVars, newLoopClosures, copiedPoses, submapPoses,
                 preoptimized, optimized>>

WritePoses(th) ==
  /\ GoTo(th, "write", "idle")
  /\ submapPoses' = copiedPoses[th]
  /\ UNCHANGED <<poseGraphVars, newLoopClosures, copiedPoses,
                 preoptimized, optimized>>

OptimizeStep(th, finished) ==
  \/ TestFlag(th)
  \/ Initialize(th)
  \/ TakePoseConstraints(th)
  \/ TakeRegistrationConstraints(th, finished)
  \/ Presolve(th)
  \/ ClearFlag(th)
  \/ Solve(th)
  \/ CopyPoses(th)
  \/ WritePoses(th)
===============================================================================
