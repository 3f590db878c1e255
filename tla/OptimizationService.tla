------------------------- MODULE OptimizationService -------------------------
(***************************************************************************)
(* What a user of the mapper may rely on about the optimisation that runs  *)
(* beside the mapping (the comments of VoxgraphMapper::pointcloudCallback  *)
(* and optimizePoseGraph).  Submaps, with their odometry, only come between *)
(* optimisations; loop closures come at any time.  Every optimisation that *)
(* is started takes, once, all the constraints there are by then, ends     *)
(* with the solve of these, and gives the submaps the poses of that solve. *)
(*                                                                         *)
(* How constraints are collected, put into a problem and solved, and how   *)
(* the two threads keep out of each other's way, is left to VoxgraphMapper, *)
(* which implements this specification where nobody calls its services.    *)
(***************************************************************************)
EXTENDS Naturals

VARIABLES
  phase,        \* where the optimisation stands
  constraints,  \* number of relative pose constraints
  odometry,     \* the numbers of those that came with submaps
  taken,        \* how many the optimisation under way has taken
  solved,       \* how many the last complete solve had
  version,      \* number of solves: the poses of the pose graph
  poses         \* the solve whose poses the submaps have

vars == <<phase, constraints, odometry, taken, solved, version, poses>>

Init ==
  /\ phase = "idle"
  /\ constraints = 0
  /\ odometry = {}
  /\ taken = 0
  /\ solved = 0
  /\ version = 0
  /\ poses = 0

\* A submap brings its constraint between optimisations only.
AddOdometry ==
  /\ phase = "idle"
  /\ constraints' = constraints + 1
  /\ odometry' = odometry \cup {constraints'}
  /\ UNCHANGED <<phase, taken, solved, version, poses>>

AddLoopClosure ==
  /\ constraints' = constraints + 1
  /\ UNCHANGED <<phase, odometry, taken, solved, version, poses>>

Start ==
  /\ phase = "idle"
  /\ phase' = "started"
  /\ UNCHANGED <<constraints, odometry, taken, solved, version, poses>>

\* A solve that leaves out constraints; it comes before the complete one.
Presolve ==
  /\ phase = "started"
  /\ version' = version + 1
  /\ UNCHANGED <<phase, constraints, odometry, taken, solved, poses>>

Take ==
  /\ phase = "started"
  /\ phase' = "taken"
  /\ taken' = constraints
  /\ UNCHANGED <<constraints, odometry, solved, version, poses>>

\* The complete solve.
Solve ==
  /\ phase = "taken"
  /\ phase' = "solved"
  /\ version' = version + 1
  /\ solved' = taken
  /\ taken' = 0
  /\ UNCHANGED <<constraints, odometry, poses>>

\* The submaps are given the poses of the complete solve.
Deliver ==
  /\ phase = "solved"
  /\ phase' = "idle"
  /\ poses' = version
  /\ UNCHANGED <<constraints, odometry, taken, solved, version>>

Next ==
  \/ AddOdometry
  \/ AddLoopClosure
  \/ Start
  \/ Presolve
  \/ Take
  \/ Solve
  \/ Deliver

Spec == Init /\ [][Next]_vars

\* An optimisation that is under way ends.
FairSpec == Spec /\ WF_vars(Take) /\ WF_vars(Solve) /\ WF_vars(Deliver)
===============================================================================
