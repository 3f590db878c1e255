------------------------------ MODULE PoseGraph ------------------------------
(***************************************************************************)
(* The backend: the nodes, the constraint collection and the ceres problem *)
(* that PoseGraph::initialize rebuilds from them (backend/pose_graph.cpp,  *)
(* backend/constraint/*, backend/node/* ).  The operators are the calls of *)
(* the frontend; PoseGraphInterface strings them together.                 *)
(*                                                                         *)
(* Measurement values, information matrices and poses are left out: what   *)
(* is kept of a constraint is which nodes it joins and of which kind it    *)
(* is, and of a solve that it took place.  Constraints are emplaced in     *)
(* std::lists; relative and absolute ones are never removed, so what a     *)
(* problem holds of the relative constraints is a prefix of the list, kept *)
(* as its length.  The constraint ids handed out by newConstraintId are    *)
(* never read and are left out.                                            *)
(***************************************************************************)
EXTENDS Naturals, Sequences

CONSTANT MirrorRegistration  \* registration_point_type is kIsosurfacePoints
ASSUME MirrorRegistrationAssumption == MirrorRegistration \in BOOLEAN

VARIABLES
  submapNodes,              \* ids of the submaps that have a node
  referenceFrames,          \* reference frames that have a node
  absoluteConstraints,      \* set of [frame, submap]
  relativeConstraints,      \* sequence of [type, from, to]
  registrationConstraints,  \* set of <<first, second>>
  problem,                  \* what *problem_ptr_ holds
  solves,                   \* length of solver_summaries_
  status                    \* "running", or how the process has died

poseGraphVars ==
  <<submapNodes, referenceFrames, absoluteConstraints, relativeConstraints,
    registrationConstraints, problem, solves, status>>

constraintCollection ==
  <<absoluteConstraints, relativeConstraints, registrationConstraints>>

SubmapID == Nat
FrameId == {"mission", "gps"}

\* problem_ptr_ is null until the first initialize.
NoProblem ==
  [exists |-> FALSE, absolute |-> {}, relative |-> 0, registration |-> {}]
EmptyProblem == [NoProblem EXCEPT !.exists = TRUE]

PoseGraphTypeOK ==
  /\ submapNodes \subseteq SubmapID
  /\ referenceFrames \subseteq FrameId
  /\ absoluteConstraints \subseteq [frame : FrameId, submap : SubmapID]
  /\ relativeConstraints \in
       Seq([type : {"odometry", "loop_closure"}, from : SubmapID, to : SubmapID])
  /\ registrationConstraints \subseteq SubmapID \X SubmapID
  /\ problem \in [exists : BOOLEAN,
                  absolute : SUBSET [frame : FrameId, submap : SubmapID],
                  relative : Nat,
                  registration : SUBSET (SubmapID \X SubmapID)]
  /\ solves \in Nat
  /\ status \in {"running", "check_failed", "segfault"}

PoseGraphInit ==
  /\ submapNodes = {}
  /\ referenceFrames = {}
  /\ absoluteConstraints = {}
  /\ relativeConstraints = <<>>
  /\ registrationConstraints = {}
  /\ problem = NoProblem
  /\ solves = 0
  /\ status = "running"

-------------------------------------------------------------------------------
(* Nodes and constraints *)

\* A failing CHECK of glog aborts the process.
Check(condition) ==
  status' = IF condition THEN status ELSE "check_failed"

AddSubmapNode(id) == submapNodes' = submapNodes \cup {id}

AddReferenceFrameNode(frame) == referenceFrames' = referenceFrames \cup {frame}

AddAbsolutePoseConstraint(frame, submap) ==
  absoluteConstraints' =
    absoluteConstraints \cup {[frame |-> frame, submap |-> submap]}

AddRelativePoseConstraint(type, from, to) ==
  relativeConstraints' =
    Append(relativeConstraints, [type |-> type, from |-> from, to |-> to])

\* With isosurface points every constraint is added in both directions.
Mirrored(pairs) ==
  IF MirrorRegistration
  THEN pairs \cup {<<pair[2], pair[1]>> : pair \in pairs}
  ELSE pairs

(***************************************************************************)
(* Clearing the list while another thread walks it (reading is then TRUE)  *)
(* frees the element the other thread stands on.                           *)
(***************************************************************************)
ResetRegistrationConstraints(reading) ==
  /\ registrationConstraints' = {}
  /\ status' \in {status} \cup (IF reading THEN {"segfault"} ELSE {})

AddRegistrationConstraints(pairs) ==
  /\ registrationConstraints' = registrationConstraints \cup Mirrored(pairs)
  /\ Check(\A pair \in pairs : /\ pair[1] # pair[2]
                               /\ {pair[1], pair[2]} \subseteq submapNodes)

-------------------------------------------------------------------------------
(* PoseGraph::initialize and PoseGraph::optimize, in the steps another     *)
(* thread can fall between.                                                *)

\* problem_ptr_.reset(new ceres::Problem): inUse when another thread is
\* filling or solving the problem that is freed here.
ResetProblem(inUse) ==
  /\ problem' = EmptyProblem
  /\ status' \in {status} \cup (IF inUse THEN {"segfault"} ELSE {})

\* addToProblem of each kind of constraint looks up both ends and CHECKs that
\* they exist.
AbsoluteEndsExist(c) == c.frame \in referenceFrames /\ c.submap \in submapNodes

RelativeEndsExist(c) == {c.from, c.to} \subseteq submapNodes

\* The cost function takes the registration points of the first submap, which
\* has to be finished.
RegistrationEndsReady(pair, finished) ==
  {pair[1], pair[2]} \subseteq submapNodes /\ pair[1] \in finished

AddPoseConstraintsToProblem ==
  /\ problem' = [problem EXCEPT !.absolute = absoluteConstraints,
                                !.relative = Len(relativeConstraints)]
  /\ Check(/\ \A c \in absoluteConstraints : AbsoluteEndsExist(c)
           /\ \A k \in DOMAIN relativeConstraints :
                RelativeEndsExist(relativeConstraints[k]))

AddRegistrationConstraintsToProblem(finished) ==
  /\ problem' = [problem EXCEPT !.registration = registrationConstraints]
  /\ Check(\A pair \in registrationConstraints :
             RegistrationEndsReady(pair, finished))

\* ceres::Solve moves the poses of the nodes; its summary is stored.
SolveProblem == solves' = solves + 1
===============================================================================
