---------------------------- MODULE VoxgraphMapper ----------------------------
(***************************************************************************)
(* The mapper node (frontend/voxgraph_mapper.cpp): the callbacks that      *)
(* ros::spin runs one at a time on the ROS thread, and the thread that     *)
(* std::async starts to optimise the pose graph after each submap switch.  *)
(*                                                                         *)
(* pc is where the ROS thread stands.  It is "idle" while the thread is in *)
(* a spin: the outermost one of main, or the spinOnce of a pointcloud      *)
(* callback that waits for odometry (map_tracker/transformers/             *)
(* odometry_transformer.cpp), in which the other callbacks run, further    *)
(* pointcloud callbacks included.  The stamps of the clouds whose          *)
(* callbacks have started are the stack pending, innermost first; a        *)
(* callback that has looked up its pose runs to its end, so past the       *)
(* lookup the stamp is always the top one.                                 *)
(***************************************************************************)
EXTENDS PoseGraphInterface, SubmapTimeline, Integers, FiniteSets

CONSTANTS
  MaxStamp,                 \* stamps are 1..MaxStamp
  SubmapCreationInterval,   \* submap_creation_interval_
  MaxPending,               \* callbacks that wait for odometry inside each
                            \* other; 1 when odometry comes from TFs
  InOrderClouds,            \* clouds arrive in the order of their stamps
  MaxLoopClosures,          \* bound on the loop closures accepted
  Services,                 \* the services that are called
  MaxServiceCalls,          \* bound on their calls
  OdometryConstraints,      \* odometry_constraints_enabled_
  RegistrationConstraints,  \* registration_constraints_enabled_
  HeightConstraints,        \* height_constraints_enabled_
  EdgeSubscriber            \* somebody listens to loop_closure_edges

ASSUME MapperAssumption ==
  /\ MaxStamp \in Nat
  /\ SubmapCreationInterval \in Nat
  /\ MaxPending \in Nat
  /\ InOrderClouds \in BOOLEAN
  /\ MaxLoopClosures \in Nat
  /\ Services \subseteq {"finish_map", "optimize_pose_graph"}
  /\ MaxServiceCalls \in Nat
  /\ {OdometryConstraints, RegistrationConstraints, HeightConstraints,
      EdgeSubscriber} \subseteq BOOLEAN

VARIABLES
  pc,            \* where the ROS thread stands
  pending,       \* stamps of the pointcloud callbacks under way
  latestCloud,   \* the largest stamp that has arrived
  serviceCalls,  \* number of service calls, for the bound
  size,          \* number of submaps; ids are 0..size-1, the last is active
  finished,      \* submaps with finished_ set
  poseHistory,   \* stamps in each submap's pose history
  timeline       \* submap_timeline_

collectionVars == <<size, finished, poseHistory, timeline>>
inputVars == <<pending, latestCloud, serviceCalls>>
vars == <<poseGraphVars, interfaceVars, pc, inputVars, collectionVars>>

Stamp == 1..MaxStamp
SwitchPc == {"finish", "drop", "overlap", "create", "launch"}
Pc == {"idle", "wait", "publish", "integrate", "raise_flag",
       "map_drop", "map_overlap", "map_optimize", "map_publish",
       "graph_optimize"} \cup SwitchPc

SubmapIds == 0..size-1
ActiveSubmap == size - 1

MapperTypeOK ==
  /\ pc \in Pc
  /\ pending \in Seq(Stamp)
  /\ latestCloud \in 0..MaxStamp
  /\ serviceCalls \in Nat
  /\ size \in Nat
  /\ finished \subseteq SubmapIds
  /\ poseHistory \in [SubmapIds -> SUBSET Stamp]
  /\ DOMAIN timeline \subseteq Stamp
  /\ timeline \in [DOMAIN timeline -> SubmapIds]

\* Every variable has its type.
TypeOK == PoseGraphTypeOK /\ InterfaceTypeOK /\ MapperTypeOK

Init ==
  /\ PoseGraphInit
  /\ InterfaceInit
  /\ pc = "idle"
  /\ pending = <<>>
  /\ latestCloud = 0
  /\ serviceCalls = 0
  /\ size = 0
  /\ finished = {}
  /\ poseHistory = [id \in {} |-> {}]
  /\ timeline = EmptyTimeline

-------------------------------------------------------------------------------
(* pointcloudCallback *)

CurrentStamp == Head(pending)

\* The callback starts and enters waitForTransform.
ReceivePointcloud(stamp) ==
  /\ pc = "idle"
  /\ Len(pending) < MaxPending
  /\ InOrderClouds => stamp > latestCloud
  /\ pending' = <<stamp>> \o pending
  /\ latestCloud' = Larger(latestCloud, stamp)
  /\ UNCHANGED <<poseGraphVars, interfaceVars, pc, serviceCalls,
                 collectionVars>>

\* updateToTime returns false: no odometry within transform_lookup_max_time_,
\* or no sensor calibration.  The cloud is skipped.
SkipPointcloud ==
  /\ pc = "idle"
  /\ pending # <<>>
  /\ pending' = Tail(pending)
  /\ UNCHANGED <<poseGraphVars, interfaceVars, pc, latestCloud, serviceCalls,
                 collectionVars>>

StartTime(id) == IF poseHistory[id] = {} THEN 0 ELSE FirstOf(poseHistory[id])

\* Mutant: the distance to the start time in either direction.
ShouldCreateNewSubmapEitherWay(stamp) ==
  \/ size = 0
  \/ stamp > StartTime(ActiveSubmap) + SubmapCreationInterval
  \/ StartTime(ActiveSubmap) > stamp + SubmapCreationInterval

ShouldCreateNewSubmap(stamp) ==
  size = 0 \/ stamp > StartTime(ActiveSubmap) + SubmapCreationInterval

UpdateToTime ==
  /\ pc = "idle"
  /\ pending # <<>>
  /\ pc' = IF ShouldCreateNewSubmap(CurrentStamp) THEN "wait" ELSE "integrate"
  /\ UNCHANGED <<poseGraphVars, interfaceVars, inputVars, collectionVars>>

\* Mutant: the optimisation is not waited for.
WaitForNothing ==
  /\ pc = "wait"
  /\ pc' = "finish"
  /\ UNCHANGED <<poseGraphVars, interfaceVars, inputVars, collectionVars>>

\* optimization_async_handle_.wait(), unless the handle is not valid or ready.
WaitForOptimization ==
  /\ pc = "wait"
  /\ ~Optimizing("async")
  /\ pc' = "finish"
  /\ UNCHANGED <<poseGraphVars, interfaceVars, inputVars, collectionVars>>

FinishActiveSubmap ==
  finished' = IF size = 0 THEN finished ELSE finished \cup {ActiveSubmap}

\* Mutant: the new submap is created before the registration constraints are
\* updated.
SwitchOrderCreateFirst ==
  [finish |-> "create", create |-> "drop", drop |-> "overlap",
   overlap |-> "launch"]

\* The order of the steps of switchToNewSubmap.
SwitchOrder ==
  [finish |-> IF RegistrationConstraints THEN "drop" ELSE "create",
   drop |-> "overlap", overlap |-> "create", create |-> "launch"]

SwitchFinish ==
  /\ pc = "finish"
  /\ pc' = SwitchOrder.finish
  /\ FinishActiveSubmap
  /\ UNCHANGED <<poseGraphVars, interfaceVars, inputVars,
                 size, poseHistory, timeline>>

\* updateRegistrationConstraints, called by a switch or by finish_map.
RegistrationDrop ==
  /\ \/ pc = "drop" /\ pc' = SwitchOrder.drop
     \/ pc = "map_drop" /\ pc' = "map_overlap"
  /\ DropRegistrationConstraints("ros")
  /\ UNCHANGED <<submapNodes, referenceFrames, absoluteConstraints,
                 relativeConstraints, problem, solves,
                 interfaceVars, inputVars, collectionVars>>

RegistrationOverlap ==
  /\ \/ /\ pc = "overlap" /\ pc' = SwitchOrder.overlap
        /\ UNCHANGED stage
     \/ /\ pc = "map_overlap" /\ pc' = "map_optimize"
        /\ Begin("ros")
  /\ AddOverlappingPairs(SubmapIds)
  /\ UNCHANGED <<submapNodes, referenceFrames, absoluteConstraints,
                 relativeConstraints, problem, solves,
                 newLoopClosures, copiedPoses, submapPoses, preoptimized,
                 optimized, inputVars, collectionVars>>

\* Mutant: the inherited createNewSubmap, which knows no timeline.
CreateNewSubmapUntimed(id, stamp) ==
  /\ size' = size + 1
  /\ poseHistory' = [i \in SubmapIds \cup {id} |->
                       IF i = id THEN {} ELSE poseHistory[i]]
  /\ timeline' = timeline

\* createNewSubmap: the id is one more than the largest, the new submap is the
\* active one and is entered in the timeline.
CreateNewSubmap(id, stamp) ==
  /\ size' = size + 1
  /\ poseHistory' = [i \in SubmapIds \cup {id} |->
                       IF i = id THEN {} ELSE poseHistory[i]]
  /\ timeline' = AddNextSubmap(timeline, stamp, id)

\* The rest of switchToNewSubmap: the submap, its node and its constraints.
SwitchCreate ==
  /\ pc = "create"
  /\ pc' = SwitchOrder.create
  /\ CreateNewSubmap(size, CurrentStamp)
  /\ AddSubmap(size)
  /\ IF OdometryConstraints /\ size > 0
     THEN /\ Check(HasPreviousSubmap(timeline'))
          /\ IF HasPreviousSubmap(timeline')
             THEN AddOdometryMeasurement(PreviousSubmapId(timeline'), size)
             ELSE UNCHANGED relativeConstraints
     ELSE UNCHANGED <<status, relativeConstraints>>
  /\ IF HeightConstraints /\ size > 0
     THEN AddHeightMeasurement(size)
     ELSE UNCHANGED <<referenceFrames, absoluteConstraints>>
  /\ UNCHANGED <<registrationConstraints, problem, solves, interfaceVars,
                 inputVars, finished>>

\* Mutant: the optimisation is started for the first submap only.
LaunchOnce ==
  /\ pc = "launch"
  /\ pc' = "publish"
  /\ IF size = 1 THEN Begin("async") ELSE UNCHANGED stage
  /\ UNCHANGED <<poseGraphVars, newLoopClosures, copiedPoses, submapPoses,
                 preoptimized, optimized, inputVars, collectionVars>>

\* The optimisation is started in a thread of its own.
LaunchOptimization ==
  /\ pc = "launch"
  /\ pc' = "publish"
  /\ Begin("async")
  /\ UNCHANGED <<poseGraphVars, newLoopClosures, copiedPoses, submapPoses,
                 preoptimized, optimized, inputVars, collectionVars>>

(***************************************************************************)
(* publishMaps: the previous submap is looked up in the timeline, and the  *)
(* surface points of a submap that is published (others lists those that   *)
(* the caller publishes) are only there when it is finished; somebody is   *)
(* taken to listen to them.  The covariances of the loop closure edges are *)
(* computed from *problem_ptr_, which the other thread may be freeing or   *)
(* filling, or not have made yet.                                          *)
(***************************************************************************)
PublishMaps(others) ==
  /\ LET published == /\ HasPreviousSubmap(timeline)
                      /\ PreviousSubmapId(timeline) \in finished
         unstable == \/ ~problem.exists
                     \/ stage["async"] \notin {"idle", "copy", "write"}
     IN  \/ Check((size > 1 => published) /\ others \subseteq finished)
         \/ EdgeSubscriber /\ unstable /\ status' = "segfault"
  /\ UNCHANGED <<submapNodes, referenceFrames, constraintCollection, problem,
                 solves, interfaceVars, inputVars, collectionVars>>

SwitchPublish == pc = "publish" /\ pc' = "integrate" /\ PublishMaps({})

\* integratePointcloud, addPoseToHistory and the return of the callback.
IntegratePointcloud ==
  /\ pc = "integrate"
  /\ pc' = "idle"
  /\ poseHistory' = [poseHistory EXCEPT ![ActiveSubmap] = @ \cup {CurrentStamp}]
  /\ pending' = Tail(pending)
  /\ UNCHANGED <<poseGraphVars, interfaceVars, latestCloud, serviceCalls,
                 size, finished, timeline>>

-------------------------------------------------------------------------------
(* loopClosureCallback.  A message that is rejected changes nothing. *)

LoopClosures ==
  {k \in DOMAIN relativeConstraints :
     relativeConstraints[k].type = "loop_closure"}

\* lookupPoseByTime succeeds from the first stamp of the submap's history on.
HasPose(id, stamp) == NotAfter(poseHistory[id], stamp) # {}

LoopClosureCallback(from, to) ==
  /\ pc = "idle"
  /\ Cardinality(LoopClosures) < MaxLoopClosures
  /\ HasActiveSubmap(timeline, from)
  /\ HasActiveSubmap(timeline, to)
  /\ LET A == ActiveSubmapByTime(timeline, from)
         B == ActiveSubmapByTime(timeline, to)
     IN  /\ A # B
         /\ HasPose(A, from)
         /\ HasPose(B, to)
         /\ AddLoopClosureConstraint(A, B)
  /\ pc' = "raise_flag"
  /\ UNCHANGED <<submapNodes, referenceFrames, absoluteConstraints,
                 registrationConstraints, problem, solves, status,
                 interfaceVars, inputVars, collectionVars>>

LoopClosureFlag ==
  /\ pc = "raise_flag"
  /\ pc' = "idle"
  /\ RaiseLoopClosureFlag
  /\ UNCHANGED <<poseGraphVars, stage, copiedPoses, submapPoses, preoptimized,
                 optimized, inputVars, collectionVars>>

-------------------------------------------------------------------------------
(* Services *)

\* finishMapCallback, up to the update of the registration constraints.
FinishMapCallback ==
  /\ pc = "idle"
  /\ "finish_map" \in Services
  /\ serviceCalls < MaxServiceCalls
  /\ serviceCalls' = serviceCalls + 1
  /\ FinishActiveSubmap
  /\ IF RegistrationConstraints
     THEN pc' = "map_drop" /\ UNCHANGED stage
     ELSE pc' = "map_optimize" /\ Begin("ros")
  /\ UNCHANGED <<poseGraphVars, newLoopClosures, copiedPoses, submapPoses,
                 preoptimized, optimized, pending, latestCloud,
                 size, poseHistory, timeline>>

\* optimizePoseGraph returns; finish_map goes on to publish the map.
ServiceOptimized ==
  /\ ~Optimizing("ros")
  /\ \/ pc = "map_optimize" /\ pc' = "map_publish"
     \/ pc = "graph_optimize" /\ pc' = "idle"
  /\ UNCHANGED <<poseGraphVars, interfaceVars, inputVars, collectionVars>>

\* publishActiveSubmap, unless there is no submap, and publishMaps.
FinishMapPublish ==
  /\ pc = "map_publish"
  /\ pc' = "idle"
  /\ PublishMaps(IF size = 0 THEN {} ELSE {ActiveSubmap})

OptimizeGraphCallback ==
  /\ pc = "idle"
  /\ "optimize_pose_graph" \in Services
  /\ serviceCalls < MaxServiceCalls
  /\ serviceCalls' = serviceCalls + 1
  /\ pc' = "graph_optimize"
  /\ Begin("ros")
  /\ UNCHANGED <<poseGraphVars, newLoopClosures, copiedPoses, submapPoses,
                 preoptimized, optimized, pending, latestCloud,
                 collectionVars>>

-------------------------------------------------------------------------------
\* Messages and calls from outside.
Input ==
  \/ \E stamp \in Stamp : ReceivePointcloud(stamp)
  \/ \E from, to \in Stamp : LoopClosureCallback(from, to)
  \/ FinishMapCallback
  \/ OptimizeGraphCallback

\* The rest of the callbacks.
CallbackStep ==
  \/ SkipPointcloud
  \/ UpdateToTime
  \/ WaitForOptimization
  \/ SwitchFinish
  \/ RegistrationDrop
  \/ RegistrationOverlap
  \/ SwitchCreate
  \/ LaunchOptimization
  \/ SwitchPublish
  \/ IntegratePointcloud
  \/ LoopClosureFlag
  \/ ServiceOptimized
  \/ FinishMapPublish

OptimizePoseGraph(th) ==
  /\ OptimizeStep(th, finished)
  /\ UNCHANGED <<pc, inputVars, collectionVars>>

\* The node has died, or spins without anything to do.
Still ==
  /\ \/ status # "running"
     \/ pc = "idle" /\ pending = <<>> /\ \A th \in Thread : ~Optimizing(th)
  /\ UNCHANGED vars

Next ==
  \/ status = "running" /\ Input
  \/ status = "running" /\ CallbackStep
  \/ status = "running" /\ \E th \in Thread : OptimizePoseGraph(th)
  \/ Still

(***************************************************************************)
(* The operating system runs both threads; a callback that has started and *)
(* a solve, which max_solver_time_in_seconds bounds, come to their end.    *)
(* Nothing makes messages or service calls arrive.                         *)
(***************************************************************************)
Fairness ==
  /\ WF_vars(status = "running" /\ CallbackStep)
  /\ \A th \in Thread :
       WF_vars(status = "running" /\ OptimizePoseGraph(th))

Spec == Init /\ [][Next]_vars
FairSpec == Spec /\ Fairness
-------------------------------------------------------------------------------
(* What the mapper promises *)

\* A pointcloud callback that is past the lookup of its pose has a stamp.
CloudUnderWay ==
  pc \in {"wait", "publish", "integrate"} \cup SwitchPc => pending # <<>>

\* Every submap but the active one is finished, and the active one is too from
\* the moment a callback has finished it until a new one is created.
SubmapsFinished ==
  /\ SubmapIds \ {ActiveSubmap} \subseteq finished
  /\ pc \in {"drop", "overlap", "create", "map_drop", "map_overlap"} =>
       SubmapIds \subseteq finished

\* The nodes of the pose graph are the submaps of the collection.
NodesAreSubmaps == submapNodes = SubmapIds

(***************************************************************************)
(* No CHECK of the code fails: the ends of every constraint that reaches   *)
(* addToProblem have nodes, every registration constraint starts at a      *)
(* finished submap, and whenever there are two submaps the timeline has a  *)
(* previous one (pose_graph.cpp:50, registration_cost_function.cpp:20,     *)
(* submap_timeline.cpp:31).                                                *)
(***************************************************************************)
NoCheckFailure == status # "check_failed"

(***************************************************************************)
(* While a pointcloud callback is inside switchToNewSubmap, which changes  *)
(* the constraint collection and the nodes, the optimisation thread is not *)
(* running (voxgraph_mapper.cpp:219-231).                                  *)
(***************************************************************************)
SwitchExclusive == pc \in SwitchPc => ~Optimizing("async")

(***************************************************************************)
(* The constraint lists only change while the optimisation thread is not   *)
(* walking them, whichever callback changes them                           *)
(* (voxgraph_mapper.cpp:220-221).                                          *)
(***************************************************************************)
ConstraintsNotInUse ==
  [][constraintCollection' # constraintCollection =>
       ~ReadsConstraints("async")]_vars

(***************************************************************************)
(* Both ends of every constraint in the collection have a node, although   *)
(* the collection adds absolute and relative constraints unchecked         *)
(* (pose_graph.cpp:34 and :42): loop closures take their ends from the     *)
(* timeline, odometry from the timeline and the collection.                *)
(***************************************************************************)
EndpointsHaveNodes ==
  /\ \A c \in absoluteConstraints :
       c.frame \in referenceFrames /\ c.submap \in submapNodes
  /\ \A k \in DOMAIN relativeConstraints :
       {relativeConstraints[k].from, relativeConstraints[k].to}
         \subseteq submapNodes
  /\ \A pair \in registrationConstraints :
       {pair[1], pair[2]} \subseteq submapNodes

(***************************************************************************)
(* Both submaps of every registration constraint, in the collection or in  *)
(* a problem that is being solved, are finished: its cost function reads   *)
(* the registration points of the first and the ESDF of the second, which  *)
(* finishSubmap computes (registration_cost_function.cpp:12-21).           *)
(***************************************************************************)
RegistrationOnlyFinished ==
  \A pair \in registrationConstraints \cup problem.registration :
    {pair[1], pair[2]} \subseteq finished

(***************************************************************************)
(* The keys of the timeline are in the order in which the submaps were     *)
(* created, and no submap is missing from it, in whatever order the        *)
(* callbacks of waiting clouds resume (submap_timeline.cpp:4-9).           *)
(***************************************************************************)
TimelineFollowsCreation ==
  /\ \A id \in SubmapIds : \E s \in DOMAIN timeline : timeline[s] = id
  /\ \A r, s \in DOMAIN timeline : r < s => timeline[r] < timeline[s]

Odometry(id) ==
  {k \in DOMAIN relativeConstraints :
     relativeConstraints[k].type = "odometry" /\ relativeConstraints[k].to = id}

(***************************************************************************)
(* Every odometry constraint goes from a submap to the one created next    *)
(* (voxgraph_mapper.cpp:485-498).                                          *)
(***************************************************************************)
OdometryFromPrevious ==
  \A k \in DOMAIN relativeConstraints :
    relativeConstraints[k].type = "odometry" =>
      relativeConstraints[k].to = relativeConstraints[k].from + 1

(***************************************************************************)
(* Every submap but the first is tied to the submap created just before it *)
(* by one odometry constraint, and no odometry constraint ties anything    *)
(* else: without loop closures the odometry still holds the whole graph    *)
(* together (voxgraph_mapper.cpp:485-498).                                 *)
(***************************************************************************)
OdometryChain ==
  /\ OdometryFromPrevious
  /\ OdometryConstraints =>
       \A id \in SubmapIds \ {0} : \E k \in Odometry(id) : Odometry(id) = {k}

(***************************************************************************)
(* The submap that the timeline gives for the stamp of an integrated cloud *)
(* is the submap that the cloud was integrated into, so a loop closure     *)
(* between two clouds joins the submaps that hold them                     *)
(* (voxgraph_mapper.cpp:278-283).                                          *)
(***************************************************************************)
TimelineLocatesClouds ==
  \A id \in SubmapIds : \A stamp \in poseHistory[id] :
    /\ HasActiveSubmap(timeline, stamp)
    /\ ActiveSubmapByTime(timeline, stamp) = id

(***************************************************************************)
(* While a cloud is integrated into the active submap, no optimisation     *)
(* works on registration constraints of that submap                        *)
(* (voxgraph_mapper.cpp:464-468).                                          *)
(***************************************************************************)
ActiveSubmapNotOptimized ==
  pc = "integrate" =>
    \A th \in Thread : stage[th] \in {"registration", "solve"} =>
      \A pair \in IF stage[th] = "solve" THEN problem.registration
                                         ELSE registrationConstraints :
        ActiveSubmap \notin {pair[1], pair[2]}

(***************************************************************************)
(* The flag is only down when every loop closure has been solved without   *)
(* the registration constraints: "the new loop closures have been taken    *)
(* care off" (pose_graph_interface.cpp:186).                               *)
(***************************************************************************)
LoopClosuresTakenCareOf ==
  ~newLoopClosures /\ pc # "raise_flag" =>
    \A k \in LoopClosures : k <= preoptimized

(***************************************************************************)
(* A loop closure that an optimisation has missed is still flagged when it *)
(* ends, so that the next one begins without the registration constraints, *)
(* whenever during the optimisation the loop closure and its flag have     *)
(* come (pose_graph_interface.cpp:178-187, voxgraph_mapper.cpp:323-327).   *)
(***************************************************************************)
MissedLoopClosuresFlagged ==
  ~Optimizing("async") =>
    \A k \in LoopClosures :
      k <= optimized \/ newLoopClosures \/ pc = "raise_flag"

(***************************************************************************)
(* When no optimisation is running, the submap collection has the poses of *)
(* the last solve (pose_graph_interface.cpp:200-205).                      *)
(***************************************************************************)
PosesOfLastSolve ==
  (\A th \in Thread : ~Optimizing(th)) => submapPoses = solves

-------------------------------------------------------------------------------
(* The optimisation as its users see it *)

ServicePhase ==
  CASE stage["async"] = "idle" -> "idle"
    [] stage["async"] \in {"registration", "solve"} -> "taken"
    [] stage["async"] \in {"copy", "write"} -> "solved"
    [] OTHER -> "started"

Service == INSTANCE OptimizationService WITH
  phase <- ServicePhase,
  constraints <- Len(relativeConstraints),
  odometry <- {k \in DOMAIN relativeConstraints :
                 relativeConstraints[k].type = "odometry"},
  taken <- IF ServicePhase = "taken" THEN problem.relative ELSE 0,
  solved <- optimized,
  version <- solves,
  poses <- submapPoses

(***************************************************************************)
(* Without services the two threads do what OptimizationService promises:  *)
(* submaps and optimisations take turns, an optimisation takes every       *)
(* constraint there is by then, loop closures that arrive meanwhile        *)
(* included, ends, and leaves the poses of its complete solve in the       *)
(* submaps (voxgraph_mapper.cpp:219-238, :511-524).                        *)
(***************************************************************************)
OptimizesAsPromised == Service!FairSpec

(***************************************************************************)
(* Every submap that is created is eventually part of a complete           *)
(* optimisation, unless the process has died.                              *)
(***************************************************************************)
EverySubmapOptimized ==
  \A id \in 1..MaxStamp :
    (Odometry(id) # {}) ~>
      (status # "running" \/ \E k \in Odometry(id) : k <= optimized)
===============================================================================
