------------------------------ MODULE MapOutput ------------------------------
(***************************************************************************)
(* What the mapper sends out, composed with the mapper itself: the steps   *)
(* of VoxgraphMapper::publishMaps on the ROS thread, the poses that both   *)
(* threads publish at the end of optimizePoseGraph, the drawing of the     *)
(* pose graph, and the detached threads that make meshes                   *)
(* (tools/data_servers/*, tools/visualization/*, threading_helper.h).      *)
(* Everything has a subscriber.                                            *)
(*                                                                         *)
(* A poses message is built submap by submap while the other thread may    *)
(* write new poses.  It is read in two steps here, the poses of the first  *)
(* submap and of the rest, and is the pair of their versions.              *)
(***************************************************************************)
EXTENDS VoxgraphMapper

CONSTANT MaxMeshThreads  \* bound on the mesh threads at a time

ASSUME OutputAssumption == MaxMeshThreads \in Nat

VARIABLES
  output,       \* per thread: the output it is working on
  message,      \* per thread: the poses message it is building
  sent,         \* the poses messages that were sent
  surfaces,     \* submaps whose surface was published
  overlapping,  \* overlapping_submap_list_
  meshThreads   \* detached threads that make meshes

outputVars ==
  <<output, message, sent, surfaces, overlapping, meshThreads>>
allVars == <<vars, outputVars>>

Publishing == pc \in {"publish", "map_publish"}

InitOutput ==
  /\ Init
  /\ output = [th \in Thread |-> "idle"]
  /\ message = [th \in Thread |-> <<0, 0>>]
  /\ sent = {}
  /\ surfaces = {}
  /\ overlapping = {}
  /\ meshThreads = 0

StartOutput(th, what) == output' = [output EXCEPT ![th] = what]

Advance(th, from, to) == output[th] = from /\ StartOutput(th, to)

-------------------------------------------------------------------------------
(* The servers *)

\* Mutant: nothing is published before the third submap.
PublishSurfaceFromThird(th) ==
  /\ Publishing
  /\ Advance(th, "surface", "projected")
  /\ surfaces' =
       surfaces \cup (IF pc = "map_publish" /\ size > 0
                      THEN {ActiveSubmap} ELSE {})
                \cup (IF size > 2 THEN {PreviousSubmapId(timeline)} ELSE {})
  /\ UNCHANGED <<vars, message, sent, overlapping, meshThreads>>

\* Mutant: the id that the next submap gets is taken for the active one's.
PublishSurfaceOfNext(th) ==
  /\ Publishing
  /\ Advance(th, "surface", "projected")
  /\ surfaces' = surfaces \cup {size}
  /\ UNCHANGED <<vars, message, sent, overlapping, meshThreads>>

\* publishSubmap: finish_map publishes the active submap, publishMaps the
\* previous one, which it looks up in the timeline.
PublishSurface(th) ==
  /\ Publishing
  /\ Advance(th, "surface", "projected")
  /\ surfaces' =
       surfaces \cup (IF pc = "map_publish" /\ size > 0
                      THEN {ActiveSubmap} ELSE {})
                \cup (IF HasPreviousSubmap(timeline)
                      THEN {PreviousSubmapId(timeline)} ELSE {})
  /\ UNCHANGED <<vars, message, sent, overlapping, meshThreads>>

\* publishProjectedMap merges the submaps at the poses they have.
PublishProjectedMap(th) ==
  /\ Advance(th, "projected", "first_pose")
  /\ UNCHANGED <<vars, message, sent, surfaces, overlapping, meshThreads>>

\* publishSubmapPoses
ReadFirstPose(th) ==
  /\ Advance(th, "first_pose", "other_poses")
  /\ message' = [message EXCEPT ![th] = <<submapPoses, submapPoses>>]
  /\ UNCHANGED <<vars, sent, surfaces, overlapping, meshThreads>>

ReadOtherPoses(th) ==
  /\ Advance(th, "other_poses", "send")
  /\ message' = [message EXCEPT ![th][2] = submapPoses]
  /\ UNCHANGED <<vars, sent, surfaces, overlapping, meshThreads>>

\* The ROS thread goes on to the edges when it is in publishMaps.
SendPoses(th) ==
  /\ Advance(th, "send",
             IF th = "ros" /\ Publishing THEN "edges" ELSE "idle")
  /\ sent' = sent \cup {message[th]}
  /\ UNCHANGED <<vars, message, surfaces, overlapping, meshThreads>>

PublishPoses(th) == ReadFirstPose(th) \/ ReadOtherPoses(th) \/ SendPoses(th)

\* getVisualizationEdges walks *problem_ptr_ after the solve.
DrawPoseGraph(th) ==
  /\ Advance(th, "draw", "idle")
  /\ UNCHANGED <<vars, message, sent, surfaces, overlapping, meshThreads>>

\* The submaps whose poses are parameter blocks of the problem: adding a
\* constraint to it adds the nodes at its ends.
ParameterBlocks ==
  {c.submap : c \in problem.absolute}
    \cup (UNION {{relativeConstraints[k].from, relativeConstraints[k].to} :
                  k \in 1..problem.relative})
    \cup (UNION {{pair[1], pair[2]} : pair \in problem.registration})

\* ceres computes the covariances of the listed pairs from the blocks of the
\* problem; it cannot be asked about one that is not there.
EdgeCovariancesAvailable ==
  \A pair \in overlapping : {pair[1], pair[2]} \subseteq ParameterBlocks

\* publishLoopClosureEdges, with the mapper's own step.
PublishEdges ==
  /\ SwitchPublish \/ FinishMapPublish
  /\ Advance("ros", "edges", "idle")
  /\ UNCHANGED <<message, sent, surfaces, overlapping, meshThreads>>

\* launchBackgroundThread: a detached thread makes a mesh of all submaps.
LaunchMeshThread ==
  /\ Publishing
  /\ Advance("ros", "meshes", "surface")
  /\ meshThreads' = IF meshThreads < MaxMeshThreads THEN meshThreads + 1
                    ELSE meshThreads
  /\ UNCHANGED <<vars, message, sent, surfaces, overlapping>>

MeshThreadEnds ==
  /\ meshThreads > 0
  /\ meshThreads' = meshThreads - 1
  /\ UNCHANGED <<vars, output, message, sent, surfaces, overlapping>>

Crash == status' = "segfault" /\ UNCHANGED
  <<submapNodes, referenceFrames, constraintCollection, problem, solves,
    interfaceVars, pc, inputVars, collectionVars, outputVars>>

\* The mesh threads share the submaps: integrating a cloud adds blocks to the
\* layer of the active submap while they walk it.
MeshRace == pc = "integrate" /\ meshThreads > 0 /\ Crash

\* One thread frees the problem that the other draws.
DrawRace ==
  \E th \in Thread :
    /\ stage[th] \in {"reset", "pre_reset"}
    /\ \E other \in Thread \ {th} : output[other] = "draw"
    /\ Crash

-------------------------------------------------------------------------------
(* The mapper's steps, where they start an output or wait for one *)

\* Mutant: the poses are not published after an optimisation.
OptimizeQuietly(th) ==
  /\ output[th] = "idle"
  /\ OptimizePoseGraph(th)
  /\ IF stage[th] = "solve" THEN StartOutput(th, "draw") ELSE UNCHANGED output
  /\ UNCHANGED <<message, sent, surfaces, overlapping, meshThreads>>

\* The pose graph is drawn after the last solve, and the poses are published
\* after they are written.
OptimizeAndPublish(th) ==
  /\ output[th] = "idle"
  /\ OptimizePoseGraph(th)
  /\ CASE stage[th] = "solve" -> StartOutput(th, "draw")
       [] stage[th] = "write" -> StartOutput(th, "first_pose")
       [] OTHER -> UNCHANGED output
  /\ UNCHANGED <<message, sent, surfaces, overlapping, meshThreads>>

\* updateOverlappingSubmapList, then the constraints of the pairs.
UpdateOverlappingSubmapList ==
  /\ output["ros"] = "idle"
  /\ RegistrationOverlap
  /\ overlapping' = {pair \in registrationConstraints' : pair[1] < pair[2]}
  /\ UNCHANGED <<output, message, sent, surfaces, meshThreads>>

\* optimization_async_handle_ is ready, and optimizePoseGraph returns, when the
\* poses have been sent.
WaitsForOutput ==
  \/ WaitForOptimization /\ output["async"] = "idle"
  \/ ServiceOptimized /\ output["ros"] = "idle"

\* The steps that end where publishMaps begins.
PublishMapsBegins == pc' \in {"publish", "map_publish"}

Callback ==
  /\ output["ros"] = "idle"
  /\ \/ Input
     \/ SkipPointcloud
     \/ UpdateToTime
     \/ WaitsForOutput
     \/ SwitchFinish
     \/ RegistrationDrop
     \/ SwitchCreate
     \/ LaunchOptimization
     \/ IntegratePointcloud
     \/ LoopClosureFlag
  /\ IF PublishMapsBegins THEN StartOutput("ros", "meshes") ELSE UNCHANGED output
  /\ UNCHANGED <<message, sent, surfaces, overlapping, meshThreads>>

Output(th) ==
  \/ PublishPoses(th)
  \/ DrawPoseGraph(th)

RosOutput ==
  \/ LaunchMeshThread
  \/ PublishSurface("ros")
  \/ PublishProjectedMap("ros")
  \/ PublishEdges

RosStep == Callback \/ UpdateOverlappingSubmapList \/ RosOutput

NextOutput ==
  \/ /\ status = "running"
     /\ \/ RosStep
        \/ \E th \in Thread : OptimizeAndPublish(th) \/ Output(th)
        \/ MeshThreadEnds
        \/ MeshRace
        \/ DrawRace
  \/ Still /\ UNCHANGED outputVars

\* The threads run; messages, and what races break, need not come.
SpecOutput ==
  /\ InitOutput
  /\ [][NextOutput]_allVars
  /\ \A th \in Thread :
       WF_allVars(status = "running" /\ (OptimizeAndPublish(th) \/ Output(th)))
-------------------------------------------------------------------------------
(* Properties *)

\* Every variable has its type.
OutputTypeOK ==
  /\ output \in [Thread -> {"idle", "meshes", "surface", "projected",
                            "first_pose", "other_poses", "send", "edges", "draw"}]
  /\ message \in [Thread -> Nat \X Nat]
  /\ sent \subseteq Nat \X Nat
  /\ surfaces \subseteq SubmapIds
  /\ overlapping \subseteq SubmapIds \X SubmapIds
  /\ meshThreads \in 0..MaxMeshThreads

\* Every submap is published once it is finished: when the first cloud goes into
\* a new submap, the surfaces of all those before it are out, although the server
\* is told only of the submap that the timeline has before the last one
\* (voxgraph_mapper.cpp:543-549).
SurfacesComplete ==
  pc = "integrate" => SubmapIds \ {ActiveSubmap} \subseteq surfaces

(***************************************************************************)
(* A submap whose surface or edges are published is finished and has a     *)
(* first pose: the servers dereference the begin() of its pose history     *)
(* (submap_server.cpp:134, loop_closure_edge_server.cpp:68-69).            *)
(***************************************************************************)
PublishedSubmapsReady ==
  Publishing =>
    \A id \in SubmapIds :
      \/ size > 1 /\ id = PreviousSubmapId(timeline)
      \/ pc = "map_publish" /\ id = ActiveSubmap
      \/ \E pair \in overlapping : id \in {pair[1], pair[2]}
      => id \in finished /\ poseHistory[id] # {}

(***************************************************************************)
(* When the edges are published and no thread works on the problem, both   *)
(* submaps of every pair in the list are in it, although the list is       *)
(* rewritten by each switch and the problem by another thread              *)
(* (pose_graph.cpp:126-142, voxgraph_mapper.cpp:559).                      *)
(***************************************************************************)
EdgesCovered ==
  /\ output["ros"] = "edges"
  /\ problem.exists
  /\ \A th \in Thread : stage[th] \in {"idle", "copy", "write"}
  => EdgeCovariancesAvailable

(***************************************************************************)
(* Poses that are written to the submaps reach the subscribers, in a       *)
(* message whose parts are both at least as new, unless the process dies   *)
(* or the other thread writes older ones over them                         *)
(* (voxgraph_mapper.cpp:516-520).                                          *)
(***************************************************************************)
PosesReachSubscribers ==
  \A version \in 1..(2 * MaxStamp) :
    (submapPoses = version) ~>
      \/ status # "running"
      \/ submapPoses < version
      \/ \E poses \in sent : poses[1] >= version /\ poses[2] >= version
===============================================================================
