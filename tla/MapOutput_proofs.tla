---------------------------- MODULE MapOutput_proofs ---------------------------
(***************************************************************************)
(* Proofs about the outputs composed with the mapper.  Every step of the   *)
(* composition is a step of the mapper or a crash that changes nothing but *)
(* the status, so what the mapper promises alone it still promises here;   *)
(* what is sent out rests on those promises.                               *)
(***************************************************************************)
EXTENDS MapOutput, VoxgraphMapperTimeline_proofs

-------------------------------------------------------------------------------
(* The mapper in the composition *)

\* The mapper's part of a step of the composition.
LEMMA OutputStepIsMapperStep ==
  ASSUME [NextOutput]_allVars
  PROVE  [Next]_vars \/ Crash
<1>1. CASE UNCHANGED allVars
  BY <1>1 DEF allVars
<1>2. CASE status = "running" /\ RosStep
  <2>1. CASE Callback
    BY <1>2, <2>1 DEF Callback, WaitsForOutput, Next, CallbackStep
  <2>2. CASE UpdateOverlappingSubmapList
    BY <1>2, <2>2 DEF UpdateOverlappingSubmapList, Next, CallbackStep
  <2>3. CASE RosOutput
    BY <1>2, <2>3 DEF RosOutput, LaunchMeshThread, PublishSurface,
       PublishProjectedMap, PublishEdges, Next, CallbackStep
  <2>4. QED
    BY <1>2, <2>1, <2>2, <2>3 DEF RosStep
<1>3. ASSUME status = "running", NEW th \in Thread,
             OptimizeAndPublish(th) \/ Output(th)
      PROVE  [Next]_vars
  BY <1>3 DEF OptimizeAndPublish, Output, PublishPoses, ReadFirstPose,
     ReadOtherPoses, SendPoses, DrawPoseGraph, Next
<1>4. CASE MeshThreadEnds \/ MeshRace \/ DrawRace
  BY <1>4 DEF MeshThreadEnds, MeshRace, DrawRace
<1>5. CASE Still
  BY <1>5 DEF Next
<1>6. QED
  BY <1>1, <1>2, <1>3, <1>4, <1>5 DEF NextOutput

\* What the mapper promises without any assumption on the clouds.
MapperInv ==
  /\ TypeInv
  /\ SwitchExclusive
  /\ SubmapsFinished /\ RegistrationOnlyFinished
  /\ NodesAreSubmaps /\ EndpointsHaveNodes

\* What it promises when clouds arrive in order.
OrderInv ==
  TimelineInv /\ PublishesFinished

\* A crash changes nothing but the status.
LEMMA CrashKeepsMapper ==
  ASSUME Crash
  PROVE  /\ MapperInv => MapperInv'
         /\ OrderInv => OrderInv'
         /\ status' = "segfault"
         /\ UNCHANGED <<stage, submapPoses, problem, registrationConstraints,
                        pc, size, finished, poseHistory, timeline, outputVars>>
<1>1. UNCHANGED <<submapNodes, referenceFrames, constraintCollection, problem,
                  solves, interfaceVars, pc, inputVars, collectionVars,
                  outputVars>>
  BY DEF Crash
<1>2. TypeInv => TypeInv'
  <2>1. PoseGraphTypeOK => PoseGraphTypeOK'
    BY <1>1 DEF Crash, PoseGraphTypeOK, constraintCollection
  <2>2. InterfaceTypeOK => InterfaceTypeOK'
    BY <1>1, InterfaceTypeKept
  <2>3. MapperTypeOK => MapperTypeOK'
    BY <1>1 DEF MapperTypeOK, SubmapIds, inputVars, collectionVars
  <2>4. QED
    BY <1>1, <2>1, <2>2, <2>3 DEF TypeInv, TypeOK, CloudUnderWay, inputVars
<1>3. MapperInv => MapperInv'
  BY <1>1, <1>2 DEF MapperInv, SwitchExclusive, Optimizing, SubmapsFinished,
     SubmapIds, ActiveSubmap, RegistrationOnlyFinished, NodesAreSubmaps,
     EndpointsHaveNodes, constraintCollection, interfaceVars, collectionVars
<1>4. OrderInv => OrderInv'
  BY <1>1, OtherStepsKeepOrder
     DEF OrderInv, PublishesFinished, SubmapIds, inputVars, collectionVars
<1>5. QED
  BY <1>1, <1>3, <1>4 DEF Crash, constraintCollection, interfaceVars,
     collectionVars

\* Every step of the composition keeps the mapper's promises.
LEMMA MapperInvKept ==
  ASSUME MapperInv, [NextOutput]_allVars
  PROVE  MapperInv'
<1>1. CASE [Next]_vars
  <2>1. TypeInv' /\ SwitchExclusive'
    BY <1>1, TypeInvKept, SwitchExclusiveKept DEF MapperInv, TypeInv
  <2>2. SubmapsFinished' /\ RegistrationOnlyFinished'
    BY <1>1, FinishedKept DEF MapperInv
  <2>3. NodesAreSubmaps' /\ EndpointsHaveNodes'
    BY <1>1, EndsHaveNodesKept DEF MapperInv
  <2>4. QED
    BY <2>1, <2>2, <2>3 DEF MapperInv
<1>2. QED
  BY <1>1, OutputStepIsMapperStep, CrashKeepsMapper

LEMMA OrderInvKept ==
  ASSUME InOrderClouds, MapperInv, OrderInv, [NextOutput]_allVars
  PROVE  OrderInv'
<1>1. CASE [Next]_vars
  BY <1>1, TimelineKept, PublishesFinishedKept DEF MapperInv, OrderInv
<1>2. QED
  BY <1>1, OutputStepIsMapperStep, CrashKeepsMapper

LEMMA MapperInvariant == SpecOutput => []MapperInv
<1>1. InitOutput => MapperInv
  <2>1. Init => /\ SwitchExclusive
                /\ SubmapsFinished /\ RegistrationOnlyFinished
                /\ NodesAreSubmaps /\ EndpointsHaveNodes
    BY DEF Init, SwitchExclusive, SwitchPc, PoseGraphInit, NoProblem,
       SubmapsFinished, SubmapIds, RegistrationOnlyFinished, NodesAreSubmaps,
       EndpointsHaveNodes
  <2>2. QED
    BY <2>1, TypeInvInit DEF InitOutput, MapperInv
<1>2. MapperInv /\ [NextOutput]_allVars => MapperInv'
  BY MapperInvKept
<1>3. QED
  BY <1>1, <1>2, PTL DEF SpecOutput

LEMMA OrderInvariant == ASSUME InOrderClouds PROVE SpecOutput => []OrderInv
<1>1. InitOutput => OrderInv
  <2>1. Init => TimelineInv
    BY DEF Init, EmptyTimeline, TimelineInv, PendingOrdered, NotAfterLatest,
       HistoryStarts, CloudsNest, CreationDue, TimelineFollowsCreation,
       SubmapIds
  <2>2. QED
    BY <2>1 DEF InitOutput, Init, OrderInv, PublishesFinished
<1>2. MapperInv /\ OrderInv /\ [NextOutput]_allVars => OrderInv'
  BY OrderInvKept
<1>3. QED
  BY <1>1, <1>2, MapperInvariant, PTL DEF SpecOutput

\* The mesh threads, the drawing and the messages under way take nothing from
\* what the mapper promises alone: a switch excludes the optimisation thread,
\* registration constraints join finished submaps, and the ends of all
\* constraints have nodes.
THEOREM OutputKeepsPromises ==
  SpecOutput => [](/\ SwitchExclusive
                   /\ RegistrationOnlyFinished
                   /\ EndpointsHaveNodes)
<1>1. MapperInv => SwitchExclusive /\ RegistrationOnlyFinished /\ EndpointsHaveNodes
  BY DEF MapperInv
<1>2. QED
  BY <1>1, MapperInvariant, PTL

\* Nor do they make a CHECK fail when clouds arrive in order; a process that
\* dies of a race has failed none.
THEOREM OutputFailsNoCheck ==
  ASSUME InOrderClouds PROVE SpecOutput => [](TimelineFollowsCreation /\ NoCheckFailure)
<1>1. InitOutput => NoCheckFailure
  BY DEF InitOutput, Init, PoseGraphInit, NoCheckFailure
<1>2. MapperInv /\ OrderInv /\ NoCheckFailure /\ [NextOutput]_allVars
        => NoCheckFailure'
  <2> SUFFICES ASSUME MapperInv, OrderInv, NoCheckFailure,
                      [NextOutput]_allVars
               PROVE  NoCheckFailure'
    OBVIOUS
  <2>1. CASE [Next]_vars
    BY <2>1, NoCheckFailureKept DEF MapperInv, OrderInv
  <2>2. CASE Crash
    BY <2>2 DEF Crash, NoCheckFailure
  <2>3. QED
    BY <2>1, <2>2, OutputStepIsMapperStep
<1>3. OrderInv => TimelineFollowsCreation
  BY DEF OrderInv, TimelineInv
<1>4. QED
  BY <1>1, <1>2, <1>3, MapperInvariant, OrderInvariant, PTL DEF SpecOutput

-------------------------------------------------------------------------------
(* Types *)

\* The steps of the composition that look for overlaps, publish a surface or
\* leave the lists of the servers alone.
LEMMA OutputLists ==
  ASSUME [NextOutput]_allVars
  PROVE  \/ UpdateOverlappingSubmapList
         \/ PublishSurface("ros") /\ UNCHANGED overlapping
         \/ UNCHANGED <<surfaces, overlapping>>
<1>1. CASE UNCHANGED allVars
  BY <1>1 DEF allVars, outputVars
<1>2. CASE RosStep
  BY <1>2 DEF RosStep, Callback, RosOutput, LaunchMeshThread, PublishSurface,
     PublishProjectedMap, PublishEdges
<1>3. ASSUME NEW th \in Thread, OptimizeAndPublish(th) \/ Output(th)
      PROVE  UNCHANGED <<surfaces, overlapping>>
  BY <1>3 DEF OptimizeAndPublish, Output, PublishPoses, ReadFirstPose,
     ReadOtherPoses, SendPoses, DrawPoseGraph
<1>4. CASE MeshThreadEnds \/ MeshRace \/ DrawRace
  BY <1>4 DEF MeshThreadEnds, MeshRace, DrawRace, Crash, outputVars
<1>5. QED
  BY <1>1, <1>2, <1>3, <1>4 DEF NextOutput, Still, outputVars

\* Submaps are never removed, nor are their poses, and they stay finished.
LEMMA SubmapsOnlyGrow ==
  ASSUME MapperInv, [NextOutput]_allVars
  PROVE  /\ SubmapIds \subseteq SubmapIds'
         /\ finished \subseteq finished'
         /\ \A id \in SubmapIds : poseHistory[id] \subseteq poseHistory'[id]
<1>1. CASE UNCHANGED <<size, finished, poseHistory>>
  BY <1>1 DEF SubmapIds
<1>2. CASE UNCHANGED <<size, poseHistory>> /\ FinishActiveSubmap
  BY <1>2 DEF SubmapIds, FinishActiveSubmap
<1>3. CASE SwitchCreate
  BY <1>3 DEF SwitchCreate, CreateNewSubmap, SubmapIds, MapperInv, TypeInv,
              TypeOK, MapperTypeOK
<1>4. CASE IntegratePointcloud
  BY <1>4 DEF IntegratePointcloud, SubmapIds, MapperInv, TypeInv, TypeOK,
              MapperTypeOK
<1>5. CASE Input
  BY <1>1, <1>2, <1>5 DEF Input, ReceivePointcloud, LoopClosureCallback,
     FinishMapCallback, OptimizeGraphCallback, collectionVars
<1>6. CASE CallbackStep
  BY <1>1, <1>2, <1>3, <1>4, <1>6 DEF CallbackStep, SkipPointcloud,
     UpdateToTime, WaitForOptimization, SwitchFinish, RegistrationDrop,
     RegistrationOverlap, LaunchOptimization, SwitchPublish, FinishMapPublish,
     PublishMaps, LoopClosureFlag, ServiceOptimized, collectionVars
<1>7. CASE (\E th \in Thread : OptimizePoseGraph(th)) \/ UNCHANGED vars
  BY <1>1, <1>7 DEF OptimizePoseGraph, vars, collectionVars
<1>8. CASE Crash
  BY <1>1, <1>8, CrashKeepsMapper
<1>9. QED
  BY <1>5, <1>6, <1>7, <1>8, OutputStepIsMapperStep DEF Next, Still

\* The list of overlapping submaps names submaps that are finished.
LEMMA OverlappingAreFinished ==
  ASSUME MapperInv, [NextOutput]_allVars, UpdateOverlappingSubmapList
  PROVE  /\ overlapping' \subseteq SubmapIds' \X SubmapIds'
         /\ overlapping' \subseteq registrationConstraints'
         /\ \A pair \in overlapping' : {pair[1], pair[2]} \subseteq finished'
<1>1. MapperInv'
  BY MapperInvKept
<1>2. overlapping' \subseteq registrationConstraints'
  BY DEF UpdateOverlappingSubmapList
<1>3. registrationConstraints' \subseteq SubmapID \X SubmapID
  BY <1>1 DEF MapperInv, TypeInv, TypeOK, PoseGraphTypeOK
<1>4. \A pair \in registrationConstraints' :
        /\ {pair[1], pair[2]} \subseteq SubmapIds'
        /\ {pair[1], pair[2]} \subseteq finished'
  BY <1>1 DEF MapperInv, EndpointsHaveNodes, NodesAreSubmaps,
              RegistrationOnlyFinished
<1>5. QED
  BY <1>2, <1>3, <1>4

\* The lists of the servers name submaps.
LEMMA ListsNameSubmaps ==
  ASSUME MapperInv, [NextOutput]_allVars,
         surfaces \subseteq SubmapIds,
         overlapping \subseteq SubmapIds \X SubmapIds
  PROVE  /\ surfaces' \subseteq SubmapIds'
         /\ overlapping' \subseteq SubmapIds' \X SubmapIds'
<1>1. SubmapIds \subseteq SubmapIds'
  BY SubmapsOnlyGrow
<1>2. CASE UpdateOverlappingSubmapList
  BY <1>1, <1>2, OverlappingAreFinished DEF UpdateOverlappingSubmapList
<1>3. CASE PublishSurface("ros") /\ UNCHANGED overlapping
  <2>1. HasPreviousSubmap(timeline) => PreviousSubmapId(timeline) \in SubmapIds
    BY PreviousSubmapInTimeline
       DEF MapperInv, TypeInv, TypeOK, MapperTypeOK
  <2>2. size > 0 => ActiveSubmap \in SubmapIds
    BY DEF MapperInv, TypeInv, TypeOK, MapperTypeOK, ActiveSubmap, SubmapIds
  <2>3. QED
    BY <1>1, <1>3, <2>1, <2>2 DEF PublishSurface
<1>4. CASE UNCHANGED <<surfaces, overlapping>>
  BY <1>1, <1>4
<1>5. QED
  BY <1>2, <1>3, <1>4, OutputLists

Outputs == {"idle", "meshes", "surface", "projected", "first_pose",
            "other_poses", "send", "edges", "draw"}

\* A thread that starts an output works on one.
LEMMA StartOutputType ==
  ASSUME output \in [Thread -> Outputs], NEW th \in Thread,
         NEW what \in Outputs, StartOutput(th, what)
  PROVE  output' \in [Thread -> Outputs]
BY DEF StartOutput

\* The output that each thread works on, and the messages.
LEMMA MessageTypes ==
  ASSUME MapperInv, [NextOutput]_allVars,
         output \in [Thread -> Outputs],
         message \in [Thread -> Nat \X Nat],
         sent \subseteq Nat \X Nat,
         meshThreads \in 0..MaxMeshThreads
  PROVE  /\ output' \in [Thread -> Outputs]
         /\ message' \in [Thread -> Nat \X Nat]
         /\ sent' \subseteq Nat \X Nat
         /\ meshThreads' \in 0..MaxMeshThreads
<1>1. submapPoses \in Nat /\ "ros" \in Thread
  BY DEF MapperInv, TypeInv, TypeOK, InterfaceTypeOK, Thread
<1>2. CASE UNCHANGED allVars \/ MeshRace \/ DrawRace
            \/ UNCHANGED outputVars
  BY <1>2 DEF allVars, MeshRace, DrawRace, Crash, outputVars
<1>3. CASE Callback \/ UpdateOverlappingSubmapList
  BY <1>1, <1>3, StartOutputType
     DEF Callback, UpdateOverlappingSubmapList, Outputs
<1>4. CASE RosOutput
  <2>1. meshThreads' \in 0..MaxMeshThreads
    BY <1>4, OutputAssumption DEF RosOutput, LaunchMeshThread, PublishSurface,
       PublishProjectedMap, PublishEdges
  <2>2. output' \in [Thread -> Outputs]
    BY <1>1, <1>4, StartOutputType DEF RosOutput, LaunchMeshThread,
       PublishSurface, PublishProjectedMap, PublishEdges, Advance, Outputs
  <2>3. QED
    BY <1>4, <2>1, <2>2 DEF RosOutput, LaunchMeshThread, PublishSurface,
       PublishProjectedMap, PublishEdges
<1>5. ASSUME NEW th \in Thread, OptimizeAndPublish(th)
      PROVE  /\ output' \in [Thread -> Outputs]
             /\ UNCHANGED <<message, sent, meshThreads>>
  BY <1>5, StartOutputType DEF OptimizeAndPublish, Outputs
<1>6. ASSUME NEW th \in Thread, Output(th)
      PROVE  /\ output' \in [Thread -> Outputs]
             /\ message' \in [Thread -> Nat \X Nat]
             /\ sent' \subseteq Nat \X Nat
             /\ UNCHANGED meshThreads
  <2>1. output' \in [Thread -> Outputs]
    BY <1>6, StartOutputType DEF Output, PublishPoses, ReadFirstPose,
       ReadOtherPoses, SendPoses, DrawPoseGraph, Advance, Outputs
  <2>2. CASE ReadFirstPose(th)
    BY <1>1, <2>1, <2>2 DEF ReadFirstPose
  <2>3. CASE ReadOtherPoses(th)
    <3>1. message' = [message EXCEPT ![th] = [@ EXCEPT ![2] = submapPoses]]
      BY <2>3 DEF ReadOtherPoses
    <3>2. [message[th] EXCEPT ![2] = submapPoses] \in Nat \X Nat
      BY <1>1
    <3>3. QED
      BY <2>1, <2>3, <3>1, <3>2 DEF ReadOtherPoses
  <2>4. CASE SendPoses(th) \/ DrawPoseGraph(th)
    BY <2>1, <2>4 DEF SendPoses, DrawPoseGraph
  <2>5. QED
    BY <1>6, <2>2, <2>3, <2>4 DEF Output, PublishPoses
<1>7. CASE MeshThreadEnds
  BY <1>7, OutputAssumption DEF MeshThreadEnds
<1>8. QED
  BY <1>2, <1>3, <1>4, <1>5, <1>6, <1>7 DEF NextOutput, RosStep

\* Every variable of the outputs keeps its type: the surfaces and the pairs that
\* are published name submaps of the collection, because the timeline and the
\* constraints do.
THEOREM OutputTypeCorrect == SpecOutput => []OutputTypeOK
<1>1. InitOutput => OutputTypeOK
  BY OutputAssumption DEF InitOutput, OutputTypeOK
<1>2. MapperInv /\ OutputTypeOK /\ [NextOutput]_allVars => OutputTypeOK'
  BY ListsNameSubmaps, MessageTypes DEF OutputTypeOK, Outputs
<1>3. QED
  BY <1>1, <1>2, MapperInvariant, PTL DEF SpecOutput

-------------------------------------------------------------------------------
(* The edges *)

\* The ROS thread is in publishMaps as long as it works on what that publishes.
PublishesInPublishMaps ==
  output["ros"] \in {"meshes", "surface", "edges"} => Publishing

\* The list of pairs is what the registration constraints were made of, but for
\* the moment between their removal and the update of the list.
ListFollowsConstraints ==
  overlapping \subseteq registrationConstraints
    \/ pc \in {"overlap", "map_overlap"}

Unsettled == {"begin", "pre_reset", "pre_constraints", "pre_solve",
              "clear_flag", "reset", "constraints", "registration"}

\* The pairs are in the problem, or the switch or service that made the list has
\* yet to start the optimisation, or some thread has yet to take them.
ListReachesProblem ==
  \/ overlapping \subseteq problem.registration
  \/ pc \in {"drop", "overlap", "create", "launch", "map_drop", "map_overlap"}
  \/ \E th \in Thread : stage[th] \in Unsettled

EdgesInv ==
  PublishesInPublishMaps /\ ListFollowsConstraints /\ ListReachesProblem

\* A step of the optimisation that settles a thread has taken the constraints.
LEMMA OptimizeReachesProblem ==
  ASSUME TypeOK, ListFollowsConstraints, ListReachesProblem,
         NEW th \in Thread, OptimizePoseGraph(th), UNCHANGED overlapping
  PROVE  ListFollowsConstraints' /\ ListReachesProblem'
<1>1. UNCHANGED <<pc, registrationConstraints>>
  BY OptimizeStepRegistration DEF OptimizePoseGraph
<1>2. ListFollowsConstraints'
  BY <1>1 DEF ListFollowsConstraints
<1>3. stage'[th] \in Unsettled => ListReachesProblem'
  BY DEF ListReachesProblem
<1>4. CASE TakeRegistrationConstraints(th, finished)
  <2>1. problem'.registration = registrationConstraints
    BY <1>4 DEF TakeRegistrationConstraints,
       AddRegistrationConstraintsToProblem, TypeOK, PoseGraphTypeOK
  <2>2. QED
    BY <1>1, <2>1 DEF ListFollowsConstraints, ListReachesProblem
<1>5. CASE Solve(th) \/ CopyPoses(th) \/ WritePoses(th)
  <2>1. UNCHANGED problem /\ stage[th] \notin Unsettled
    BY <1>5 DEF Solve, CopyPoses, WritePoses, GoTo, Unsettled, poseGraphVars
  <2>2. \A other \in Thread \ {th} : stage'[other] = stage[other]
    BY OptimizeStepStage
  <2>3. QED
    BY <1>1, <1>2, <2>1, <2>2 DEF ListReachesProblem
<1>6. CASE TestFlag(th) \/ Initialize(th) \/ TakePoseConstraints(th)
             \/ Presolve(th) \/ ClearFlag(th)
  <2>1. \E from, to : to \in Unsettled /\ GoTo(th, from, to)
    BY <1>6 DEF TestFlag, Initialize, TakePoseConstraints, Presolve, ClearFlag,
       Unsettled
  <2>2. stage'[th] \in Unsettled
    BY <2>1 DEF GoTo, TypeOK, InterfaceTypeOK
  <2>3. QED
    BY <1>2, <1>3, <2>2
<1>7. QED
  BY <1>2, <1>4, <1>5, <1>6 DEF OptimizePoseGraph, OptimizeStep

\* A callback that begins an optimisation leaves a thread unsettled.
LEMMA BeginUnsettles ==
  ASSUME TypeOK, NEW th \in Thread, Begin(th)
  PROVE  ListReachesProblem'
<1>1. stage'[th] \in Unsettled
  BY DEF Begin, TypeOK, InterfaceTypeOK, Unsettled
<1>2. QED
  BY <1>1 DEF ListReachesProblem

\* So do the callbacks, which may drop the constraints while the other thread
\* takes them.
LEMMA CallbackReachesProblem ==
  ASSUME TypeOK, ListFollowsConstraints, ListReachesProblem,
         Input \/ CallbackStep, UNCHANGED overlapping \/ RegistrationOverlap,
         RegistrationOverlap => overlapping' \subseteq registrationConstraints'
  PROVE  ListFollowsConstraints' /\ ListReachesProblem'
<1> DEFINE Due == {"drop", "overlap", "create", "launch", "map_drop",
                   "map_overlap"}
<1>1. "ros" \in Thread /\ "async" \in Thread
  BY DEF Thread
<1>2. CASE RegistrationOverlap
  <2>1. ListFollowsConstraints'
    BY <1>2 DEF ListFollowsConstraints
  <2>2. ListReachesProblem'
    BY <1>1, <1>2, BeginUnsettles
       DEF RegistrationOverlap, ListReachesProblem, SwitchOrder
  <2>3. QED
    BY <2>1, <2>2
<1>3. CASE RegistrationDrop
  BY <1>3 DEF RegistrationDrop, SwitchOrder, ListFollowsConstraints,
              ListReachesProblem
<1>4. CASE /\ UNCHANGED <<registrationConstraints, problem, stage, overlapping>>
           /\ pc \notin {"overlap", "map_overlap"}
           /\ pc \in Due => pc' \in Due
  BY <1>4 DEF ListFollowsConstraints, ListReachesProblem
<1>5. ASSUME NEW th \in Thread, Begin(th), ~RegistrationOverlap,
             UNCHANGED registrationConstraints,
             pc \notin {"overlap", "map_overlap"}
      PROVE  ListFollowsConstraints' /\ ListReachesProblem'
  BY <1>5, BeginUnsettles DEF ListFollowsConstraints
<1>6. CASE Input /\ ~RegistrationOverlap
  BY <1>1, <1>4, <1>5, <1>6 DEF Input, ReceivePointcloud, LoopClosureCallback,
     FinishMapCallback, OptimizeGraphCallback, poseGraphVars, interfaceVars,
     constraintCollection
<1>7. CASE CallbackStep /\ ~RegistrationOverlap
  BY <1>1, <1>3, <1>4, <1>5, <1>7 DEF CallbackStep, SkipPointcloud,
     UpdateToTime, WaitForOptimization, SwitchFinish, SwitchCreate,
     LaunchOptimization, SwitchPublish, FinishMapPublish, PublishMaps,
     IntegratePointcloud, LoopClosureFlag, ServiceOptimized, SwitchOrder,
     poseGraphVars, interfaceVars, constraintCollection
<1>8. QED
  BY <1>2, <1>6, <1>7

\* The ROS thread stays in publishMaps until its outputs are out.
LEMMA PublishesInPublishMapsKept ==
  ASSUME OutputTypeOK, PublishesInPublishMaps, [NextOutput]_allVars
  PROVE  PublishesInPublishMaps'
<1>1. /\ "ros" \in Thread
      /\ \A th \in Thread : \A what :
           StartOutput(th, what) =>
             /\ output'[th] = what
             /\ \A other \in Thread \ {th} : output'[other] = output[other]
  BY DEF Thread, StartOutput, OutputTypeOK
<1>2. CASE UNCHANGED <<pc, output>>
  BY <1>2 DEF PublishesInPublishMaps, Publishing
<1>3. CASE Callback
  BY <1>1, <1>3 DEF Callback, PublishMapsBegins, PublishesInPublishMaps,
                    Publishing
<1>4. CASE UpdateOverlappingSubmapList
  BY <1>4 DEF UpdateOverlappingSubmapList, PublishesInPublishMaps
<1>5. CASE RosOutput
  <2>1. CASE LaunchMeshThread
    <3>1. Publishing /\ UNCHANGED pc
      BY <2>1 DEF LaunchMeshThread, vars
    <3>2. QED
      BY <3>1 DEF PublishesInPublishMaps, Publishing
  <2>2. output'["ros"] \in {"projected", "first_pose", "idle"}
          => PublishesInPublishMaps'
    BY DEF PublishesInPublishMaps
  <2>3. QED
    BY <1>1, <1>5, <2>1, <2>2 DEF RosOutput, PublishSurface,
       PublishProjectedMap, PublishEdges, Advance
<1>6. ASSUME NEW th \in Thread, OptimizeAndPublish(th) \/ Output(th)
      PROVE  PublishesInPublishMaps'
  <2>1. UNCHANGED pc
    BY <1>6 DEF OptimizeAndPublish, OptimizePoseGraph, Output, PublishPoses,
       ReadFirstPose, ReadOtherPoses, SendPoses, DrawPoseGraph, vars
  <2>2. CASE UNCHANGED output
    BY <1>2, <2>1, <2>2
  <2>3. PICK what : /\ StartOutput(th, what) \/ UNCHANGED output
                    /\ what = "edges" => th = "ros" /\ Publishing
                    /\ what \notin {"meshes", "surface"}
    BY <1>6 DEF OptimizeAndPublish, Output, PublishPoses, ReadFirstPose,
       ReadOtherPoses, SendPoses, DrawPoseGraph, Advance
  <2>4. CASE th = "ros" /\ StartOutput(th, what)
    BY <1>1, <2>1, <2>3, <2>4 DEF PublishesInPublishMaps, Publishing
  <2>5. CASE th # "ros" /\ StartOutput(th, what)
    BY <1>1, <2>1, <2>5 DEF PublishesInPublishMaps, Publishing
  <2>6. QED
    BY <2>2, <2>3, <2>4, <2>5
<1>7. QED
  BY <1>2, <1>3, <1>4, <1>5, <1>6 DEF NextOutput, RosStep, MeshThreadEnds,
     MeshRace, DrawRace, Crash, Still, outputVars, allVars, vars

\* A step of the mapper with the list of overlapping submaps, which only changes
\* with the constraints.
LEMMA ListStep ==
  ASSUME [NextOutput]_allVars
  PROVE  \/ RegistrationOverlap /\
            overlapping' \subseteq registrationConstraints'
         \/ (Input \/ CallbackStep) /\ ~RegistrationOverlap /\
            UNCHANGED overlapping
         \/ (\E th \in Thread : OptimizePoseGraph(th)) /\ UNCHANGED overlapping
         \/ UNCHANGED <<registrationConstraints, problem, stage, pc,
                        overlapping>>
<1>1. CASE UpdateOverlappingSubmapList
  BY <1>1 DEF UpdateOverlappingSubmapList
<1>2. CASE Callback
  <2>1. pc \notin {"overlap", "map_overlap"}
    BY <1>2 DEF Callback, Input, ReceivePointcloud, LoopClosureCallback,
       FinishMapCallback, OptimizeGraphCallback, SkipPointcloud, UpdateToTime,
       WaitsForOutput, WaitForOptimization, ServiceOptimized, SwitchFinish,
       RegistrationDrop, SwitchCreate, LaunchOptimization, IntegratePointcloud,
       LoopClosureFlag
  <2>2. ~RegistrationOverlap
    BY <2>1 DEF RegistrationOverlap
  <2>3. QED
    BY <1>2, <2>2 DEF Callback, WaitsForOutput, CallbackStep
<1>3. CASE RosOutput
  BY <1>3 DEF RosOutput, LaunchMeshThread, PublishSurface,
     PublishProjectedMap, PublishEdges, CallbackStep, RegistrationOverlap,
     SwitchPublish, FinishMapPublish, vars, poseGraphVars, interfaceVars,
     constraintCollection
<1>4. ASSUME NEW th \in Thread, OptimizeAndPublish(th)
      PROVE  OptimizePoseGraph(th) /\ UNCHANGED overlapping
  BY <1>4 DEF OptimizeAndPublish
<1>5. ASSUME NEW th \in Thread, Output(th)
      PROVE  UNCHANGED <<vars, overlapping>>
  BY <1>5 DEF Output, PublishPoses, ReadFirstPose, ReadOtherPoses, SendPoses,
     DrawPoseGraph
<1>6. CASE UNCHANGED <<vars, overlapping>>
  BY <1>6 DEF vars, poseGraphVars, interfaceVars, constraintCollection
<1>7. CASE Crash
  BY <1>7, CrashKeepsMapper DEF outputVars
<1>8. CASE MeshThreadEnds \/ MeshRace \/ DrawRace \/ UNCHANGED allVars
             \/ (Still /\ UNCHANGED outputVars)
  BY <1>6, <1>7, <1>8 DEF MeshThreadEnds, MeshRace, DrawRace, Still, allVars,
     outputVars
<1>9. QED
  BY <1>1, <1>2, <1>3, <1>4, <1>5, <1>6, <1>8 DEF NextOutput, RosStep

LEMMA EdgesInvariant == SpecOutput => []EdgesInv
<1>1. InitOutput => EdgesInv
  BY DEF InitOutput, EdgesInv, PublishesInPublishMaps, ListFollowsConstraints,
         ListReachesProblem, Thread
<1>2. MapperInv /\ OutputTypeOK /\ EdgesInv /\ [NextOutput]_allVars => EdgesInv'
  <2> SUFFICES ASSUME MapperInv, OutputTypeOK, EdgesInv, [NextOutput]_allVars
               PROVE  ListFollowsConstraints' /\ ListReachesProblem'
    BY PublishesInPublishMapsKept DEF EdgesInv
  <2> USE DEF MapperInv, TypeInv, EdgesInv
  <2>1. CASE UNCHANGED <<registrationConstraints, problem, stage, pc,
                         overlapping>>
    BY <2>1 DEF ListFollowsConstraints, ListReachesProblem
  <2>2. CASE RegistrationOverlap /\
             overlapping' \subseteq registrationConstraints'
    BY <2>2, CallbackReachesProblem DEF CallbackStep
  <2>3. CASE (Input \/ CallbackStep) /\ ~RegistrationOverlap /\
             UNCHANGED overlapping
    BY <2>3, CallbackReachesProblem
  <2>4. CASE (\E th \in Thread : OptimizePoseGraph(th)) /\ UNCHANGED overlapping
    BY <2>4, OptimizeReachesProblem
  <2>5. QED
    BY <2>1, <2>2, <2>3, <2>4, ListStep
<1>3. QED
  BY <1>1, <1>2, MapperInvariant, OutputTypeCorrect, PTL DEF SpecOutput

\* The covariances that the edges are drawn from can be computed whenever no
\* thread works on the problem: each pair in the list is in the problem by then,
\* in whatever order switches, services and the optimisation thread make the one
\* and the other (voxgraph_mapper.cpp:559).
THEOREM EdgesAreCovered == SpecOutput => []EdgesCovered
<1>1. EdgesInv => EdgesCovered
  <2> SUFFICES ASSUME EdgesInv, output["ros"] = "edges",
                      \A th \in Thread : stage[th] \in {"idle", "copy", "write"}
               PROVE  EdgeCovariancesAvailable
    BY DEF EdgesCovered
  <2>1. pc \in {"publish", "map_publish"}
    BY DEF EdgesInv, PublishesInPublishMaps, Publishing
  <2>2. \A th \in Thread : stage[th] \notin Unsettled
    BY DEF Unsettled
  <2>3. overlapping \subseteq problem.registration
    BY <2>1, <2>2 DEF EdgesInv, ListReachesProblem
  <2>4. \A pair \in problem.registration : {pair[1], pair[2]} \subseteq ParameterBlocks
    BY DEF ParameterBlocks
  <2>5. QED
    BY <2>3, <2>4 DEF EdgeCovariancesAvailable
<1>2. QED
  BY <1>1, EdgesInvariant, PTL

-------------------------------------------------------------------------------
(* The surfaces *)

\* All submaps but the last two are published, and the last but one is as soon
\* as publishMaps has run after the switch that made the last one.
SurfacesInv ==
  /\ SubmapIds \ {size - 1, size - 2} \subseteq surfaces
  /\ \/ SubmapIds \ {size - 1} \subseteq surfaces
     \/ pc = "launch"
     \/ pc = "publish" /\ output["ros"] \in {"meshes", "surface"}

\* The submap that publishMaps looks up in the timeline.
LEMMA PreviousIsLastButOne ==
  ASSUME TypeOK, TimelineFollowsCreation, size > 1
  PROVE  HasPreviousSubmap(timeline) /\ PreviousSubmapId(timeline) = size - 2
BY PreviousIsOneLess
   DEF TypeOK, MapperTypeOK, SubmapIds, TimelineFollowsCreation

\* The steps that matter to the surfaces of submaps.
LEMMA SurfaceStep ==
  ASSUME OutputTypeOK, [NextOutput]_allVars
  PROVE  \/ SwitchCreate /\ UNCHANGED surfaces
         \/ /\ LaunchOptimization /\ UNCHANGED <<size, surfaces>>
            /\ output'["ros"] = "meshes"
         \/ LaunchMeshThread /\ output'["ros"] = "surface" /\
            UNCHANGED <<size, pc, surfaces>>
         \/ PublishSurface("ros") /\ UNCHANGED <<size, pc>>
         \/ /\ UNCHANGED <<size, surfaces>>
            /\ UNCHANGED pc \/ pc # "launch"
            /\ \/ output["ros"] \notin {"meshes", "surface"}
               \/ UNCHANGED pc /\ output'["ros"] = output["ros"]
<1>1. /\ "ros" \in Thread
      /\ \A th \in Thread : \A what :
           StartOutput(th, what) =>
             /\ output'[th] = what
             /\ \A other \in Thread \ {th} : output'[other] = output[other]
  BY DEF Thread, StartOutput, OutputTypeOK
<1>2. CASE Callback
  <2>1. CASE LaunchOptimization
    BY <1>1, <1>2, <2>1
       DEF Callback, LaunchOptimization, PublishMapsBegins, collectionVars
  <2>2. CASE SwitchCreate
    BY <1>2, <2>2 DEF Callback
  <2>3. CASE ~LaunchOptimization /\ ~SwitchCreate
    BY <1>2, <2>3 DEF Callback, Input, ReceivePointcloud, LoopClosureCallback,
       FinishMapCallback, OptimizeGraphCallback, SkipPointcloud, UpdateToTime,
       WaitsForOutput, WaitForOptimization, ServiceOptimized, SwitchFinish,
       RegistrationDrop, IntegratePointcloud, LoopClosureFlag, collectionVars
  <2>4. QED
    BY <2>1, <2>2, <2>3
<1>3. CASE UpdateOverlappingSubmapList
  BY <1>3 DEF UpdateOverlappingSubmapList, RegistrationOverlap, collectionVars
<1>4. CASE LaunchMeshThread
  BY <1>1, <1>4 DEF LaunchMeshThread, Advance, vars, collectionVars
<1>5. CASE PublishSurface("ros")
  BY <1>5 DEF PublishSurface, vars, collectionVars
<1>6. CASE PublishProjectedMap("ros")
  BY <1>1, <1>6
     DEF PublishProjectedMap, Advance, Publishing, vars, collectionVars
<1>7. CASE PublishEdges
  BY <1>7 DEF PublishEdges, Advance, SwitchPublish, FinishMapPublish,
     PublishMaps, collectionVars
<1>8. ASSUME NEW th \in Thread, OptimizeAndPublish(th) \/ Output(th)
      PROVE  /\ UNCHANGED <<size, surfaces, pc>>
             /\ \/ output["ros"] \notin {"meshes", "surface"}
                \/ output'["ros"] = output["ros"]
  <2>1. UNCHANGED <<size, surfaces, pc>>
    BY <1>8 DEF OptimizeAndPublish, OptimizePoseGraph, Output, PublishPoses,
       ReadFirstPose, ReadOtherPoses, SendPoses, DrawPoseGraph, vars,
       collectionVars
  <2>2. \/ UNCHANGED output
        \/ /\ output[th] \notin {"meshes", "surface"}
           /\ \E what : StartOutput(th, what)
    BY <1>8 DEF OptimizeAndPublish, Output, PublishPoses, ReadFirstPose,
       ReadOtherPoses, SendPoses, DrawPoseGraph, Advance
  <2>3. QED
    BY <1>1, <2>1, <2>2
<1>9. CASE UNCHANGED <<vars, output, surfaces>> \/ Crash
  BY <1>9, CrashKeepsMapper DEF vars, collectionVars, outputVars
<1>10. QED
  BY <1>2, <1>3, <1>4, <1>5, <1>6, <1>7, <1>8, <1>9 DEF NextOutput, RosStep,
     RosOutput, MeshThreadEnds, MeshRace, DrawRace, Still, outputVars, allVars

LEMMA SurfacesInvariant ==
  ASSUME InOrderClouds PROVE SpecOutput => []SurfacesInv
<1>1. InitOutput => SurfacesInv
  BY DEF InitOutput, Init, SurfacesInv, SubmapIds
<1>2. MapperInv /\ OrderInv /\ OutputTypeOK /\ SurfacesInv /\
      [NextOutput]_allVars
        => SurfacesInv'
  <2> SUFFICES ASSUME MapperInv, OrderInv, OutputTypeOK, SurfacesInv,
                      [NextOutput]_allVars
               PROVE  SurfacesInv'
    OBVIOUS
  <2>0. TypeOK /\ TimelineFollowsCreation /\ size \in Nat
    BY DEF MapperInv, OrderInv, TimelineInv, TypeInv, TypeOK, MapperTypeOK
  <2>1. CASE SwitchCreate /\ UNCHANGED surfaces
    <3>1. /\ pc = "create" /\ pc' = "launch"
          /\ size' = size + 1 /\ SubmapIds' = SubmapIds \cup {size}
      BY <2>0, <2>1
         DEF SwitchCreate, SwitchOrder, CreateNewSubmap, SubmapIds
    <3>2. SubmapIds \ {size - 1} \subseteq surfaces
      BY <3>1 DEF SurfacesInv
    <3>3. size' - 1 = size /\ size' - 2 = size - 1
      BY <2>0, <3>1
    <3>4. QED
      BY <2>1, <3>1, <3>2, <3>3 DEF SurfacesInv
  <2>2. CASE /\ LaunchOptimization /\ UNCHANGED <<size, surfaces>>
             /\ output'["ros"] = "meshes"
    BY <2>2 DEF LaunchOptimization, SurfacesInv, SubmapIds
  <2>3. CASE LaunchMeshThread /\ output'["ros"] = "surface" /\
             UNCHANGED <<size, pc, surfaces>>
    BY <2>3 DEF SurfacesInv, SubmapIds, LaunchMeshThread, Publishing
  <2>4. CASE PublishSurface("ros") /\ UNCHANGED <<size, pc>>
    <3>1. size > 1 => size - 2 \in surfaces'
      BY <2>0, <2>4, PreviousIsLastButOne DEF PublishSurface
    <3>2. surfaces \subseteq surfaces'
      BY <2>4 DEF PublishSurface
    <3>3. SubmapIds \ {size - 1} \subseteq surfaces'
      BY <2>0, <3>1, <3>2 DEF SurfacesInv, SubmapIds
    <3>4. QED
      BY <2>4, <3>2, <3>3 DEF SurfacesInv, SubmapIds
  <2>5. CASE /\ UNCHANGED <<size, surfaces>>
             /\ UNCHANGED pc \/ pc # "launch"
             /\ \/ output["ros"] \notin {"meshes", "surface"}
                \/ UNCHANGED pc /\ output'["ros"] = output["ros"]
    BY <2>5 DEF SurfacesInv, SubmapIds
  <2>6. QED
    BY <2>1, <2>2, <2>3, <2>4, <2>5, SurfaceStep
<1>3. QED
  BY <1>1, <1>2, MapperInvariant, OrderInvariant, OutputTypeCorrect, PTL
     DEF SpecOutput

\* When clouds arrive in order every finished submap has been published by the
\* time the first cloud goes into the next, although the server publishes one
\* submap per switch and asks the timeline which (voxgraph_mapper.cpp:543-549).
THEOREM SurfacesAreComplete ==
  ASSUME InOrderClouds PROVE SpecOutput => []SurfacesComplete
<1>1. SurfacesInv => SurfacesComplete
  BY DEF SurfacesInv, SurfacesComplete, ActiveSubmap
<1>2. QED
  BY <1>1, SurfacesInvariant, PTL

-------------------------------------------------------------------------------
(* The poses that the servers read *)

\* Every submap but the active one has a pose, and so has every submap in the
\* list of pairs, which are finished.
ReadyInv ==
  /\ \A id \in SubmapIds \ {ActiveSubmap} : poseHistory[id] # {}
  /\ \A pair \in overlapping :
       \A id \in {pair[1], pair[2]} : id \in finished /\ poseHistory[id] # {}

\* A submap is only followed by another when it has a pose.
LEMMA EarlierSubmapsHavePoses ==
  ASSUME MapperInv, OrderInv, ReadyInv, [NextOutput]_allVars
  PROVE  \A id \in SubmapIds' \ {ActiveSubmap'} : poseHistory'[id] # {}
<1>1. size \in Nat
  BY DEF MapperInv, TypeInv, TypeOK, MapperTypeOK
<1>2. CASE SwitchCreate
  <2>1. size' = size + 1 /\ pc = "create"
    BY <1>2 DEF SwitchCreate, CreateNewSubmap
  <2>2. size > 0 => poseHistory[ActiveSubmap] # {}
    BY <2>1 DEF OrderInv, TimelineInv, HistoryStarts
  <2>3. ASSUME NEW id \in SubmapIds PROVE poseHistory[id] # {}
    BY <1>1, <2>2 DEF ReadyInv, SubmapIds, ActiveSubmap
  <2>4. SubmapIds' \ {ActiveSubmap'} = SubmapIds
    BY <1>1, <2>1 DEF SubmapIds, ActiveSubmap
  <2>5. QED
    BY <2>3, <2>4, SubmapsOnlyGrow
<1>3. CASE UNCHANGED size
  <2>1. SubmapIds' = SubmapIds /\ ActiveSubmap' = ActiveSubmap
    BY <1>3 DEF SubmapIds, ActiveSubmap
  <2>2. QED
    BY <2>1, SubmapsOnlyGrow DEF ReadyInv
<1>4. [Next]_vars => SwitchCreate \/ UNCHANGED size
  BY DEF Next, Input, ReceivePointcloud, LoopClosureCallback,
     FinishMapCallback, OptimizeGraphCallback, CallbackStep, SkipPointcloud,
     UpdateToTime, WaitForOptimization, SwitchFinish, RegistrationDrop,
     RegistrationOverlap, LaunchOptimization, SwitchPublish, FinishMapPublish,
     PublishMaps, IntegratePointcloud, LoopClosureFlag, ServiceOptimized,
     OptimizePoseGraph, Still, vars, collectionVars
<1>5. QED
  BY <1>2, <1>3, <1>4, OutputStepIsMapperStep, CrashKeepsMapper

LEMMA ReadyInvariant == ASSUME InOrderClouds PROVE SpecOutput => []ReadyInv
<1>1. InitOutput => ReadyInv
  BY DEF InitOutput, Init, ReadyInv, SubmapIds
<1>2. MapperInv /\ OrderInv /\ OutputTypeOK /\ ReadyInv /\
      [NextOutput]_allVars
        => ReadyInv'
  <2> SUFFICES ASSUME MapperInv, OrderInv, OutputTypeOK, ReadyInv,
                      [NextOutput]_allVars
               PROVE  \A pair \in overlapping' : \A id \in {pair[1], pair[2]} :
                        id \in finished' /\ poseHistory'[id] # {}
    BY EarlierSubmapsHavePoses DEF ReadyInv
  <2>1. CASE UpdateOverlappingSubmapList
    <3>1. /\ \A pair \in overlapping' : {pair[1], pair[2]} \subseteq finished'
          /\ overlapping' \subseteq SubmapIds' \X SubmapIds'
      BY <2>1, OverlappingAreFinished
    <3>2. /\ pc \in {"overlap", "map_overlap"}
          /\ UNCHANGED <<size, poseHistory>>
      BY <2>1 DEF UpdateOverlappingSubmapList, RegistrationOverlap,
                  collectionVars
    <3>3. ASSUME NEW id \in SubmapIds PROVE poseHistory[id] # {}
      <4>1. size \in Nat
        BY DEF MapperInv, TypeInv, TypeOK, MapperTypeOK
      <4>2. size > 0 => poseHistory[ActiveSubmap] # {}
        BY <3>2 DEF OrderInv, TimelineInv, HistoryStarts
      <4>3. QED
        BY <4>1, <4>2 DEF ReadyInv, SubmapIds, ActiveSubmap
    <3>4. SubmapIds' = SubmapIds
      BY <3>2 DEF SubmapIds
    <3>5. QED
      BY <3>1, <3>2, <3>3, <3>4
  <2>2. CASE UNCHANGED overlapping
    <3>1. overlapping \subseteq SubmapIds \X SubmapIds
      BY DEF OutputTypeOK
    <3>2. QED
      BY <2>2, <3>1, SubmapsOnlyGrow DEF ReadyInv
  <2>3. QED
    BY <2>1, <2>2, OutputLists
<1>3. QED
  BY <1>1, <1>2, MapperInvariant, OrderInvariant, OutputTypeCorrect, PTL
     DEF SpecOutput

\* When clouds arrive in order the servers only dereference the first pose of
\* submaps that have one, and only read the points of finished ones
\* (submap_server.cpp:134, loop_closure_edge_server.cpp:68-69).
THEOREM PublishedSubmapsAreReady ==
  ASSUME InOrderClouds PROVE SpecOutput => []PublishedSubmapsReady
<1>1. MapperInv /\ OrderInv /\ ReadyInv => PublishedSubmapsReady
  <2> SUFFICES ASSUME MapperInv, OrderInv, ReadyInv, Publishing,
                      NEW id \in SubmapIds,
                      \/ size > 1 /\ id = PreviousSubmapId(timeline)
                      \/ pc = "map_publish" /\ id = ActiveSubmap
                      \/ \E pair \in overlapping : id \in {pair[1], pair[2]}
               PROVE  id \in finished /\ poseHistory[id] # {}
    BY DEF PublishedSubmapsReady
  <2>1. TypeOK /\ TimelineFollowsCreation /\ size \in Nat
    BY DEF MapperInv, OrderInv, TimelineInv, TypeInv, TypeOK, MapperTypeOK
  <2>2. CASE size > 1 /\ id = PreviousSubmapId(timeline)
    <3>1. id = size - 2
      BY <2>1, <2>2, PreviousIsLastButOne
    <3>2. id \in SubmapIds \ {ActiveSubmap}
      BY <2>1, <3>1 DEF ActiveSubmap
    <3>3. QED
      BY <3>2 DEF MapperInv, SubmapsFinished, ReadyInv
  <2>3. CASE pc = "map_publish" /\ id = ActiveSubmap
    <3>1. size > 0
      BY <2>1 DEF SubmapIds
    <3>2. QED
      BY <2>3, <3>1
         DEF OrderInv, PublishesFinished, TimelineInv, HistoryStarts
  <2>4. CASE \E pair \in overlapping : id \in {pair[1], pair[2]}
    BY <2>4 DEF ReadyInv
  <2>5. QED
    BY <2>2, <2>3, <2>4
<1>2. QED
  BY <1>1, MapperInvariant, OrderInvariant, ReadyInvariant, PTL
===============================================================================
