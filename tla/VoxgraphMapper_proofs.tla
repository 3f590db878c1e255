------------------------- MODULE VoxgraphMapper_proofs -------------------------
(***************************************************************************)
(* Proofs about VoxgraphMapper for every value of its constants: the types *)
(* of its steps and of those of optimizePoseGraph, exclusive access in     *)
(* switchToNewSubmap, and which submaps the constraints join.              *)
(***************************************************************************)
EXTENDS VoxgraphMapper, WellFoundedInduction, TLAPS

-------------------------------------------------------------------------------
(* The types of optimizePoseGraph *)

\* What a step leaves alone keeps its type.
LEMMA PoseGraphTypeKept ==
  ASSUME PoseGraphTypeOK, UNCHANGED poseGraphVars
  PROVE  PoseGraphTypeOK'
BY DEF PoseGraphTypeOK, poseGraphVars

LEMMA InterfaceTypeKept ==
  ASSUME InterfaceTypeOK, UNCHANGED interfaceVars
  PROVE  InterfaceTypeOK'
BY DEF InterfaceTypeOK, interfaceVars

\* Moving a thread on keeps the type of stage.
LEMMA GoToType ==
  ASSUME stage \in [Thread -> Stage], NEW th, NEW from, NEW to \in Stage,
         GoTo(th, from, to)
  PROVE  stage' \in [Thread -> Stage]
BY DEF GoTo

\* The problem keeps its type when its fields are replaced.
LEMMA ProblemTypes ==
  ASSUME PoseGraphTypeOK
  PROVE  /\ EmptyProblem \in [exists : BOOLEAN,
              absolute : SUBSET [frame : FrameId, submap : SubmapID],
              relative : Nat, registration : SUBSET (SubmapID \X SubmapID)]
         /\ [problem EXCEPT !.absolute = absoluteConstraints,
                            !.relative = Len(relativeConstraints)]
              \in [exists : BOOLEAN,
              absolute : SUBSET [frame : FrameId, submap : SubmapID],
              relative : Nat, registration : SUBSET (SubmapID \X SubmapID)]
         /\ [problem EXCEPT !.registration = registrationConstraints]
              \in [exists : BOOLEAN,
              absolute : SUBSET [frame : FrameId, submap : SubmapID],
              relative : Nat, registration : SUBSET (SubmapID \X SubmapID)]
         /\ problem.relative \in Nat
<1>1. Len(relativeConstraints) \in Nat
  BY DEF PoseGraphTypeOK
<1>2. QED
  BY <1>1 DEF PoseGraphTypeOK, EmptyProblem, NoProblem

\* Every step of optimizePoseGraph preserves the types.
LEMMA OptimizeStepTypes ==
  ASSUME PoseGraphTypeOK, InterfaceTypeOK,
         NEW th \in Thread, OptimizeStep(th, finished)
  PROVE  PoseGraphTypeOK' /\ InterfaceTypeOK'
<1>1. CASE TestFlag(th)
  <2>1. stage' \in [Thread -> Stage]
    BY <1>1, GoToType DEF TestFlag, InterfaceTypeOK, Stage
  <2>2. QED
    BY <1>1, <2>1, PoseGraphTypeKept DEF TestFlag, InterfaceTypeOK
<1>2. CASE Initialize(th)
  <2>1. stage' \in [Thread -> Stage]
    BY <1>2, GoToType DEF Initialize, InterfaceTypeOK, Stage
  <2>2. PoseGraphTypeOK'
    BY <1>2, ProblemTypes
       DEF Initialize, ResetProblem, PoseGraphTypeOK, constraintCollection
  <2>3. QED
    BY <1>2, <2>1, <2>2 DEF Initialize, InterfaceTypeOK
<1>3. CASE TakePoseConstraints(th)
  <2>1. stage' \in [Thread -> Stage]
    BY <1>3, GoToType DEF TakePoseConstraints, InterfaceTypeOK, Stage
  <2>2. status' \in {status, "check_failed"}
    BY <1>3 DEF TakePoseConstraints, AddPoseConstraintsToProblem, Check
  <2>3. PoseGraphTypeOK'
    BY <1>3, <2>2, ProblemTypes
       DEF TakePoseConstraints, AddPoseConstraintsToProblem,
           PoseGraphTypeOK, constraintCollection
  <2>4. QED
    BY <1>3, <2>1, <2>3 DEF TakePoseConstraints, InterfaceTypeOK
<1>4. CASE TakeRegistrationConstraints(th, finished)
  <2>1. stage' \in [Thread -> Stage]
    BY <1>4, GoToType DEF TakeRegistrationConstraints, InterfaceTypeOK, Stage
  <2>2. status' \in {status, "check_failed"}
    BY <1>4 DEF TakeRegistrationConstraints,
                AddRegistrationConstraintsToProblem, Check
  <2>3. PoseGraphTypeOK'
    BY <1>4, <2>2, ProblemTypes
       DEF TakeRegistrationConstraints, AddRegistrationConstraintsToProblem,
           PoseGraphTypeOK, constraintCollection
  <2>4. QED
    BY <1>4, <2>1, <2>3 DEF TakeRegistrationConstraints, InterfaceTypeOK
<1>5. CASE Presolve(th)
  <2>1. stage' \in [Thread -> Stage]
    BY <1>5, GoToType DEF Presolve, InterfaceTypeOK, Stage
  <2>2. PoseGraphTypeOK'
    BY <1>5 DEF Presolve, SolveProblem, PoseGraphTypeOK, constraintCollection
  <2>3. preoptimized' \in Nat
    BY <1>5, ProblemTypes DEF Presolve, Larger, InterfaceTypeOK
  <2>4. QED
    BY <1>5, <2>1, <2>2, <2>3 DEF Presolve, InterfaceTypeOK
<1>6. CASE ClearFlag(th)
  <2>1. stage' \in [Thread -> Stage]
    BY <1>6, GoToType DEF ClearFlag, InterfaceTypeOK, Stage
  <2>2. QED
    BY <1>6, <2>1, PoseGraphTypeKept DEF ClearFlag, InterfaceTypeOK
<1>7. CASE Solve(th)
  <2>1. stage' \in [Thread -> Stage]
    BY <1>7, GoToType DEF Solve, InterfaceTypeOK, Stage
  <2>2. PoseGraphTypeOK'
    BY <1>7 DEF Solve, SolveProblem, PoseGraphTypeOK, constraintCollection
  <2>3. optimized' \in Nat
    BY <1>7, ProblemTypes DEF Solve, Larger, InterfaceTypeOK
  <2>4. QED
    BY <1>7, <2>1, <2>2, <2>3 DEF Solve, InterfaceTypeOK
<1>8. CASE CopyPoses(th)
  <2>1. stage' \in [Thread -> Stage]
    BY <1>8, GoToType DEF CopyPoses, InterfaceTypeOK, Stage
  <2>2. solves \in Nat
    BY DEF PoseGraphTypeOK
  <2>3. copiedPoses' \in [Thread -> Nat]
    BY <1>8, <2>2 DEF CopyPoses, InterfaceTypeOK
  <2>4. QED
    BY <1>8, <2>1, <2>3, PoseGraphTypeKept DEF CopyPoses, InterfaceTypeOK
<1>9. CASE WritePoses(th)
  <2>1. stage' \in [Thread -> Stage]
    BY <1>9, GoToType DEF WritePoses, InterfaceTypeOK, Stage
  <2>2. QED
    BY <1>9, <2>1, PoseGraphTypeKept DEF WritePoses, InterfaceTypeOK
<1>10. QED
  BY <1>1, <1>2, <1>3, <1>4, <1>5, <1>6, <1>7, <1>8, <1>9 DEF OptimizeStep

-------------------------------------------------------------------------------
(* Sets of stamps have a first and a last element. *)

\* A non-empty set of natural numbers has a least element.
LEMMA LeastElement ==
  ASSUME NEW S \in SUBSET Nat, S # {}
  PROVE  \E m \in S : \A n \in S : m <= n
<1> DEFINE R == {pair \in Nat \X Nat : pair[1] < pair[2]}
<1>1. IsWellFoundedOn(R, Nat)
  BY NatLessThanWellFounded DEF OpToRel
<1> HIDE DEF R
<1>2. PICK m \in S : \A n \in S : <<n, m>> \notin R
  BY <1>1, WFMin
<1>3. \A n \in S : ~(n < m)
  BY <1>2 DEF R
<1>4. QED
  BY <1>3

\* FirstOf and LastOf return an element of a non-empty set of stamps, and the
\* least and the greatest one: the CHOOSE in them is never empty-handed.
LEMMA FirstOfIsFirst ==
  ASSUME NEW S \in SUBSET Stamp, S # {}
  PROVE  FirstOf(S) \in S /\ \A s \in S : FirstOf(S) <= s
<1>1. S \in SUBSET Nat
  BY MapperAssumption DEF Stamp
<1>2. \E m \in S : \A n \in S : m <= n
  BY <1>1, LeastElement
<1>3. QED
  BY <1>2 DEF FirstOf

LEMMA LastOfIsLast ==
  ASSUME NEW S \in SUBSET Stamp, S # {}
  PROVE  LastOf(S) \in S /\ \A s \in S : s <= LastOf(S)
<1>1. MaxStamp \in Nat
  BY MapperAssumption
<1>2. \A s \in S : s \in Nat /\ MaxStamp - s \in Nat /\ s = MaxStamp - (MaxStamp - s)
  BY <1>1 DEF Stamp
<1> DEFINE T == {MaxStamp - s : s \in S}
<1>3. T \in SUBSET Nat /\ T # {}
  BY <1>2
<1>4. PICK m \in T : \A n \in T : m <= n
  BY <1>3, LeastElement
<1>5. PICK s \in S : m = MaxStamp - s
  BY <1>4
<1>6. \A r \in S : r <= s
  <2>1. SUFFICES ASSUME NEW r \in S PROVE r <= s
    OBVIOUS
  <2>2. m <= MaxStamp - r
    BY <1>4
  <2>3. QED
    BY <1>1, <1>2, <1>5, <2>2
<1>7. QED
  BY <1>6 DEF LastOf
-------------------------------------------------------------------------------
(* Type correctness *)

\* What a step leaves alone keeps its type.
LEMMA MapperTypeKept ==
  ASSUME MapperTypeOK, pc' \in Pc, UNCHANGED <<inputVars, collectionVars>>
  PROVE  MapperTypeOK'
BY DEF MapperTypeOK, inputVars, collectionVars, SubmapIds

\* The stage of a thread that begins an optimisation.
LEMMA BeginType ==
  ASSUME InterfaceTypeOK, NEW th \in Thread, Begin(th)
  PROVE  stage' \in [Thread -> Stage]
BY DEF InterfaceTypeOK, Begin, Stage

\* A timeline with two keys has a previous submap, and it is one of its values.
LEMMA PreviousSubmapInTimeline ==
  ASSUME NEW tl, DOMAIN tl \subseteq Stamp, HasPreviousSubmap(tl)
  PROVE  \E s \in DOMAIN tl : PreviousSubmapId(tl) = tl[s]
<1> DEFINE last == LastOf(DOMAIN tl)
           S == DOMAIN tl \ {last}
<1>1. S # {} /\ S \in SUBSET Stamp
  BY DEF HasPreviousSubmap
<1>2. LastOf(S) \in S
  BY <1>1, LastOfIsLast
<1>3. QED
  BY <1>2 DEF PreviousSubmapId

\* So is the submap that the timeline gives for a stamp.
LEMMA ActiveSubmapInTimeline ==
  ASSUME NEW tl, DOMAIN tl \subseteq Stamp, NEW stamp, HasActiveSubmap(tl, stamp)
  PROVE  \E s \in DOMAIN tl : ActiveSubmapByTime(tl, stamp) = tl[s]
<1>1. /\ NotAfter(DOMAIN tl, stamp) \subseteq DOMAIN tl
      /\ NotAfter(DOMAIN tl, stamp) # {}
  BY DEF NotAfter, HasActiveSubmap
<1>2. LastOf(NotAfter(DOMAIN tl, stamp)) \in DOMAIN tl
  BY <1>1, LastOfIsLast
<1>3. QED
  BY <1>2 DEF ActiveSubmapByTime

\* Appending a constraint to the list.
LEMMA AppendedConstraint ==
  ASSUME PoseGraphTypeOK, NEW type, NEW from, NEW to,
         AddRelativePoseConstraint(type, from, to)
  PROVE  \E n \in Nat :
           /\ DOMAIN relativeConstraints = 1..n
           /\ DOMAIN relativeConstraints' = 1..(n + 1)
           /\ \A k \in 1..n : relativeConstraints'[k] = relativeConstraints[k]
           /\ relativeConstraints'[n + 1] = [type |-> type, from |-> from, to |-> to]
BY DEF PoseGraphTypeOK, AddRelativePoseConstraint

\* Appending a constraint between submaps keeps the type of the list.
LEMMA AddRelativeType ==
  ASSUME PoseGraphTypeOK, NEW type \in {"odometry", "loop_closure"},
         NEW from \in SubmapID, NEW to \in SubmapID,
         AddRelativePoseConstraint(type, from, to)
  PROVE  relativeConstraints' \in
           Seq([type : {"odometry", "loop_closure"},
                from : SubmapID, to : SubmapID])
BY DEF PoseGraphTypeOK, AddRelativePoseConstraint

\* createNewSubmap keeps the types of the collection.
LEMMA CreateNewSubmapTypes ==
  ASSUME MapperTypeOK, CreateNewSubmap(size, CurrentStamp), pending # <<>>,
         UNCHANGED <<inputVars, finished>>, pc' \in Pc
  PROVE  /\ MapperTypeOK'
         /\ SubmapIds' = SubmapIds \cup {size}
         /\ DOMAIN timeline' = DOMAIN timeline \cup {CurrentStamp}
         /\ \A s \in DOMAIN timeline' :
              timeline'[s] = IF s \in DOMAIN timeline THEN timeline[s] ELSE size
<1>1. CurrentStamp \in Stamp
  BY DEF CurrentStamp, MapperTypeOK
<1>2. SubmapIds' = SubmapIds \cup {size} /\ size' \in Nat
  BY DEF CreateNewSubmap, SubmapIds, MapperTypeOK
<1>3. poseHistory' \in [SubmapIds' -> SUBSET Stamp]
  BY <1>2 DEF CreateNewSubmap, MapperTypeOK
<1>4. /\ DOMAIN timeline' = DOMAIN timeline \cup {CurrentStamp}
      /\ \A s \in DOMAIN timeline' :
           timeline'[s] = IF s \in DOMAIN timeline THEN timeline[s] ELSE size
  BY DEF CreateNewSubmap, AddNextSubmap
<1>5. /\ DOMAIN timeline' \subseteq Stamp
      /\ timeline' \in [DOMAIN timeline' -> SubmapIds']
  <2>1. timeline' = [s \in DOMAIN timeline' |-> timeline'[s]]
    BY <1>4 DEF CreateNewSubmap, AddNextSubmap
  <2>2. \A s \in DOMAIN timeline' : timeline'[s] \in SubmapIds'
    BY <1>2, <1>4 DEF MapperTypeOK
  <2>3. QED
    BY <1>1, <1>4, <2>1, <2>2 DEF MapperTypeOK
<1>6. QED
  BY <1>2, <1>3, <1>4, <1>5 DEF MapperTypeOK, inputVars

\* Inputs preserve the types.
LEMMA InputTypes ==
  ASSUME TypeOK, Input
  PROVE  TypeOK'
<1> USE DEF TypeOK
<1>1. CASE \E stamp \in Stamp : ReceivePointcloud(stamp)
  <2>1. PICK stamp \in Stamp : ReceivePointcloud(stamp)
    BY <1>1
  <2>2. pending' \in Seq(Stamp)
    BY <2>1 DEF ReceivePointcloud, MapperTypeOK
  <2>3. latestCloud' \in 0..MaxStamp
    BY <2>1, MapperAssumption DEF ReceivePointcloud, MapperTypeOK, Larger, Stamp
  <2>4. MapperTypeOK'
    BY <2>1, <2>2, <2>3
       DEF ReceivePointcloud, MapperTypeOK, collectionVars, SubmapIds
  <2>5. QED
    BY <2>1, <2>4, PoseGraphTypeKept, InterfaceTypeKept DEF ReceivePointcloud
<1>2. CASE \E from, to \in Stamp : LoopClosureCallback(from, to)
  <2>1. PICK from \in Stamp, to \in Stamp : LoopClosureCallback(from, to)
    BY <1>2
  <2> DEFINE A == ActiveSubmapByTime(timeline, from)
             B == ActiveSubmapByTime(timeline, to)
  <2>2. A \in SubmapID /\ B \in SubmapID
    BY <2>1, ActiveSubmapInTimeline
       DEF LoopClosureCallback, MapperTypeOK, SubmapIds, SubmapID
  <2>3. relativeConstraints' \in
          Seq([type : {"odometry", "loop_closure"},
               from : SubmapID, to : SubmapID])
    BY <2>1, <2>2, AddRelativeType
       DEF LoopClosureCallback, AddLoopClosureConstraint
  <2>4. PoseGraphTypeOK'
    BY <2>1, <2>3 DEF LoopClosureCallback, PoseGraphTypeOK
  <2>5. QED
    BY <2>1, <2>4, InterfaceTypeKept, MapperTypeKept
       DEF LoopClosureCallback, Pc
<1>3. CASE FinishMapCallback
  <2>1. stage' \in [Thread -> Stage]
    BY <1>3, BeginType DEF FinishMapCallback, InterfaceTypeOK, Thread
  <2>2. InterfaceTypeOK'
    BY <1>3, <2>1 DEF FinishMapCallback, InterfaceTypeOK
  <2>3. finished' \subseteq SubmapIds
    BY <1>3 DEF FinishMapCallback, FinishActiveSubmap, MapperTypeOK, SubmapIds,
                ActiveSubmap
  <2>4. MapperTypeOK'
    BY <1>3, <2>3 DEF FinishMapCallback, MapperTypeOK, SubmapIds, Pc
  <2>5. QED
    BY <1>3, <2>2, <2>4, PoseGraphTypeKept DEF FinishMapCallback
<1>4. CASE OptimizeGraphCallback
  <2>1. stage' \in [Thread -> Stage]
    BY <1>4, BeginType DEF OptimizeGraphCallback, Thread
  <2>2. InterfaceTypeOK'
    BY <1>4, <2>1 DEF OptimizeGraphCallback, InterfaceTypeOK
  <2>3. MapperTypeOK'
    BY <1>4 DEF OptimizeGraphCallback, MapperTypeOK, SubmapIds, Pc,
                collectionVars
  <2>4. QED
    BY <1>4, <2>2, <2>3, PoseGraphTypeKept DEF OptimizeGraphCallback
<1>5. QED
  BY <1>1, <1>2, <1>3, <1>4 DEF Input

\* Looking for overlapping pairs among the submaps keeps the types.
LEMMA OverlapTypes ==
  ASSUME TypeOK, AddOverlappingPairs(SubmapIds)
  PROVE  /\ registrationConstraints' \subseteq SubmapID \X SubmapID
         /\ status' \in {"running", "check_failed", "segfault"}
<1>1. PICK overlapping \in OverlappingSubmapLists(SubmapIds) :
             AddRegistrationConstraints(overlapping)
  BY DEF AddOverlappingPairs
<1>2. overlapping \subseteq SubmapID \X SubmapID
  BY DEF OverlappingSubmapLists, SubmapIds, SubmapID, TypeOK, MapperTypeOK
<1>3. Mirrored(overlapping) \subseteq SubmapID \X SubmapID
  BY <1>2 DEF Mirrored
<1>4. QED
  BY <1>1, <1>3 DEF AddRegistrationConstraints, Check, TypeOK, PoseGraphTypeOK

\* The steps of the callbacks preserve the types.
LEMMA CallbackTypes ==
  ASSUME TypeOK, CloudUnderWay, CallbackStep
  PROVE  TypeOK'
<1> USE DEF TypeOK
<1>1. CASE SkipPointcloud
  <2>1. pending' \in Seq(Stamp)
    BY <1>1 DEF SkipPointcloud, MapperTypeOK
  <2>2. MapperTypeOK'
    BY <1>1, <2>1 DEF SkipPointcloud, MapperTypeOK, collectionVars, SubmapIds
  <2>3. QED
    BY <1>1, <2>2, PoseGraphTypeKept, InterfaceTypeKept DEF SkipPointcloud
<1>2. CASE UpdateToTime \/ WaitForOptimization
  BY <1>2, PoseGraphTypeKept, InterfaceTypeKept, MapperTypeKept
     DEF UpdateToTime, WaitForOptimization, Pc, SwitchPc
<1>3. CASE SwitchFinish
  <2>1. finished' \subseteq SubmapIds
    BY <1>3 DEF SwitchFinish, FinishActiveSubmap, MapperTypeOK, SubmapIds,
                ActiveSubmap
  <2>2. MapperTypeOK'
    BY <1>3, <2>1 DEF SwitchFinish, SwitchOrder, MapperTypeOK, SubmapIds,
                      Pc, SwitchPc, inputVars
  <2>3. QED
    BY <1>3, <2>2, PoseGraphTypeKept, InterfaceTypeKept DEF SwitchFinish
<1>4. CASE RegistrationDrop
  <2>1. pc' \in Pc
    BY <1>4 DEF RegistrationDrop, SwitchOrder, Pc, SwitchPc
  <2>2. PoseGraphTypeOK'
    BY <1>4 DEF RegistrationDrop, DropRegistrationConstraints,
                ResetRegistrationConstraints, PoseGraphTypeOK
  <2>3. QED
    BY <1>4, <2>1, <2>2, InterfaceTypeKept, MapperTypeKept
       DEF RegistrationDrop
<1>5. CASE RegistrationOverlap
  <2>1. pc' \in Pc
    BY <1>5 DEF RegistrationOverlap, SwitchOrder, Pc, SwitchPc
  <2>2. stage' \in [Thread -> Stage]
    BY <1>5, BeginType DEF RegistrationOverlap, InterfaceTypeOK, Thread
  <2>3. InterfaceTypeOK'
    BY <1>5, <2>2 DEF RegistrationOverlap, InterfaceTypeOK
  <2>4. PoseGraphTypeOK'
    BY <1>5, OverlapTypes DEF RegistrationOverlap, PoseGraphTypeOK
  <2>5. QED
    BY <1>5, <2>1, <2>3, <2>4, MapperTypeKept DEF RegistrationOverlap
<1>6. CASE SwitchCreate
  <2>1. pending # <<>>
    BY <1>6 DEF SwitchCreate, CloudUnderWay, SwitchPc
  <2>2. MapperTypeOK'
    BY <1>6, <2>1, CreateNewSubmapTypes
       DEF SwitchCreate, SwitchOrder, Pc, SwitchPc
  <2>3. status' \in {"running", "check_failed", "segfault"}
    BY <1>6 DEF SwitchCreate, Check, PoseGraphTypeOK
  <2>4. size \in SubmapID
    BY DEF MapperTypeOK, SubmapID
  <2>5. relativeConstraints' \in
          Seq([type : {"odometry", "loop_closure"},
               from : SubmapID, to : SubmapID])
    <3>1. CASE relativeConstraints' = relativeConstraints
      BY <3>1 DEF PoseGraphTypeOK
    <3>2. CASE /\ HasPreviousSubmap(timeline')
               /\ AddOdometryMeasurement(PreviousSubmapId(timeline'), size)
      <4>1. PreviousSubmapId(timeline') \in SubmapID
        BY <2>2, <3>2, PreviousSubmapInTimeline
           DEF MapperTypeOK, SubmapIds, SubmapID
      <4>2. QED
        BY <2>4, <3>2, <4>1, AddRelativeType DEF AddOdometryMeasurement
    <3>3. QED
      BY <1>6, <3>1, <3>2 DEF SwitchCreate
  <2>6. /\ referenceFrames' \subseteq FrameId
        /\ absoluteConstraints' \subseteq [frame : FrameId, submap : SubmapID]
    <3>1. CASE UNCHANGED <<referenceFrames, absoluteConstraints>>
      BY <3>1 DEF PoseGraphTypeOK
    <3>2. CASE AddHeightMeasurement(size)
      <4>1. [frame |-> "mission", submap |-> size]
              \in [frame : FrameId, submap : SubmapID]
        BY <2>4 DEF FrameId
      <4>2. QED
        BY <3>2, <4>1 DEF AddHeightMeasurement, AddReferenceFrameNode,
           AddAbsolutePoseConstraint, FrameId, PoseGraphTypeOK
    <3>3. QED
      BY <1>6, <3>1, <3>2 DEF SwitchCreate
  <2>7. submapNodes' \subseteq SubmapID
    BY <1>6, <2>4 DEF SwitchCreate, AddSubmap, AddSubmapNode, PoseGraphTypeOK
  <2>8. PoseGraphTypeOK'
    BY <1>6, <2>3, <2>5, <2>6, <2>7 DEF SwitchCreate, PoseGraphTypeOK
  <2>9. QED
    BY <1>6, <2>2, <2>8, InterfaceTypeKept DEF SwitchCreate
<1>7. CASE LaunchOptimization
  <2>1. stage' \in [Thread -> Stage]
    BY <1>7, BeginType DEF LaunchOptimization, Thread
  <2>2. InterfaceTypeOK'
    BY <1>7, <2>1 DEF LaunchOptimization, InterfaceTypeOK
  <2>3. QED
    BY <1>7, <2>2, PoseGraphTypeKept, MapperTypeKept DEF LaunchOptimization, Pc
<1>8. CASE SwitchPublish \/ FinishMapPublish
  <2>1. pc' \in Pc /\ \E others : PublishMaps(others)
    BY <1>8 DEF SwitchPublish, FinishMapPublish, Pc
  <2>2. PoseGraphTypeOK'
    BY <2>1 DEF PublishMaps, Check, PoseGraphTypeOK, constraintCollection
  <2>3. QED
    BY <2>1, <2>2, InterfaceTypeKept, MapperTypeKept DEF PublishMaps
<1>9. CASE IntegratePointcloud
  <2>1. pending # <<>>
    BY <1>9 DEF IntegratePointcloud, CloudUnderWay
  <2>2. CurrentStamp \in Stamp /\ pending' \in Seq(Stamp)
    BY <1>9, <2>1 DEF IntegratePointcloud, CurrentStamp, MapperTypeOK
  <2>3. poseHistory' \in [SubmapIds -> SUBSET Stamp]
    BY <1>9, <2>2 DEF IntegratePointcloud, MapperTypeOK
  <2>4. MapperTypeOK'
    BY <1>9, <2>2, <2>3 DEF IntegratePointcloud, MapperTypeOK, SubmapIds, Pc
  <2>5. QED
    BY <1>9, <2>4, PoseGraphTypeKept, InterfaceTypeKept
       DEF IntegratePointcloud
<1>10. CASE LoopClosureFlag
  <2>1. InterfaceTypeOK'
    BY <1>10 DEF LoopClosureFlag, RaiseLoopClosureFlag, InterfaceTypeOK
  <2>2. QED
    BY <1>10, <2>1, PoseGraphTypeKept, MapperTypeKept DEF LoopClosureFlag, Pc
<1>11. CASE ServiceOptimized
  BY <1>11, PoseGraphTypeKept, InterfaceTypeKept, MapperTypeKept
     DEF ServiceOptimized, Pc
<1>12. QED
  BY <1>1, <1>2, <1>3, <1>4, <1>5, <1>6, <1>7, <1>8, <1>9, <1>10, <1>11
     DEF CallbackStep

\* No step of another kind loses the stamp of a cloud under way.
LEMMA CloudStaysUnderWay ==
  ASSUME TypeOK, CloudUnderWay, Input \/ CallbackStep
  PROVE  CloudUnderWay'
<1>1. CASE Input
  BY <1>1 DEF Input, ReceivePointcloud, LoopClosureCallback, FinishMapCallback,
              OptimizeGraphCallback, CloudUnderWay, SwitchPc
<1>2. CASE CallbackStep
  BY <1>2 DEF CallbackStep, SkipPointcloud, UpdateToTime, WaitForOptimization,
     SwitchFinish, RegistrationDrop, RegistrationOverlap, SwitchCreate,
     LaunchOptimization, SwitchPublish, FinishMapPublish, PublishMaps,
     IntegratePointcloud, LoopClosureFlag, ServiceOptimized, SwitchOrder,
     CloudUnderWay, SwitchPc, inputVars
<1>3. QED
  BY <1>1, <1>2

TypeInv == TypeOK /\ CloudUnderWay

\* Every step preserves the types and the stamp of the cloud under way.
LEMMA TypeInvKept ==
  ASSUME TypeInv, [Next]_vars
  PROVE  TypeInv'
<1> USE DEF TypeInv
<1>1. CASE Input
  BY <1>1, InputTypes, CloudStaysUnderWay
<1>2. CASE CallbackStep
  BY <1>2, CallbackTypes, CloudStaysUnderWay
<1>3. CASE \E th \in Thread : OptimizePoseGraph(th)
  BY <1>3, OptimizeStepTypes, MapperTypeKept
     DEF OptimizePoseGraph, TypeOK, CloudUnderWay, inputVars, MapperTypeOK
<1>4. CASE UNCHANGED vars
  BY <1>4, PoseGraphTypeKept, InterfaceTypeKept, MapperTypeKept
     DEF vars, TypeOK, CloudUnderWay, inputVars, MapperTypeOK
<1>5. QED
  BY <1>1, <1>2, <1>3, <1>4 DEF Next, Still

\* They hold before the first message.
LEMMA TypeInvInit == Init => TypeInv
<1>1. ASSUME Init PROVE PoseGraphTypeOK
  BY <1>1 DEF Init, PoseGraphInit, PoseGraphTypeOK, NoProblem
<1>2. ASSUME Init PROVE InterfaceTypeOK
  BY <1>2 DEF Init, InterfaceInit, InterfaceTypeOK, Stage
<1>3. ASSUME Init PROVE MapperTypeOK
  BY <1>3, MapperAssumption
     DEF Init, MapperTypeOK, Pc, EmptyTimeline, SubmapIds
<1>4. Init => CloudUnderWay
  BY DEF Init, CloudUnderWay, SwitchPc
<1>5. QED
  BY <1>1, <1>2, <1>3, <1>4 DEF TypeInv, TypeOK

\* The types and the stamp of the cloud under way, which the type of the
\* timeline rests on, are an inductive invariant.
LEMMA TypeInvariant == Spec => []TypeInv
<1>1. Init => TypeInv
  BY TypeInvInit
<1>2. TypeInv /\ [Next]_vars => TypeInv'
  BY TypeInvKept
<1>3. QED
  BY <1>1, <1>2, PTL DEF Spec

\* Every variable of the mapper keeps its type, whatever the bounds, the
\* interval, the options and the order in which the threads run.
THEOREM TypeCorrect == Spec => []TypeOK
<1>1. TypeInv => TypeOK
  BY DEF TypeInv
<1>2. QED
  BY <1>1, TypeInvariant, PTL

-------------------------------------------------------------------------------
(* Exclusive access in switchToNewSubmap *)

\* A step of one thread's optimisation starts from a stage other than "idle" and
\* leaves the other thread's stage alone.
LEMMA OptimizeStepStage ==
  ASSUME TypeOK, NEW th \in Thread, OptimizePoseGraph(th)
  PROVE  /\ Optimizing(th)
         /\ \A other \in Thread \ {th} : stage'[other] = stage[other]
<1>1. \E from \in Stage \ {"idle"}, to \in Stage : GoTo(th, from, to)
  BY DEF OptimizePoseGraph, OptimizeStep, TestFlag, Initialize,
     TakePoseConstraints, TakeRegistrationConstraints, Presolve, ClearFlag,
     Solve, CopyPoses, WritePoses, Stage, GoTo
<1>2. QED
  BY <1>1 DEF GoTo, Optimizing, TypeOK, InterfaceTypeOK

\* A step of either thread keeps the optimisation out of a switch.
LEMMA SwitchExclusiveKept ==
  ASSUME TypeOK, SwitchExclusive, [Next]_vars
  PROVE  SwitchExclusive'
<1>1. CASE Input
  BY <1>1 DEF Input, ReceivePointcloud, LoopClosureCallback,
     FinishMapCallback, OptimizeGraphCallback, SwitchExclusive, SwitchPc,
     Optimizing, interfaceVars
<1>2. CASE CallbackStep
  <2>1. CASE WaitForOptimization
    BY <2>1 DEF WaitForOptimization, SwitchExclusive, Optimizing,
                interfaceVars
  <2>2. CASE pc \in SwitchPc /\ UNCHANGED stage
    BY <2>2 DEF SwitchExclusive, Optimizing
  <2>3. CASE pc' \notin SwitchPc
    BY <2>3 DEF SwitchExclusive
  <2>4. QED
    BY <1>2, <2>1, <2>2, <2>3 DEF CallbackStep, SkipPointcloud, UpdateToTime,
       SwitchFinish, RegistrationDrop, RegistrationOverlap, SwitchCreate,
       LaunchOptimization, SwitchPublish, FinishMapPublish,
       IntegratePointcloud, LoopClosureFlag, ServiceOptimized, SwitchPc,
       interfaceVars
<1>3. ASSUME NEW th \in Thread, OptimizePoseGraph(th)
      PROVE  SwitchExclusive'
  <2>1. UNCHANGED pc
    BY <1>3 DEF OptimizePoseGraph
  <2>2. CASE pc \in SwitchPc
    <3>1. ~Optimizing("async")
      BY <2>2 DEF SwitchExclusive
    <3>2. th # "async"
      BY <1>3, <3>1, OptimizeStepStage
    <3>3. stage'["async"] = stage["async"]
      BY <1>3, <3>2, OptimizeStepStage DEF Thread
    <3>4. QED
      BY <3>1, <3>3 DEF SwitchExclusive, Optimizing
  <2>3. QED
    BY <2>1, <2>2 DEF SwitchExclusive
<1>4. CASE UNCHANGED vars
  BY <1>4 DEF vars, interfaceVars, SwitchExclusive, Optimizing
<1>5. QED
  BY <1>1, <1>2, <1>3, <1>4 DEF Next, Still

\* The wait on the future keeps the optimisation thread out of
\* switchToNewSubmap, although finish_map, optimize_pose_graph and loop closures
\* run without any wait: the thread is only launched after a switch, and a
\* switch only starts when the thread is through.
THEOREM SwitchIsExclusive == Spec => []SwitchExclusive
<1>1. Init => SwitchExclusive
  BY DEF Init, SwitchExclusive, SwitchPc
<1>2. TypeOK /\ SwitchExclusive /\ [Next]_vars => SwitchExclusive'
  BY SwitchExclusiveKept
<1>3. QED
  BY <1>1, <1>2, TypeCorrect, PTL DEF Spec

-------------------------------------------------------------------------------
(* Registration constraints *)

\* The pairs found among the submaps join submaps, in either direction.
LEMMA OverlapJoinsSubmaps ==
  ASSUME NEW ids, AddOverlappingPairs(ids)
  PROVE  \A pair \in registrationConstraints' :
           pair \in registrationConstraints \/ {pair[1], pair[2]} \subseteq ids
<1>1. PICK overlapping \in OverlappingSubmapLists(ids) :
        AddRegistrationConstraints(overlapping)
  BY DEF AddOverlappingPairs
<1>2. \A pair \in overlapping : {pair[1], pair[2]} \subseteq ids
  BY DEF OverlappingSubmapLists
<1>3. \A pair \in Mirrored(overlapping) : {pair[1], pair[2]} \subseteq ids
  BY <1>2 DEF Mirrored
<1>4. QED
  BY <1>1, <1>3 DEF AddRegistrationConstraints

\* finishSubmap leaves no submap unfinished: the others already are.
LEMMA FinishActiveFinishesAll ==
  ASSUME MapperTypeOK, SubmapsFinished, FinishActiveSubmap
  PROVE  SubmapIds \subseteq finished' /\ finished \subseteq finished'
BY DEF FinishActiveSubmap, SubmapsFinished, SubmapIds, ActiveSubmap,
       MapperTypeOK

\* Submaps are finished by the time a step looks for overlaps among them.
LEMMA SubmapsStayFinished ==
  ASSUME TypeOK, CloudUnderWay, SubmapsFinished, Input \/ CallbackStep
  PROVE  SubmapsFinished' /\ finished \subseteq finished'
<1> DEFINE AllFinished == {"drop", "overlap", "create", "map_drop",
                           "map_overlap"}
<1>1. CASE UNCHANGED <<size, finished>> /\ pc' \notin AllFinished
  BY <1>1 DEF SubmapsFinished, SubmapIds, ActiveSubmap
<1>2. CASE UNCHANGED <<size, finished>> /\ pc \in AllFinished
  BY <1>2 DEF SubmapsFinished, SubmapIds, ActiveSubmap
<1>3. CASE UNCHANGED <<size, finished, pc>>
  BY <1>3 DEF SubmapsFinished, SubmapIds, ActiveSubmap
<1>4. CASE UNCHANGED size /\ FinishActiveSubmap
  <2>1. SubmapIds' = SubmapIds
    BY <1>4 DEF SubmapIds
  <2>2. QED
    BY <1>4, <2>1, FinishActiveFinishesAll DEF SubmapsFinished, TypeOK
<1>5. CASE SwitchCreate
  <2>1. SubmapIds \subseteq finished
    BY <1>5 DEF SwitchCreate, SubmapsFinished
  <2>2. size \in Nat /\ size' = size + 1
    BY <1>5 DEF SwitchCreate, CreateNewSubmap, TypeOK, MapperTypeOK
  <2>3. SubmapIds' \ {ActiveSubmap'} \subseteq SubmapIds
    BY <2>2 DEF SubmapIds, ActiveSubmap
  <2>4. pc' \notin AllFinished /\ UNCHANGED finished
    BY <1>5 DEF SwitchCreate, SwitchOrder
  <2>5. QED
    BY <2>1, <2>3, <2>4 DEF SubmapsFinished
<1>6. CASE Input
  BY <1>1, <1>3, <1>4, <1>6 DEF Input, ReceivePointcloud,
     LoopClosureCallback, FinishMapCallback, OptimizeGraphCallback,
     collectionVars
<1>7. CASE CallbackStep
  BY <1>1, <1>2, <1>3, <1>4, <1>5, <1>7 DEF CallbackStep, SkipPointcloud,
     UpdateToTime, WaitForOptimization, SwitchFinish, RegistrationDrop,
     RegistrationOverlap, LaunchOptimization, SwitchPublish, FinishMapPublish,
     PublishMaps, IntegratePointcloud, LoopClosureFlag, ServiceOptimized,
     collectionVars
<1>8. QED
  BY <1>6, <1>7

\* A step of the optimisation copies registration constraints, and makes none.
LEMMA OptimizeStepRegistration ==
  ASSUME TypeOK, NEW th \in Thread, OptimizePoseGraph(th)
  PROVE  /\ UNCHANGED registrationConstraints
         /\ problem'.registration
              \subseteq registrationConstraints \cup problem.registration
<1> USE DEF OptimizePoseGraph
<1>1. CASE Initialize(th)
  BY <1>1 DEF Initialize, ResetProblem, EmptyProblem, NoProblem,
              constraintCollection
<1>2. CASE TakePoseConstraints(th)
  BY <1>2 DEF TakePoseConstraints, AddPoseConstraintsToProblem, TypeOK,
              PoseGraphTypeOK, constraintCollection
<1>3. CASE TakeRegistrationConstraints(th, finished)
  BY <1>3 DEF TakeRegistrationConstraints, AddRegistrationConstraintsToProblem,
              TypeOK, PoseGraphTypeOK, constraintCollection
<1>4. CASE UNCHANGED <<registrationConstraints, problem>>
  BY <1>4
<1>5. QED
  BY <1>1, <1>2, <1>3, <1>4 DEF OptimizeStep, TestFlag, Presolve, ClearFlag,
     Solve, CopyPoses, WritePoses, poseGraphVars, constraintCollection

\* Every step keeps the submaps, and the ends of registration constraints,
\* finished.
LEMMA FinishedKept ==
  ASSUME TypeInv, SubmapsFinished, RegistrationOnlyFinished, [Next]_vars
  PROVE  SubmapsFinished' /\ RegistrationOnlyFinished'
<1> USE DEF TypeInv
<1>1. CASE Input \/ CallbackStep
  <2>1. SubmapsFinished' /\ finished \subseteq finished'
    BY <1>1, SubmapsStayFinished
  <2>2. CASE UNCHANGED <<registrationConstraints, problem>>
    BY <2>1, <2>2 DEF RegistrationOnlyFinished
  <2>3. CASE RegistrationDrop
    BY <2>1, <2>3 DEF RegistrationDrop, DropRegistrationConstraints,
       ResetRegistrationConstraints, RegistrationOnlyFinished
  <2>4. CASE RegistrationOverlap
    <3>1. SubmapIds \subseteq finished
      BY <2>4 DEF RegistrationOverlap, SubmapsFinished
    <3>2. \A pair \in registrationConstraints' :
            {pair[1], pair[2]} \subseteq finished
      BY <2>4, <3>1, OverlapJoinsSubmaps
         DEF RegistrationOverlap, RegistrationOnlyFinished
    <3>3. QED
      BY <2>1, <2>4, <3>2
         DEF RegistrationOverlap, RegistrationOnlyFinished, collectionVars
  <2>5. QED
    BY <1>1, <2>1, <2>2, <2>3, <2>4 DEF Input, CallbackStep,
       ReceivePointcloud, LoopClosureCallback, FinishMapCallback,
       OptimizeGraphCallback, SkipPointcloud, UpdateToTime,
       WaitForOptimization, SwitchFinish, SwitchCreate, LaunchOptimization,
       SwitchPublish, FinishMapPublish, PublishMaps, IntegratePointcloud,
       LoopClosureFlag, ServiceOptimized, poseGraphVars,
       constraintCollection
<1>2. ASSUME NEW th \in Thread, OptimizePoseGraph(th)
      PROVE  SubmapsFinished' /\ RegistrationOnlyFinished'
  <2>1. UNCHANGED <<pc, size, finished>>
    BY <1>2 DEF OptimizePoseGraph, collectionVars
  <2>2. SubmapsFinished'
    BY <2>1 DEF SubmapsFinished, SubmapIds, ActiveSubmap
  <2>3. QED
    BY <1>2, <2>1, <2>2, OptimizeStepRegistration
       DEF RegistrationOnlyFinished
<1>3. CASE UNCHANGED vars
  BY <1>3 DEF vars, poseGraphVars, constraintCollection, collectionVars,
     SubmapsFinished, SubmapIds, ActiveSubmap, RegistrationOnlyFinished
<1>4. QED
  BY <1>1, <1>2, <1>3 DEF Next, Still

\* Registration constraints join finished submaps because all submaps but the
\* active one are finished: together they are an inductive invariant.
LEMMA FinishedInvariant ==
  Spec => [](SubmapsFinished /\ RegistrationOnlyFinished)
<1>1. Init => SubmapsFinished /\ RegistrationOnlyFinished
  BY DEF Init, PoseGraphInit, NoProblem, SubmapsFinished, SubmapIds,
         RegistrationOnlyFinished
<1>2. TypeInv /\ SubmapsFinished /\ RegistrationOnlyFinished /\ [Next]_vars
        => SubmapsFinished' /\ RegistrationOnlyFinished'
  BY FinishedKept
<1>3. QED
  BY <1>1, <1>2, TypeInvariant, PTL DEF Spec

\* Every submap that a registration constraint reads has been finished, with
\* the services called at any time: updateRegistrationConstraints only runs
\* when the active submap has just been finished.
THEOREM RegistrationIsOnlyFinished == Spec => []RegistrationOnlyFinished
BY FinishedInvariant, PTL

-------------------------------------------------------------------------------
(* The ends of the constraints *)

AbsoluteEnds ==
  \A c \in absoluteConstraints :
    c.frame \in referenceFrames /\ c.submap \in submapNodes

RelativeEnds ==
  \A k \in DOMAIN relativeConstraints :
    {relativeConstraints[k].from, relativeConstraints[k].to}
      \subseteq submapNodes

RegistrationEnds ==
  \A pair \in registrationConstraints : {pair[1], pair[2]} \subseteq submapNodes

\* A relative constraint between nodes keeps the ends of the list on nodes.
LEMMA AddRelativeEnds ==
  ASSUME PoseGraphTypeOK, RelativeEnds, submapNodes \subseteq submapNodes',
         NEW type, NEW from \in submapNodes', NEW to \in submapNodes',
         AddRelativePoseConstraint(type, from, to)
  PROVE  RelativeEnds'
<1> DEFINE c == [type |-> type, from |-> from, to |-> to]
           n == Len(relativeConstraints)
<1>1. /\ DOMAIN relativeConstraints = 1..n /\ n \in Nat
      /\ DOMAIN relativeConstraints' = 1..(n + 1)
      /\ \A k \in 1..n : relativeConstraints'[k] = relativeConstraints[k]
      /\ relativeConstraints'[n + 1] = c
  BY DEF PoseGraphTypeOK, AddRelativePoseConstraint
<1>2. ASSUME NEW k \in 1..(n + 1)
      PROVE  {relativeConstraints'[k].from, relativeConstraints'[k].to}
               \subseteq submapNodes'
  <2>1. CASE k \in 1..n
    BY <1>1, <2>1 DEF RelativeEnds
  <2>2. CASE k = n + 1
    BY <1>1, <2>2
  <2>3. QED
    BY <1>1, <2>1, <2>2
<1>3. QED
  BY <1>1, <1>2 DEF RelativeEnds

\* Whatever a step leaves alone keeps its ends: nodes are never removed.
LEMMA EndsKept ==
  ASSUME EndpointsHaveNodes, submapNodes \subseteq submapNodes'
  PROVE  /\ UNCHANGED <<absoluteConstraints, referenceFrames>> => AbsoluteEnds'
         /\ UNCHANGED relativeConstraints => RelativeEnds'
         /\ UNCHANGED registrationConstraints => RegistrationEnds'
BY DEF EndpointsHaveNodes, AbsoluteEnds, RelativeEnds, RegistrationEnds

\* The new submap's node, odometry constraint and height constraint.
LEMMA SwitchCreateEnds ==
  ASSUME TypeOK, CloudUnderWay, NodesAreSubmaps, EndpointsHaveNodes,
         SwitchCreate
  PROVE  NodesAreSubmaps' /\ EndpointsHaveNodes'
<1>1. /\ MapperTypeOK'
      /\ SubmapIds' = SubmapIds \cup {size}
  BY CreateNewSubmapTypes
     DEF SwitchCreate, CloudUnderWay, SwitchOrder, SwitchPc, Pc, TypeOK
<1>2. submapNodes' = submapNodes \cup {size}
  BY DEF SwitchCreate, AddSubmap, AddSubmapNode
<1>3. NodesAreSubmaps'
  BY <1>1, <1>2 DEF NodesAreSubmaps
<1>4. RelativeEnds'
  <2>1. CASE UNCHANGED relativeConstraints
    BY <1>2, <2>1, EndsKept
  <2>2. CASE /\ HasPreviousSubmap(timeline')
             /\ AddOdometryMeasurement(PreviousSubmapId(timeline'), size)
    <3>1. PreviousSubmapId(timeline') \in submapNodes'
      BY <1>1, <1>3, <2>2, PreviousSubmapInTimeline
         DEF MapperTypeOK, NodesAreSubmaps
    <3>2. RelativeEnds
      BY DEF EndpointsHaveNodes, RelativeEnds
    <3>3. QED
      BY <1>2, <2>2, <3>1, <3>2, AddRelativeEnds
         DEF AddOdometryMeasurement, TypeOK
  <2>3. QED
    BY <2>1, <2>2 DEF SwitchCreate
<1>5. AbsoluteEnds'
  <2>1. CASE UNCHANGED <<absoluteConstraints, referenceFrames>>
    BY <1>2, <2>1, EndsKept
  <2>2. CASE AddHeightMeasurement(size)
    BY <1>2, <2>2 DEF AddHeightMeasurement, AddReferenceFrameNode,
       AddAbsolutePoseConstraint, AbsoluteEnds, EndpointsHaveNodes
  <2>3. QED
    BY <2>1, <2>2 DEF SwitchCreate
<1>6. RegistrationEnds'
  BY <1>2, EndsKept DEF SwitchCreate
<1>7. QED
  BY <1>3, <1>4, <1>5, <1>6
     DEF EndpointsHaveNodes, AbsoluteEnds, RelativeEnds, RegistrationEnds

\* Every step keeps the ends of constraints on the nodes of submaps.
LEMMA EndsHaveNodesKept ==
  ASSUME TypeInv, NodesAreSubmaps, EndpointsHaveNodes, [Next]_vars
  PROVE  NodesAreSubmaps' /\ EndpointsHaveNodes'
<1> USE DEF TypeInv
<1>1. CASE UNCHANGED <<submapNodes, size, referenceFrames,
                       absoluteConstraints, relativeConstraints,
                       registrationConstraints>>
  BY <1>1 DEF NodesAreSubmaps, SubmapIds, EndpointsHaveNodes
<1>2. CASE SwitchCreate
  BY <1>2, SwitchCreateEnds
<1>3. ASSUME NEW from \in Stamp, NEW to \in Stamp,
             LoopClosureCallback(from, to)
      PROVE  NodesAreSubmaps' /\ EndpointsHaveNodes'
  <2> DEFINE A == ActiveSubmapByTime(timeline, from)
             B == ActiveSubmapByTime(timeline, to)
  <2>1. UNCHANGED <<submapNodes, size, referenceFrames, absoluteConstraints,
                    registrationConstraints>>
    BY <1>3 DEF LoopClosureCallback, collectionVars
  <2>2. A \in submapNodes' /\ B \in submapNodes'
    BY <1>3, <2>1, ActiveSubmapInTimeline
       DEF LoopClosureCallback, TypeOK, MapperTypeOK, NodesAreSubmaps
  <2>3. AddRelativePoseConstraint("loop_closure", A, B)
    BY <1>3 DEF LoopClosureCallback, AddLoopClosureConstraint
  <2>4. RelativeEnds'
    BY <2>1, <2>2, <2>3, AddRelativeEnds
       DEF TypeOK, EndpointsHaveNodes, RelativeEnds
  <2>5. QED
    BY <2>1, <2>4, EndsKept DEF EndpointsHaveNodes, NodesAreSubmaps,
       SubmapIds, AbsoluteEnds, RelativeEnds, RegistrationEnds
<1>4. CASE RegistrationDrop \/ RegistrationOverlap
  <2>1. UNCHANGED <<submapNodes, size, referenceFrames, absoluteConstraints,
                    relativeConstraints>>
    BY <1>4 DEF RegistrationDrop, RegistrationOverlap, collectionVars
  <2>2. RegistrationEnds'
    <3>1. CASE RegistrationDrop
      BY <3>1 DEF RegistrationDrop, DropRegistrationConstraints,
         ResetRegistrationConstraints, RegistrationEnds
    <3>2. CASE RegistrationOverlap
      BY <2>1, <3>2, OverlapJoinsSubmaps DEF RegistrationOverlap,
         RegistrationEnds, NodesAreSubmaps, EndpointsHaveNodes
    <3>3. QED
      BY <1>4, <3>1, <3>2
  <2>3. QED
    BY <2>1, <2>2, EndsKept DEF EndpointsHaveNodes, NodesAreSubmaps,
       SubmapIds, AbsoluteEnds, RelativeEnds, RegistrationEnds
<1>5. CASE Input
  BY <1>1, <1>3, <1>5 DEF Input, ReceivePointcloud, FinishMapCallback,
     OptimizeGraphCallback, poseGraphVars, collectionVars,
     constraintCollection
<1>6. CASE CallbackStep
  BY <1>1, <1>2, <1>4, <1>6 DEF CallbackStep, SkipPointcloud, UpdateToTime,
     WaitForOptimization, SwitchFinish, LaunchOptimization, SwitchPublish,
     FinishMapPublish, PublishMaps, IntegratePointcloud, LoopClosureFlag,
     ServiceOptimized, poseGraphVars, collectionVars, constraintCollection
<1>7. ASSUME NEW th \in Thread, OptimizePoseGraph(th)
      PROVE  NodesAreSubmaps' /\ EndpointsHaveNodes'
  BY <1>1, <1>7 DEF OptimizePoseGraph, OptimizeStep, TestFlag, Initialize,
     TakePoseConstraints, TakeRegistrationConstraints, Presolve, ClearFlag,
     Solve, CopyPoses, WritePoses, poseGraphVars, constraintCollection,
     collectionVars
<1>8. CASE UNCHANGED vars
  BY <1>1, <1>8 DEF vars, poseGraphVars, constraintCollection,
                    collectionVars
<1>9. QED
  BY <1>5, <1>6, <1>7, <1>8 DEF Next, Still

\* The ends have nodes because the timeline and the collection name submaps, and
\* every submap has a node: together they are an inductive invariant.
LEMMA EndsInvariant == Spec => [](NodesAreSubmaps /\ EndpointsHaveNodes)
<1>1. Init => NodesAreSubmaps /\ EndpointsHaveNodes
  BY DEF Init, PoseGraphInit, NodesAreSubmaps, SubmapIds, EndpointsHaveNodes
<1>2. TypeInv /\ NodesAreSubmaps /\ EndpointsHaveNodes /\ [Next]_vars
        => NodesAreSubmaps' /\ EndpointsHaveNodes'
  BY EndsHaveNodesKept
<1>3. QED
  BY <1>1, <1>2, TypeInvariant, PTL DEF Spec

\* Both ends of every constraint have a node.  The collection does not check
\* them when an absolute or a relative constraint is added: that the lookup in
\* addToProblem finds them rests on the timeline naming submaps only.
THEOREM EndpointsAlwaysHaveNodes == Spec => []EndpointsHaveNodes
BY EndsInvariant, PTL
-------------------------------------------------------------------------------
(* The constraint lists while the optimisation thread walks them *)

\* Without finish_map the constraint lists change in a switch or when a loop
\* closure comes in.
LEMMA ListsChangeInSwitch ==
  ASSUME "finish_map" \notin Services, pc \notin {"map_drop", "map_overlap"},
         [Next]_vars
  PROVE  /\ pc' \notin {"map_drop", "map_overlap"}
         /\ \/ UNCHANGED constraintCollection
            \/ pc \in SwitchPc
            \/ \E from, to \in Stamp : LoopClosureCallback(from, to)
<1>1. CASE Input
  BY <1>1 DEF Input, ReceivePointcloud, LoopClosureCallback,
     FinishMapCallback, OptimizeGraphCallback, poseGraphVars,
     constraintCollection
<1>2. CASE CallbackStep
  <2>1. pc' \notin {"map_drop", "map_overlap"}
    BY <1>2 DEF CallbackStep, SkipPointcloud, UpdateToTime,
       WaitForOptimization, SwitchFinish, RegistrationDrop,
       RegistrationOverlap, SwitchCreate, LaunchOptimization, SwitchPublish,
       FinishMapPublish, IntegratePointcloud, LoopClosureFlag,
       ServiceOptimized, SwitchOrder
  <2>2. UNCHANGED constraintCollection \/ pc \in SwitchPc
    BY <1>2 DEF CallbackStep, SkipPointcloud, UpdateToTime,
       WaitForOptimization, SwitchFinish, RegistrationDrop,
       RegistrationOverlap, SwitchCreate, LaunchOptimization, SwitchPublish,
       FinishMapPublish, PublishMaps, IntegratePointcloud, LoopClosureFlag,
       ServiceOptimized, SwitchPc, poseGraphVars, constraintCollection
  <2>3. QED
    BY <2>1, <2>2
<1>3. ASSUME NEW th \in Thread, OptimizePoseGraph(th)
      PROVE  UNCHANGED <<pc, constraintCollection>>
  BY <1>3 DEF OptimizePoseGraph, OptimizeStep, TestFlag, Initialize,
     TakePoseConstraints, TakeRegistrationConstraints, Presolve, ClearFlag,
     Solve, CopyPoses, WritePoses, poseGraphVars, constraintCollection
<1>4. CASE UNCHANGED vars
  BY <1>4 DEF vars, poseGraphVars, constraintCollection
<1>5. QED
  BY <1>1, <1>2, <1>3, <1>4 DEF Next, Still

\* The assumption of some theorems on the mapper's surroundings: loop closures
\* only arrive between the optimisations.  The code does nothing to ensure it.
LoopClosuresBetween ==
  [][(\E from, to \in Stamp : LoopClosureCallback(from, to)) =>
       ~Optimizing("async")]_vars

\* Without finish_map, and with loop closures only between the optimisations,
\* the wait on the future is enough: no list changes under the optimisation
\* thread.  These two callers are all that the wait leaves out
\* (voxgraph_mapper.cpp:219-231).
THEOREM ListsAreNotInUse ==
  ASSUME "finish_map" \notin Services
  PROVE  Spec /\ LoopClosuresBetween => ConstraintsNotInUse
<1> DEFINE NotFinishing == pc \notin {"map_drop", "map_overlap"}
<1>1. Init => NotFinishing
  BY DEF Init
<1>2. NotFinishing /\ [Next]_vars => NotFinishing'
  BY ListsChangeInSwitch
<1>3. NotFinishing /\ SwitchExclusive /\ [Next]_vars
      /\ [(\E from, to \in Stamp : LoopClosureCallback(from, to)) =>
             ~Optimizing("async")]_vars
      => [constraintCollection' # constraintCollection =>
            ~ReadsConstraints("async")]_vars
  <2> SUFFICES ASSUME NotFinishing, SwitchExclusive, [Next]_vars, vars' # vars,
                      (\E from, to \in Stamp : LoopClosureCallback(from, to)) =>
                        ~Optimizing("async"),
                      constraintCollection' # constraintCollection
               PROVE  ~ReadsConstraints("async")
    OBVIOUS
  <2>1. ~Optimizing("async")
    BY ListsChangeInSwitch DEF SwitchExclusive
  <2>2. QED
    BY <2>1 DEF Optimizing, ReadsConstraints
<1>4. QED
  BY <1>1, <1>2, <1>3, SwitchIsExclusive, PTL
     DEF Spec, ConstraintsNotInUse, LoopClosuresBetween
===============================================================================
