--------------------- MODULE VoxgraphMapperTimeline_proofs ---------------------
(***************************************************************************)
(* Proofs about the order in which submaps are created when clouds arrive  *)
(* in the order of their stamps, and about the CHECKs that rest on it, for *)
(* every value of the other constants and any depth of nested callbacks.   *)
(***************************************************************************)
EXTENDS VoxgraphMapper_proofs

\* Callbacks wait inside those of earlier clouds.
PendingOrdered ==
  \A i, j \in 1..Len(pending) : i < j => pending[j] < pending[i]

Newest(stamp) == \A s \in DOMAIN timeline : s < stamp

\* Nothing is known of clouds later than the last one.
NotAfterLatest ==
  /\ \A i \in 1..Len(pending) : pending[i] <= latestCloud
  /\ \A s \in DOMAIN timeline : s <= latestCloud

\* Between callbacks the active submap has a cloud, and so a start time.
HistoryStarts ==
  size > 0 /\ pc \notin {"launch", "publish", "integrate"} =>
    poseHistory[ActiveSubmap] # {}

\* A waiting cloud is later than every submap, or earlier than all clouds of the
\* active one and then never makes a submap.
CloudsNest ==
  size > 0 => \A i \in 1..Len(pending) :
    Newest(pending[i]) \/ \A q \in poseHistory[ActiveSubmap] : pending[i] < q

\* The submap that is to be made is the newest in the timeline.
CreationDue ==
  pc \in {"wait", "finish", "drop", "overlap", "create"} => Newest(CurrentStamp)

TimelineInv ==
  /\ PendingOrdered
  /\ NotAfterLatest
  /\ HistoryStarts
  /\ CloudsNest
  /\ CreationDue
  /\ TimelineFollowsCreation

\* What Tail leaves of the stack of callbacks.
LEMMA TailOfPending ==
  ASSUME pending \in Seq(Stamp), pending # <<>>, pending' = Tail(pending)
  PROVE  /\ Len(pending') = Len(pending) - 1 /\ Len(pending) \in Nat \ {0}
         /\ \A i \in 1..Len(pending') :
              /\ i \in 1..Len(pending) /\ i + 1 \in 1..Len(pending)
              /\ pending'[i] = pending[i + 1]
         /\ CurrentStamp = pending[1] /\ 1 \in 1..Len(pending)
BY DEF CurrentStamp

\* A cloud that arrives is the newest.
LEMMA ReceiveKeepsOrder ==
  ASSUME InOrderClouds, TypeOK, TimelineInv,
         NEW stamp \in Stamp, ReceivePointcloud(stamp)
  PROVE  TimelineInv'
<1> USE DEF TimelineInv
<1>1. /\ stamp > latestCloud /\ latestCloud' = stamp
      /\ latestCloud \in Int /\ stamp \in Int
  BY MapperAssumption
     DEF ReceivePointcloud, Larger, TypeOK, MapperTypeOK, Stamp
<1>2. /\ Len(pending) \in Nat
      /\ Len(pending') = Len(pending) + 1
      /\ pending'[1] = stamp
      /\ \A i \in 1..Len(pending) : pending'[i + 1] = pending[i]
      /\ \A i \in 1..Len(pending') : i # 1 => i - 1 \in 1..Len(pending)
  BY DEF ReceivePointcloud, TypeOK, MapperTypeOK
<1>3. \A i \in 1..Len(pending') : i = 1 \/ pending'[i] = pending[i - 1]
  BY <1>2
<1>4. \A i \in 1..Len(pending) : pending[i] \in Int /\ pending[i] < stamp
  BY <1>1, MapperAssumption DEF TypeOK, MapperTypeOK, NotAfterLatest, Stamp
<1>5. UNCHANGED <<pc, size, poseHistory, timeline>> /\ pc = "idle"
  BY DEF ReceivePointcloud, collectionVars
<1>6. PendingOrdered'
  <2> SUFFICES ASSUME NEW i \in 1..Len(pending'), NEW j \in 1..Len(pending'),
                      i < j
               PROVE  pending'[j] < pending'[i]
    BY DEF PendingOrdered
  <2>1. j # 1 /\ j - 1 \in 1..Len(pending) /\ pending'[j] = pending[j - 1]
    BY <1>2, <1>3
  <2>2. CASE i = 1
    BY <2>1, <2>2, <1>2, <1>4
  <2>3. CASE i # 1
    BY <2>1, <2>3, <1>2, <1>3 DEF PendingOrdered
  <2>4. QED
    BY <2>2, <2>3
<1>7. \A s \in DOMAIN timeline : s \in Int /\ s < stamp
  BY <1>1, MapperAssumption DEF TypeOK, MapperTypeOK, NotAfterLatest, Stamp
<1>8. NotAfterLatest'
  <2>1. ASSUME NEW i \in 1..Len(pending') PROVE pending'[i] <= stamp
    <3>1. CASE i = 1
      BY <3>1, <1>1, <1>2
    <3>2. CASE i # 1
      <4>1. pending'[i] = pending[i - 1] /\ i - 1 \in 1..Len(pending)
        BY <3>2, <1>2, <1>3
      <4>2. QED
        BY <4>1, <1>1, <1>4
    <3>3. QED
      BY <3>1, <3>2
  <2>2. QED
    BY <1>1, <1>5, <1>7, <2>1 DEF NotAfterLatest
<1>9. CloudsNest'
  <2>1. Newest(stamp)
    BY <1>7 DEF Newest
  <2>2. QED
    BY <1>2, <1>3, <1>5, <2>1 DEF CloudsNest, Newest, ActiveSubmap
<1>10. QED
  BY <1>5, <1>6, <1>8, <1>9 DEF HistoryStarts, CreationDue,
     TimelineFollowsCreation, SubmapIds, ActiveSubmap

\* A cloud that is skipped leaves those it interrupted.
LEMMA SkipKeepsOrder ==
  ASSUME TypeOK, TimelineInv, SkipPointcloud
  PROVE  TimelineInv'
<1> USE DEF TimelineInv
<1>1. /\ UNCHANGED <<pc, latestCloud, size, poseHistory, timeline>>
      /\ pc = "idle"
  BY DEF SkipPointcloud, collectionVars
<1>2. /\ Len(pending') = Len(pending) - 1 /\ Len(pending) \in Nat \ {0}
      /\ \A i \in 1..Len(pending') :
           /\ i \in 1..Len(pending) /\ i + 1 \in 1..Len(pending)
           /\ pending'[i] = pending[i + 1]
  BY TailOfPending DEF SkipPointcloud, TypeOK, MapperTypeOK
<1>3. PendingOrdered'
  <2> SUFFICES ASSUME NEW i \in 1..Len(pending'), NEW j \in 1..Len(pending'),
                      i < j
               PROVE  pending'[j] < pending'[i]
    BY DEF PendingOrdered
  <2>1. i + 1 < j + 1
    OBVIOUS
  <2>2. QED
    BY <1>2, <2>1 DEF PendingOrdered
<1>4. NotAfterLatest' /\ CloudsNest'
  BY <1>1, <1>2 DEF NotAfterLatest, CloudsNest, Newest, ActiveSubmap
<1>5. QED
  BY <1>1, <1>3, <1>4 DEF HistoryStarts, CreationDue,
     TimelineFollowsCreation, SubmapIds, ActiveSubmap

\* Only a cloud later than every submap makes a new one.
LEMMA DecisionKeepsOrder ==
  ASSUME TypeOK, TimelineInv, UpdateToTime
  PROVE  TimelineInv'
<1> USE DEF TimelineInv
<1>1. /\ UNCHANGED <<pending, latestCloud, size, poseHistory, timeline>>
      /\ pc = "idle" /\ pending # <<>>
  BY DEF UpdateToTime, collectionVars, inputVars
<1>2. ASSUME ShouldCreateNewSubmap(CurrentStamp) PROVE Newest(CurrentStamp)
  <2>1. CASE size = 0
    <3>1. SubmapIds = {}
      BY <2>1 DEF SubmapIds
    <3>2. DOMAIN timeline = {}
      BY <3>1 DEF TypeOK, MapperTypeOK
    <3>3. QED
      BY <3>2 DEF Newest
  <2>2. CASE size # 0
    <3>1. size > 0 /\ ActiveSubmap \in SubmapIds
      BY <2>2 DEF TypeOK, MapperTypeOK, ActiveSubmap, SubmapIds
    <3> DEFINE history == poseHistory[ActiveSubmap]
    <3>2. history # {} /\ history \in SUBSET Stamp
      BY <1>1, <3>1 DEF HistoryStarts, TypeOK, MapperTypeOK
    <3>3. FirstOf(history) \in history
      BY <3>2, FirstOfIsFirst
    <3>4. FirstOf(history) < CurrentStamp
      <4>1. CurrentStamp \in Stamp
        BY <1>1 DEF CurrentStamp, TypeOK, MapperTypeOK
      <4>2. CurrentStamp > FirstOf(history) + SubmapCreationInterval
        BY <1>2, <2>2, <3>2 DEF ShouldCreateNewSubmap, StartTime
      <4>3. CurrentStamp \in Int /\ FirstOf(history) \in Int
        BY <3>2, <3>3, <4>1, MapperAssumption DEF Stamp
      <4>4. QED
        BY <4>2, <4>3, MapperAssumption
    <3>5. FirstOf(history) \in Int /\ CurrentStamp \in Int
      BY <1>1, <3>2, <3>3, MapperAssumption
         DEF CurrentStamp, TypeOK, MapperTypeOK, Stamp
    <3>6. 1 \in 1..Len(pending) /\ CurrentStamp = pending[1]
      BY <1>1 DEF CurrentStamp, TypeOK, MapperTypeOK
    <3>7. QED
      BY <3>1, <3>3, <3>4, <3>5, <3>6 DEF CloudsNest
  <2>3. QED
    BY <2>1, <2>2
<1>3. CreationDue'
  BY <1>1, <1>2 DEF UpdateToTime, CreationDue, Newest, CurrentStamp
<1>4. QED
  BY <1>1, <1>3 DEF PendingOrdered, NotAfterLatest, HistoryStarts, CloudsNest,
     Newest, TimelineFollowsCreation, SubmapIds, ActiveSubmap

\* A new submap is put at the end of the timeline.
LEMMA CreationKeepsOrder ==
  ASSUME TypeOK, CloudUnderWay, TimelineInv, SwitchCreate
  PROVE  TimelineInv'
<1> USE DEF TimelineInv
<1>1. /\ pc = "create" /\ pc' = "launch" /\ pending # <<>>
      /\ CreateNewSubmap(size, CurrentStamp)
      /\ UNCHANGED <<pending, latestCloud>>
  BY DEF SwitchCreate, SwitchOrder, CloudUnderWay, SwitchPc, inputVars
<1>2. /\ CurrentStamp \in Stamp
      /\ CurrentStamp = pending[1] /\ 1 \in 1..Len(pending)
      /\ Newest(CurrentStamp)
  BY <1>1 DEF CurrentStamp, TypeOK, MapperTypeOK, CreationDue
<1>3. /\ size \in Nat /\ size' = size + 1 /\ ActiveSubmap' = size
      /\ SubmapIds' = SubmapIds \cup {size}
      /\ \A id \in SubmapIds : id < size /\ id \in Nat
  BY <1>1 DEF CreateNewSubmap, TypeOK, MapperTypeOK, SubmapIds, ActiveSubmap
<1>4. /\ poseHistory'[size] = {}
      /\ DOMAIN timeline' = DOMAIN timeline \cup {CurrentStamp}
      /\ CurrentStamp \notin DOMAIN timeline
      /\ timeline'[CurrentStamp] = size
      /\ \A s \in DOMAIN timeline :
           timeline'[s] = timeline[s] /\ timeline[s] \in SubmapIds
  <2>1. CurrentStamp \notin DOMAIN timeline
    BY <1>2, MapperAssumption DEF Newest, Stamp
  <2>2. QED
    BY <1>1, <2>1
       DEF CreateNewSubmap, AddNextSubmap, TypeOK, MapperTypeOK
<1>5. TimelineFollowsCreation'
  <2>1. \A id \in SubmapIds' : \E s \in DOMAIN timeline' : timeline'[s] = id
    BY <1>3, <1>4 DEF TimelineFollowsCreation
  <2>2. ASSUME NEW r \in DOMAIN timeline', NEW s \in DOMAIN timeline', r < s
        PROVE  timeline'[r] < timeline'[s]
    <3>1. CASE s \in DOMAIN timeline /\ r \in DOMAIN timeline
      BY <3>1, <2>2, <1>4 DEF TimelineFollowsCreation
    <3>2. CASE s = CurrentStamp /\ r \in DOMAIN timeline
      BY <3>2, <1>3, <1>4
    <3>3. CASE r = CurrentStamp
      <4>1. s = CurrentStamp \/ s < CurrentStamp
        BY <1>2, <1>4 DEF Newest
      <4>2. s \in Int /\ r \in Int
        BY <1>2, <1>4, MapperAssumption DEF TypeOK, MapperTypeOK, Stamp
      <4>3. QED
        BY <2>2, <3>3, <4>1, <4>2
    <3>4. QED
      BY <3>1, <3>2, <3>3, <1>4
  <2>3. QED
    BY <2>1, <2>2 DEF TimelineFollowsCreation
<1>6. NotAfterLatest'
  BY <1>1, <1>2, <1>4 DEF NotAfterLatest
<1>7. CloudsNest'
  BY <1>3, <1>4 DEF CloudsNest
<1>8. QED
  BY <1>1, <1>5, <1>6, <1>7 DEF PendingOrdered, HistoryStarts, CreationDue

\* A cloud that is integrated is later than those still waiting.
LEMMA IntegrationKeepsOrder ==
  ASSUME TypeOK, CloudUnderWay, TimelineInv, IntegratePointcloud
  PROVE  TimelineInv'
<1> USE DEF TimelineInv
<1>1. /\ UNCHANGED <<latestCloud, size, timeline>>
      /\ pc = "integrate" /\ pc' = "idle" /\ pending # <<>>
      /\ pending' = Tail(pending)
      /\ poseHistory' = [poseHistory EXCEPT ![ActiveSubmap] =
                           @ \cup {CurrentStamp}]
  BY DEF IntegratePointcloud, CloudUnderWay
<1>2. /\ Len(pending') = Len(pending) - 1 /\ Len(pending) \in Nat \ {0}
      /\ \A i \in 1..Len(pending') :
           /\ i \in 1..Len(pending) /\ i + 1 \in 1..Len(pending)
           /\ pending'[i] = pending[i + 1]
      /\ CurrentStamp = pending[1] /\ 1 \in 1..Len(pending)
  BY <1>1, TailOfPending DEF TypeOK, MapperTypeOK
<1>3. size > 0 => poseHistory'[ActiveSubmap] =
                    poseHistory[ActiveSubmap] \cup {CurrentStamp}
  <2>1. size > 0 => ActiveSubmap \in DOMAIN poseHistory
    BY DEF TypeOK, MapperTypeOK, ActiveSubmap, SubmapIds
  <2>2. QED
    BY <1>1, <2>1
<1>4. PendingOrdered'
  <2> SUFFICES ASSUME NEW i \in 1..Len(pending'), NEW j \in 1..Len(pending'),
                      i < j
               PROVE  pending'[j] < pending'[i]
    BY DEF PendingOrdered
  <2>1. i + 1 < j + 1
    OBVIOUS
  <2>2. QED
    BY <1>2, <2>1 DEF PendingOrdered
<1>5. NotAfterLatest'
  BY <1>1, <1>2 DEF NotAfterLatest
<1>6. CloudsNest'
  <2> SUFFICES ASSUME size > 0, NEW i \in 1..Len(pending')
               PROVE  \/ Newest(pending[i + 1])
                      \/ \A q \in poseHistory[ActiveSubmap] \cup {CurrentStamp} :
                           pending[i + 1] < q
    BY <1>1, <1>2, <1>3 DEF CloudsNest, Newest, ActiveSubmap
  <2>1. 1 < i + 1
    OBVIOUS
  <2>2. pending[i + 1] < CurrentStamp
    BY <1>2, <2>1 DEF PendingOrdered
  <2>3. QED
    BY <1>2, <2>2 DEF CloudsNest
<1>7. HistoryStarts'
  BY <1>1, <1>3 DEF HistoryStarts, ActiveSubmap
<1>8. QED
  BY <1>1, <1>4, <1>5, <1>6, <1>7 DEF CreationDue, TimelineFollowsCreation,
     SubmapIds

\* All other steps leave the clouds, the submaps and the timeline alone.
LEMMA OtherStepsKeepOrder ==
  ASSUME TimelineInv,
         UNCHANGED <<pending, latestCloud, size, poseHistory, timeline>>,
         \/ UNCHANGED pc
         \/ pc \in {"wait", "finish", "drop", "overlap"} /\
            pc' \in {"finish", "drop", "overlap", "create"}
         \/ pc \in {"launch", "publish"} /\ pc' \in {"publish", "integrate"}
         \/ pc \notin {"launch", "publish", "integrate"} /\
            pc' \notin {"wait", "finish", "drop", "overlap", "create"}
  PROVE  TimelineInv'
<1>1. HistoryStarts' /\ CreationDue'
  BY DEF TimelineInv, HistoryStarts, CreationDue, ActiveSubmap, Newest,
     CurrentStamp
<1>2. QED
  BY <1>1 DEF TimelineInv, PendingOrdered, NotAfterLatest, CloudsNest, Newest,
     TimelineFollowsCreation, SubmapIds, ActiveSubmap

\* Every step keeps the timeline in the order of the clouds.
LEMMA TimelineKept ==
  ASSUME InOrderClouds, TypeInv, TimelineInv, [Next]_vars
  PROVE  TimelineInv'
<1> USE DEF TypeInv
<1>1. CASE Input
  <2>1. CASE \E stamp \in Stamp : ReceivePointcloud(stamp)
    BY <2>1, ReceiveKeepsOrder
  <2>2. CASE \/ \E from, to \in Stamp : LoopClosureCallback(from, to)
             \/ FinishMapCallback
             \/ OptimizeGraphCallback
    BY <2>2, OtherStepsKeepOrder DEF LoopClosureCallback, FinishMapCallback,
       OptimizeGraphCallback, inputVars, collectionVars
  <2>3. QED
    BY <1>1, <2>1, <2>2 DEF Input
<1>2. CASE CallbackStep
  <2>1. CASE SkipPointcloud
    BY <2>1, SkipKeepsOrder
  <2>2. CASE UpdateToTime
    BY <2>2, DecisionKeepsOrder
  <2>3. CASE SwitchCreate
    BY <2>3, CreationKeepsOrder
  <2>4. CASE IntegratePointcloud
    BY <2>4, IntegrationKeepsOrder
  <2>5. CASE WaitForOptimization \/ SwitchFinish \/ RegistrationDrop
               \/ RegistrationOverlap \/ LaunchOptimization
    BY <2>5, OtherStepsKeepOrder DEF WaitForOptimization, SwitchFinish,
       RegistrationDrop, RegistrationOverlap, LaunchOptimization,
       SwitchOrder, inputVars, collectionVars
  <2>6. CASE SwitchPublish \/ FinishMapPublish \/ LoopClosureFlag
               \/ ServiceOptimized
    BY <2>6, OtherStepsKeepOrder DEF SwitchPublish, FinishMapPublish,
       PublishMaps, LoopClosureFlag, ServiceOptimized, inputVars,
       collectionVars
  <2>7. QED
    BY <1>2, <2>1, <2>2, <2>3, <2>4, <2>5, <2>6 DEF CallbackStep
<1>3. CASE \E th \in Thread : OptimizePoseGraph(th)
  BY <1>3, OtherStepsKeepOrder
     DEF OptimizePoseGraph, inputVars, collectionVars
<1>4. CASE UNCHANGED vars
  BY <1>4, OtherStepsKeepOrder DEF vars, inputVars, collectionVars
<1>5. QED
  BY <1>1, <1>2, <1>3, <1>4 DEF Next, Still

LEMMA TimelineInvariant == ASSUME InOrderClouds PROVE Spec => []TimelineInv
<1>1. Init => TimelineInv
  BY DEF Init, EmptyTimeline, TimelineInv, PendingOrdered, NotAfterLatest,
     HistoryStarts, CloudsNest, CreationDue, TimelineFollowsCreation, SubmapIds
<1>2. TypeInv /\ TimelineInv /\ [Next]_vars => TimelineInv'
  BY TimelineKept
<1>3. QED
  BY <1>1, <1>2, TypeInvariant, PTL DEF Spec

\* When clouds arrive in order, the timeline has every submap, in the order of
\* their creation, in whatever order the nested callbacks of waiting clouds
\* resume (submap_timeline.cpp:4-9).
THEOREM TimelineIsInOrder ==
  ASSUME InOrderClouds PROVE Spec => []TimelineFollowsCreation
<1>1. TimelineInv => TimelineFollowsCreation
  BY DEF TimelineInv
<1>2. QED
  BY <1>1, TimelineInvariant, PTL

-------------------------------------------------------------------------------
(* The previous submap *)

\* In such a timeline the step back from the end finds the submap created just
\* before the last one, of which there must be one.
LEMMA PreviousIsOneLess ==
  ASSUME NEW n \in Nat, n > 1,
         NEW tl, DOMAIN tl \subseteq Stamp, tl \in [DOMAIN tl -> 0..n-1],
         \A id \in 0..n-1 : \E s \in DOMAIN tl : tl[s] = id,
         \A r, s \in DOMAIN tl : r < s => tl[r] < tl[s]
  PROVE  HasPreviousSubmap(tl) /\ PreviousSubmapId(tl) = n - 2
<1>1. n - 1 \in 0..n-1 /\ n - 2 \in 0..n-1
  OBVIOUS
<1>2. PICK last \in DOMAIN tl : tl[last] = n - 1
  BY <1>1
<1>3. PICK previous \in DOMAIN tl : tl[previous] = n - 2
  BY <1>1
<1>4. previous # last
  BY <1>1, <1>2, <1>3
<1>5. /\ DOMAIN tl \in SUBSET Stamp
      /\ \A s \in DOMAIN tl : s \in Int
      /\ \A s \in DOMAIN tl : tl[s] \in Int /\ tl[s] <= n - 1
  BY <1>1, MapperAssumption DEF Stamp
<1>6. LastOf(DOMAIN tl) = last
  <2>1. LastOf(DOMAIN tl) \in DOMAIN tl
    BY <1>2, <1>5, LastOfIsLast
  <2>2. last <= LastOf(DOMAIN tl)
    BY <1>2, <1>5, LastOfIsLast
  <2>3. ~(last < LastOf(DOMAIN tl))
    BY <1>1, <1>2, <1>5, <2>1
  <2>4. QED
    BY <1>5, <2>1, <2>2, <2>3
<1> DEFINE others == DOMAIN tl \ {last}
<1>7. LastOf(others) = previous
  <2>1. others \in SUBSET Stamp /\ others # {} /\ previous \in others
    BY <1>3, <1>4, <1>5
  <2>2. LastOf(others) \in others /\ previous <= LastOf(others)
    BY <2>1, LastOfIsLast
  <2>3. ~(previous < LastOf(others))
    <3> SUFFICES ASSUME previous < LastOf(others) PROVE FALSE
      OBVIOUS
    <3>1. tl[LastOf(others)] = n - 1
      <4>1. n - 2 < tl[LastOf(others)]
        BY <1>3, <2>2
      <4>2. QED
        BY <4>1, <1>1, <1>5, <2>2
    <3>2. LastOf(others) < last \/ last < LastOf(others)
      BY <1>5, <2>2
    <3>3. tl[LastOf(others)] # tl[last]
      BY <1>5, <2>2, <3>2
    <3>4. QED
      BY <1>2, <3>1, <3>3
  <2>4. LastOf(others) \in Int /\ previous \in Int
    BY <1>5, <2>2
  <2>5. QED
    BY <2>2, <2>3, <2>4
<1>8. QED
  BY <1>2, <1>3, <1>4, <1>6, <1>7 DEF HasPreviousSubmap, PreviousSubmapId

-------------------------------------------------------------------------------
(* The odometry chain *)

\* A loop closure is no odometry.
LEMMA LoopClosureKeepsChain ==
  ASSUME PoseGraphTypeOK, OdometryChain, NEW from, NEW to, UNCHANGED size,
         AddLoopClosureConstraint(from, to)
  PROVE  OdometryChain'
<1>1. PICK n \in Nat :
        /\ DOMAIN relativeConstraints = 1..n
        /\ DOMAIN relativeConstraints' = 1..(n + 1)
        /\ \A k \in 1..n : relativeConstraints'[k] = relativeConstraints[k]
        /\ relativeConstraints'[n + 1] =
             [type |-> "loop_closure", from |-> from, to |-> to]
  BY AppendedConstraint DEF AddLoopClosureConstraint
<1>2. relativeConstraints'[n + 1].type # "odometry"
  BY <1>1
<1>3. 1..(n + 1) = 1..n \cup {n + 1}
  OBVIOUS
<1>4. OdometryFromPrevious'
  BY <1>1, <1>2, <1>3 DEF OdometryChain, OdometryFromPrevious
<1>5. ASSUME NEW id PROVE Odometry(id)' = Odometry(id)
  BY <1>1, <1>2, <1>3 DEF Odometry
<1>6. SubmapIds' = SubmapIds
  BY DEF SubmapIds
<1>7. QED
  BY <1>4, <1>5, <1>6 DEF OdometryChain

\* A new submap is tied to the one created just before it.
LEMMA CreationKeepsChain ==
  ASSUME TypeOK, CloudUnderWay, TimelineInv, NodesAreSubmaps,
         EndpointsHaveNodes, OdometryChain, SwitchCreate
  PROVE  OdometryChain'
<1>1. MapperTypeOK' /\ TimelineFollowsCreation'
  <2>1. MapperTypeOK'
    BY CreateNewSubmapTypes
       DEF SwitchCreate, CloudUnderWay, SwitchOrder, SwitchPc, Pc, TypeOK
  <2>2. QED
    BY <2>1, CreationKeepsOrder DEF TimelineInv
<1>2. /\ size \in Nat /\ size' = size + 1
      /\ SubmapIds' = SubmapIds \cup {size} /\ size \notin SubmapIds
  BY DEF SwitchCreate, CreateNewSubmap, TypeOK, MapperTypeOK, SubmapIds
<1>3. Odometry(size) = {}
  BY <1>2 DEF Odometry, EndpointsHaveNodes, NodesAreSubmaps
<1>4. CASE UNCHANGED relativeConstraints /\ ~(OdometryConstraints /\ size > 0)
  <2>1. SubmapIds' \ {0} = SubmapIds \ {0} \/ ~OdometryConstraints
    BY <1>2, <1>4 DEF SubmapIds
  <2>2. QED
    BY <1>4, <2>1 DEF OdometryChain, OdometryFromPrevious, Odometry
<1>5. CASE OdometryConstraints /\ size > 0
  <2>1. /\ HasPreviousSubmap(timeline')
        /\ PreviousSubmapId(timeline') = size - 1
    <3>1. /\ size + 1 \in Nat /\ size + 1 > 1
          /\ SubmapIds' = 0..(size + 1) - 1 /\ (size + 1) - 2 = size - 1
      BY <1>2, <1>5 DEF SubmapIds
    <3>2. QED
      BY <1>1, <3>1, PreviousIsOneLess DEF MapperTypeOK, TimelineFollowsCreation
  <2>2. AddRelativePoseConstraint("odometry", size - 1, size)
    BY <1>5, <2>1 DEF SwitchCreate, AddOdometryMeasurement
  <2>3. PICK n \in Nat :
          /\ DOMAIN relativeConstraints = 1..n
          /\ DOMAIN relativeConstraints' = 1..(n + 1)
          /\ \A k \in 1..n : relativeConstraints'[k] = relativeConstraints[k]
          /\ relativeConstraints'[n + 1] =
               [type |-> "odometry", from |-> size - 1, to |-> size]
    BY <2>2, AppendedConstraint DEF TypeOK
  <2>4. 1..(n + 1) = 1..n \cup {n + 1} /\ n + 1 \notin 1..n
    OBVIOUS
  <2>5. OdometryFromPrevious'
    BY <1>2, <2>3, <2>4 DEF OdometryChain, OdometryFromPrevious
  <2>6. ASSUME NEW id, id = size PROVE Odometry(id)' = {n + 1}
    BY <2>6, <1>2, <1>3, <2>3, <2>4 DEF Odometry
  <2>7. ASSUME NEW id \in SubmapIds \ {0} PROVE Odometry(id)' = Odometry(id)
    BY <1>2, <2>3, <2>4 DEF Odometry
  <2>8. QED
    BY <1>2, <1>5, <2>5, <2>6, <2>7 DEF OdometryChain
<1>6. QED
  BY <1>4, <1>5 DEF SwitchCreate

\* The timeline as it is after a switch has the last two submaps at its end.
LEMMA PreviousAfterCreation ==
  ASSUME TypeOK, CloudUnderWay, TimelineInv, SwitchCreate, size > 0
  PROVE  HasPreviousSubmap(timeline')
<1>1. MapperTypeOK'
  BY CreateNewSubmapTypes
     DEF SwitchCreate, CloudUnderWay, SwitchOrder, SwitchPc, Pc, TypeOK
<1>2. TimelineFollowsCreation'
  BY CreationKeepsOrder DEF TimelineInv
<1>3. /\ size + 1 \in Nat /\ size + 1 > 1
      /\ SubmapIds' = 0..(size + 1) - 1
  BY DEF SwitchCreate, CreateNewSubmap, TypeOK, MapperTypeOK, SubmapIds
<1>4. QED
  BY <1>1, <1>2, <1>3, PreviousIsOneLess
     DEF MapperTypeOK, TimelineFollowsCreation

\* When clouds arrive in order, odometry ties every submap but the first to the
\* one created just before it, once, with loop closures and services at any time
\* (voxgraph_mapper.cpp:485-498).
THEOREM OdometryIsChain == ASSUME InOrderClouds PROVE Spec => []OdometryChain
<1>1. Init => OdometryChain
  BY DEF Init, PoseGraphInit, OdometryChain, OdometryFromPrevious, SubmapIds
<1>2. /\ TypeInv /\ TimelineInv
      /\ NodesAreSubmaps /\ EndpointsHaveNodes
      /\ OdometryChain /\ [Next]_vars
      => OdometryChain'
  <2> SUFFICES ASSUME TypeInv, TimelineInv, NodesAreSubmaps,
                      EndpointsHaveNodes, OdometryChain, [Next]_vars
               PROVE  OdometryChain'
    OBVIOUS
  <2> USE DEF TypeInv
  <2>1. CASE UNCHANGED <<size, relativeConstraints>>
    BY <2>1 DEF OdometryChain, OdometryFromPrevious, Odometry, SubmapIds
  <2>2. CASE SwitchCreate
    BY <2>2, CreationKeepsChain
  <2>3. CASE \E from, to \in Stamp : LoopClosureCallback(from, to)
    BY <2>3, LoopClosureKeepsChain
       DEF LoopClosureCallback, collectionVars, TypeOK
  <2>4. CASE Input
    BY <2>1, <2>3, <2>4 DEF Input, ReceivePointcloud, FinishMapCallback,
       OptimizeGraphCallback, poseGraphVars, collectionVars,
       constraintCollection
  <2>5. CASE CallbackStep
    BY <2>1, <2>2, <2>5 DEF CallbackStep, SkipPointcloud, UpdateToTime,
       WaitForOptimization, SwitchFinish, RegistrationDrop,
       RegistrationOverlap, LaunchOptimization, SwitchPublish,
       FinishMapPublish, PublishMaps, IntegratePointcloud, LoopClosureFlag,
       ServiceOptimized, poseGraphVars, collectionVars, constraintCollection
  <2>6. CASE \E th \in Thread : OptimizePoseGraph(th)
    BY <2>1, <2>6 DEF OptimizePoseGraph, OptimizeStep, TestFlag, Initialize,
       TakePoseConstraints, TakeRegistrationConstraints, Presolve, ClearFlag,
       Solve, CopyPoses, WritePoses, poseGraphVars, constraintCollection,
       collectionVars
  <2>7. CASE UNCHANGED vars
    BY <2>1, <2>7 DEF vars, poseGraphVars, constraintCollection,
                      collectionVars
  <2>8. QED
    BY <2>4, <2>5, <2>6, <2>7 DEF Next, Still
<1>3. QED
  BY <1>1, <1>2, TypeInvariant, TimelineInvariant, EndsInvariant, PTL DEF Spec

-------------------------------------------------------------------------------
(* The CHECKs *)

\* finish_map publishes when all submaps are finished.
PublishesFinished ==
  pc \in {"map_optimize", "map_publish"} => SubmapIds \subseteq finished

LEMMA PublishesFinishedKept ==
  ASSUME TypeInv, SubmapsFinished, PublishesFinished, [Next]_vars
  PROVE  PublishesFinished'
<1> USE DEF TypeInv
<1>1. CASE UNCHANGED <<size, finished>> /\
           (pc' \in {"map_optimize", "map_publish"} =>
              pc \in {"map_overlap", "map_optimize", "map_publish"})
  BY <1>1 DEF PublishesFinished, SubmapsFinished, SubmapIds
<1>2. CASE pc' \notin {"map_optimize", "map_publish"}
  BY <1>2 DEF PublishesFinished
<1>3. CASE FinishMapCallback
  <2>1. SubmapIds' = SubmapIds /\ FinishActiveSubmap
    BY <1>3 DEF FinishMapCallback, SubmapIds
  <2>2. QED
    BY <2>1, FinishActiveFinishesAll DEF PublishesFinished, TypeOK
<1>4. CASE Input
  BY <1>1, <1>2, <1>3, <1>4 DEF Input, ReceivePointcloud, LoopClosureCallback,
     OptimizeGraphCallback, collectionVars
<1>5. CASE CallbackStep
  BY <1>1, <1>2, <1>5 DEF CallbackStep, SkipPointcloud, UpdateToTime,
     WaitForOptimization, SwitchFinish, RegistrationDrop, RegistrationOverlap,
     SwitchCreate, SwitchOrder, LaunchOptimization, SwitchPublish,
     FinishMapPublish, IntegratePointcloud, LoopClosureFlag,
     ServiceOptimized, collectionVars
<1>6. CASE (\E th \in Thread : OptimizePoseGraph(th)) \/ UNCHANGED vars
  BY <1>1, <1>6 DEF OptimizePoseGraph, vars, collectionVars
<1>7. QED
  BY <1>4, <1>5, <1>6 DEF Next, Still

\* The constraints of a problem have their ends.
LEMMA OptimizationPassesChecks ==
  ASSUME EndpointsHaveNodes, RegistrationOnlyFinished, NoCheckFailure,
         NEW th \in Thread, OptimizePoseGraph(th)
  PROVE  NoCheckFailure'
<1>1. CASE Initialize(th)
  BY <1>1 DEF Initialize, ResetProblem, NoCheckFailure
<1>2. CASE TakePoseConstraints(th)
  <2>1. /\ \A c \in absoluteConstraints : AbsoluteEndsExist(c)
        /\ \A k \in DOMAIN relativeConstraints :
             RelativeEndsExist(relativeConstraints[k])
    BY DEF EndpointsHaveNodes, AbsoluteEndsExist, RelativeEndsExist
  <2>2. QED
    BY <1>2, <2>1 DEF TakePoseConstraints, AddPoseConstraintsToProblem, Check,
       NoCheckFailure
<1>3. CASE TakeRegistrationConstraints(th, finished)
  <2>1. \A pair \in registrationConstraints :
          RegistrationEndsReady(pair, finished)
    BY DEF EndpointsHaveNodes, RegistrationOnlyFinished, RegistrationEndsReady
  <2>2. QED
    BY <1>3, <2>1 DEF TakeRegistrationConstraints,
       AddRegistrationConstraintsToProblem, Check, NoCheckFailure
<1>4. CASE UNCHANGED status
  BY <1>4 DEF NoCheckFailure
<1>5. QED
  BY <1>1, <1>2, <1>3, <1>4 DEF OptimizePoseGraph, OptimizeStep, TestFlag,
     Presolve, ClearFlag, Solve, CopyPoses, WritePoses, poseGraphVars

\* The submap that publishMaps looks up is there and finished.
LEMMA PublishingPassesChecks ==
  ASSUME TypeOK, TimelineFollowsCreation, SubmapsFinished, NoCheckFailure,
         NEW others, others \subseteq finished, PublishMaps(others)
  PROVE  NoCheckFailure'
<1>1. ASSUME size > 1
      PROVE  HasPreviousSubmap(timeline) /\ PreviousSubmapId(timeline) \in finished
  <2>1. size \in Nat /\ size - 2 \in SubmapIds \ {ActiveSubmap}
    BY <1>1 DEF TypeOK, MapperTypeOK, SubmapIds, ActiveSubmap
  <2>2. HasPreviousSubmap(timeline) /\ PreviousSubmapId(timeline) = size - 2
    BY <1>1, <2>1, PreviousIsOneLess
       DEF TypeOK, MapperTypeOK, SubmapIds, TimelineFollowsCreation
  <2>3. QED
    BY <2>1, <2>2 DEF SubmapsFinished
<1>2. QED
  BY <1>1 DEF PublishMaps, Check, NoCheckFailure

\* No step of either thread fails a CHECK.
LEMMA NoCheckFailureKept ==
  ASSUME TypeInv, TimelineInv, SubmapsFinished, RegistrationOnlyFinished,
         NodesAreSubmaps, EndpointsHaveNodes, PublishesFinished, NoCheckFailure,
         [Next]_vars
  PROVE  NoCheckFailure'
<1> USE DEF TypeInv
<1>1. CASE UNCHANGED status
  BY <1>1 DEF NoCheckFailure
<1>2. CASE RegistrationDrop
  BY <1>2 DEF RegistrationDrop, DropRegistrationConstraints,
     ResetRegistrationConstraints, NoCheckFailure
<1>3. CASE RegistrationOverlap
  <2>1. PICK overlapping \in OverlappingSubmapLists(SubmapIds) :
          AddRegistrationConstraints(overlapping)
    BY <1>3 DEF RegistrationOverlap, AddOverlappingPairs
  <2>2. \A pair \in overlapping :
          pair[1] # pair[2] /\ {pair[1], pair[2]} \subseteq submapNodes
    <3>1. \A i \in SubmapIds : i \in Int
      BY DEF TypeOK, MapperTypeOK, SubmapIds
    <3>2. QED
      BY <3>1 DEF OverlappingSubmapLists, NodesAreSubmaps
  <2>3. QED
    BY <2>1, <2>2 DEF AddRegistrationConstraints, Check, NoCheckFailure
<1>4. CASE SwitchCreate
  <2>1. OdometryConstraints /\ size > 0 => HasPreviousSubmap(timeline')
    BY <1>4, PreviousAfterCreation
  <2>2. QED
    BY <1>4, <2>1 DEF SwitchCreate, Check, NoCheckFailure
<1>5. CASE SwitchPublish
  BY <1>5, PublishingPassesChecks DEF SwitchPublish, TimelineInv
<1>6. CASE FinishMapPublish
  <2>1. (IF size = 0 THEN {} ELSE {ActiveSubmap}) \subseteq finished
    BY <1>6 DEF FinishMapPublish, PublishesFinished, ActiveSubmap, SubmapIds,
       TypeOK, MapperTypeOK
  <2>2. QED
    BY <1>6, <2>1, PublishingPassesChecks DEF FinishMapPublish, TimelineInv
<1>7. CASE Input
  BY <1>1, <1>7 DEF Input, ReceivePointcloud, LoopClosureCallback,
     FinishMapCallback, OptimizeGraphCallback, poseGraphVars
<1>8. CASE CallbackStep
  BY <1>1, <1>2, <1>3, <1>4, <1>5, <1>6, <1>8 DEF CallbackStep,
     SkipPointcloud, UpdateToTime, WaitForOptimization, SwitchFinish,
     LaunchOptimization, IntegratePointcloud, LoopClosureFlag,
     ServiceOptimized, poseGraphVars
<1>9. CASE \E th \in Thread : OptimizePoseGraph(th)
  BY <1>9, OptimizationPassesChecks
<1>10. CASE UNCHANGED vars
  BY <1>1, <1>10 DEF vars, poseGraphVars
<1>11. QED
  BY <1>7, <1>8, <1>9, <1>10 DEF Next, Still

\* When clouds arrive in order no CHECK of the mapper, the pose graph or the
\* timeline ever fails, whatever the two threads, the services and the nested
\* callbacks do (pose_graph.cpp:50, registration_cost_function.cpp:20,
\* submap_timeline.cpp:31).
THEOREM NoCheckFails == ASSUME InOrderClouds PROVE Spec => []NoCheckFailure
<1>1. Init => PublishesFinished /\ NoCheckFailure
  BY DEF Init, PoseGraphInit, PublishesFinished, NoCheckFailure
<1>2. /\ TypeInv /\ TimelineInv
      /\ SubmapsFinished /\ RegistrationOnlyFinished
      /\ NodesAreSubmaps /\ EndpointsHaveNodes
      /\ PublishesFinished /\ NoCheckFailure /\ [Next]_vars
      => PublishesFinished' /\ NoCheckFailure'
  BY NoCheckFailureKept, PublishesFinishedKept
<1>3. QED
  BY <1>1, <1>2, TypeInvariant, TimelineInvariant, FinishedInvariant,
     EndsInvariant, PTL DEF Spec

-------------------------------------------------------------------------------
(* Clouds in the timeline *)

\* The timeline has the submap of a cloud no later than the cloud, and the next
\* submap later than it.
Located(id, stamp) ==
  \E s \in DOMAIN timeline :
    /\ timeline[s] = id
    /\ s <= stamp
    /\ \A r \in DOMAIN timeline : s < r => stamp < r

\* One callback at a time, and its cloud is later than those integrated before.
OneCloud ==
  /\ pending = <<>> \/ Len(pending) = 1
  /\ \A id \in SubmapIds : \A stamp \in poseHistory[id] :
       stamp <= latestCloud /\ (pending # <<>> => stamp < CurrentStamp)
  /\ pending # <<>> => \A s \in DOMAIN timeline : s <= CurrentStamp

LocateInv ==
  OneCloud /\ \A id \in SubmapIds : \A stamp \in poseHistory[id] : Located(id, stamp)

\* What located clouds mean for the lookup.
LEMMA LookupFindsSubmap ==
  ASSUME TypeOK, NEW id \in SubmapIds, NEW stamp \in Stamp, Located(id, stamp)
  PROVE  /\ HasActiveSubmap(timeline, stamp)
         /\ ActiveSubmapByTime(timeline, stamp) = id
<1> DEFINE S == NotAfter(DOMAIN timeline, stamp)
<1>1. PICK s \in DOMAIN timeline :
        /\ timeline[s] = id
        /\ s <= stamp
        /\ \A r \in DOMAIN timeline : s < r => stamp < r
  BY DEF Located
<1>2. s \in S /\ S \in SUBSET Stamp
  BY <1>1 DEF NotAfter, TypeOK, MapperTypeOK
<1>3. LastOf(S) \in S /\ s <= LastOf(S)
  BY <1>2, LastOfIsLast
<1>4. ~(s < LastOf(S))
  <2>1. LastOf(S) \in DOMAIN timeline /\ LastOf(S) <= stamp
    BY <1>3 DEF NotAfter
  <2>2. LastOf(S) \in Int /\ stamp \in Int
    BY <1>2, <1>3, MapperAssumption DEF Stamp
  <2>3. QED
    BY <1>1, <2>1, <2>2
<1>5. s \in Int /\ LastOf(S) \in Int
  BY <1>2, <1>3, MapperAssumption DEF Stamp
<1>6. LastOf(S) = s
  BY <1>3, <1>4, <1>5
<1>7. QED
  BY <1>1, <1>2, <1>6 DEF HasActiveSubmap, ActiveSubmapByTime

\* A cloud that arrives is later than all that came before.
LEMMA ReceiveLocates ==
  ASSUME InOrderClouds, MaxPending = 1, TypeOK, NotAfterLatest, LocateInv,
         NEW stamp \in Stamp, ReceivePointcloud(stamp)
  PROVE  LocateInv'
<1>1. /\ stamp > latestCloud /\ latestCloud' = stamp
      /\ latestCloud \in Int /\ stamp \in Int
      /\ UNCHANGED <<size, poseHistory, timeline>>
  BY MapperAssumption DEF ReceivePointcloud, Larger, TypeOK, MapperTypeOK,
     Stamp, collectionVars
<1>2. Len(pending') = 1 /\ CurrentStamp' = stamp
  BY DEF ReceivePointcloud, LocateInv, OneCloud, TypeOK, MapperTypeOK,
     CurrentStamp
<1>3. \A id \in SubmapIds : \A t \in poseHistory[id] : t \in Int /\ t < stamp
  BY <1>1, MapperAssumption
     DEF LocateInv, OneCloud, TypeOK, MapperTypeOK, Stamp
<1>4. \A s \in DOMAIN timeline : s <= stamp
  BY <1>1, MapperAssumption DEF NotAfterLatest, TypeOK, MapperTypeOK, Stamp
<1>5. OneCloud'
  BY <1>1, <1>2, <1>3, <1>4 DEF OneCloud, SubmapIds
<1>6. QED
  BY <1>1, <1>5 DEF LocateInv, Located, SubmapIds

\* A new submap is later than the clouds integrated before.
LEMMA CreationLocates ==
  ASSUME TypeOK, CloudUnderWay, TimelineInv, LocateInv, SwitchCreate
  PROVE  LocateInv'
<1>1. /\ pc = "create" /\ pending # <<>>
      /\ CreateNewSubmap(size, CurrentStamp)
      /\ UNCHANGED <<pending, latestCloud>>
  BY DEF SwitchCreate, CloudUnderWay, SwitchPc, inputVars
<1>2. CurrentStamp \in Stamp /\ Newest(CurrentStamp) /\ CurrentStamp' = CurrentStamp
  BY <1>1 DEF CurrentStamp, TypeOK, MapperTypeOK, TimelineInv, CreationDue
<1>3. /\ SubmapIds' = SubmapIds \cup {size} /\ size \notin SubmapIds
      /\ poseHistory'[size] = {}
      /\ \A id \in SubmapIds : poseHistory'[id] = poseHistory[id]
      /\ DOMAIN timeline' = DOMAIN timeline \cup {CurrentStamp}
      /\ \A s \in DOMAIN timeline : timeline'[s] = timeline[s]
  BY <1>1
     DEF CreateNewSubmap, AddNextSubmap, TypeOK, MapperTypeOK, SubmapIds
<1>4. \A id \in SubmapIds' : \A stamp \in poseHistory'[id] :
        id \in SubmapIds /\ stamp \in poseHistory[id]
  BY <1>3
<1>5. CurrentStamp <= CurrentStamp
  BY <1>2, MapperAssumption DEF Stamp
<1>6. OneCloud'
  BY <1>1, <1>2, <1>3, <1>4, <1>5 DEF LocateInv, OneCloud
<1>7. ASSUME NEW id \in SubmapIds, NEW stamp \in poseHistory[id]
      PROVE  Located(id, stamp)'
  <2>1. stamp < CurrentStamp
    BY <1>1 DEF LocateInv, OneCloud
  <2>2. PICK s \in DOMAIN timeline :
          /\ timeline[s] = id
          /\ s <= stamp
          /\ \A r \in DOMAIN timeline : s < r => stamp < r
    BY DEF LocateInv, Located
  <2>3. QED
    BY <1>3, <2>1, <2>2 DEF Located
<1>8. QED
  BY <1>4, <1>6, <1>7 DEF LocateInv

\* A cloud goes into the last submap, which is no later than the cloud.
LEMMA IntegrationLocates ==
  ASSUME TypeInv, NotAfterLatest, TimelineFollowsCreation, LocateInv,
         IntegratePointcloud
  PROVE  LocateInv'
<1> USE DEF TypeInv
<1>1. /\ UNCHANGED <<latestCloud, size, timeline>>
      /\ pending # <<>> /\ pending' = Tail(pending)
      /\ poseHistory' = [poseHistory EXCEPT ![ActiveSubmap] =
                           @ \cup {CurrentStamp}]
  BY DEF IntegratePointcloud, CloudUnderWay
<1>2. pending' = <<>> /\ CurrentStamp <= latestCloud
  <2>1. Len(pending) = 1
    BY <1>1 DEF LocateInv, OneCloud
  <2>2. 1 \in 1..Len(pending) /\ CurrentStamp = pending[1]
    BY <1>1, <2>1 DEF CurrentStamp, TypeOK, MapperTypeOK
  <2>3. QED
    BY <1>1, <2>1, <2>2 DEF NotAfterLatest, TypeOK, MapperTypeOK
<1>3. \A id \in SubmapIds : \A stamp \in poseHistory'[id] :
        \/ stamp \in poseHistory[id]
        \/ id = ActiveSubmap /\ stamp = CurrentStamp
  BY <1>1 DEF TypeOK, MapperTypeOK
<1>4. SubmapIds' = SubmapIds
  BY <1>1 DEF SubmapIds
<1>5. OneCloud'
  BY <1>1, <1>2, <1>3, <1>4 DEF LocateInv, OneCloud
<1>6. ASSUME ActiveSubmap \in SubmapIds PROVE Located(ActiveSubmap, CurrentStamp)
  <2>1. PICK s \in DOMAIN timeline : timeline[s] = ActiveSubmap
    BY <1>6 DEF TimelineFollowsCreation
  <2>2. s <= CurrentStamp
    BY <1>1 DEF LocateInv, OneCloud
  <2>3. \A r \in DOMAIN timeline : ~(s < r)
    <3>1. \A r \in DOMAIN timeline : timeline[r] \in SubmapIds
      BY DEF TypeOK, MapperTypeOK
    <3>2. \A i \in SubmapIds : ~(ActiveSubmap < i)
      BY DEF SubmapIds, ActiveSubmap, TypeOK, MapperTypeOK
    <3>3. QED
      BY <2>1, <3>1, <3>2 DEF TimelineFollowsCreation
  <2>4. QED
    BY <2>1, <2>2, <2>3 DEF Located
<1>7. ASSUME NEW id \in SubmapIds, NEW stamp \in poseHistory'[id]
      PROVE  Located(id, stamp)'
  <2>1. Located(id, stamp)
    BY <1>3, <1>6 DEF LocateInv
  <2>2. QED
    BY <1>1, <2>1 DEF Located
<1>8. QED
  BY <1>4, <1>5, <1>7 DEF LocateInv

\* Without nested callbacks and for clouds in order, the timeline gives for the
\* stamp of a cloud the submap that the cloud was integrated into, so a loop
\* closure between two clouds joins the right submaps (voxgraph_mapper.cpp:278).
THEOREM TimelineFindsClouds ==
  ASSUME InOrderClouds, MaxPending = 1 PROVE Spec => []TimelineLocatesClouds
<1>1. Init => LocateInv
  BY DEF Init, EmptyTimeline, LocateInv, OneCloud, SubmapIds
<1>2. TypeInv /\ TimelineInv /\ LocateInv /\ [Next]_vars => LocateInv'
  <2> SUFFICES ASSUME TypeInv, TimelineInv, LocateInv, [Next]_vars
               PROVE  LocateInv'
    OBVIOUS
  <2> USE DEF TypeInv, TimelineInv
  <2>1. CASE UNCHANGED <<pending, latestCloud, size, poseHistory, timeline>>
    BY <2>1 DEF LocateInv, OneCloud, Located, SubmapIds, CurrentStamp
  <2>2. CASE Input
    BY <2>1, <2>2, ReceiveLocates DEF Input, LoopClosureCallback,
       FinishMapCallback, OptimizeGraphCallback, inputVars, collectionVars
  <2>3. CASE SkipPointcloud
    <3>1. pending' = <<>>
      BY <2>3 DEF SkipPointcloud, LocateInv, OneCloud, TypeOK, MapperTypeOK
    <3>2. UNCHANGED <<latestCloud, size, poseHistory, timeline>>
      BY <2>3 DEF SkipPointcloud, collectionVars
    <3>3. QED
      BY <3>1, <3>2 DEF LocateInv, OneCloud, Located, SubmapIds
  <2>4. CASE CallbackStep
    BY <2>1, <2>3, <2>4, CreationLocates, IntegrationLocates DEF CallbackStep,
       UpdateToTime, WaitForOptimization, SwitchFinish, RegistrationDrop,
       RegistrationOverlap, LaunchOptimization, SwitchPublish,
       FinishMapPublish, PublishMaps, LoopClosureFlag, ServiceOptimized,
       inputVars, collectionVars
  <2>5. CASE (\E th \in Thread : OptimizePoseGraph(th)) \/ UNCHANGED vars
    BY <2>1, <2>5 DEF OptimizePoseGraph, vars, inputVars, collectionVars
  <2>6. QED
    BY <2>2, <2>4, <2>5 DEF Next, Still
<1>3. TypeOK /\ LocateInv => TimelineLocatesClouds
  <2> SUFFICES ASSUME TypeOK, LocateInv,
                      NEW id \in SubmapIds, NEW stamp \in poseHistory[id]
               PROVE  /\ HasActiveSubmap(timeline, stamp)
                      /\ ActiveSubmapByTime(timeline, stamp) = id
    BY DEF TimelineLocatesClouds
  <2>1. stamp \in Stamp /\ Located(id, stamp)
    BY DEF LocateInv, TypeOK, MapperTypeOK
  <2>2. QED
    BY <2>1, LookupFindsSubmap
<1>4. QED
  BY <1>1, <1>2, <1>3, TypeInvariant, TypeCorrect, TimelineInvariant, PTL DEF Spec
===============================================================================
