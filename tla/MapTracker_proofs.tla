--------------------------- MODULE MapTracker_proofs ---------------------------
(***************************************************************************)
(* Proofs about the tracker, for any number of stamps, any length of the   *)
(* odometry queue, any limit on the wait and any depth of nested callbacks.*)
(***************************************************************************)
EXTENDS MapTracker, SequenceTheorems, WellFoundedInduction, TLAPS

\* A set of stamps that is not empty has a first one.
LEMMA FirstStamp ==
  ASSUME NEW S \in SUBSET Nat, S # {}
  PROVE  First(S) \in S /\ \A r \in S : First(S) <= r
<1>1. PICK x \in S : \A y \in S : <<y, x>> \notin OpToRel(<, Nat)
  BY NatLessThanWellFounded, WFMin, Zenon
<1>2. \A y \in S : ~(y < x)
  BY <1>1, Zenon DEF OpToRel
<1>3. \A y \in S : x <= y
  BY <1>2
<1>4. QED
  BY <1>3, Zenon DEF First

\* It has a last one, for there is a bound on stamps.
LEMMA LastStamp ==
  ASSUME NEW S \in SUBSET Stamp, S # {}
  PROVE  Last(S) \in S /\ \A r \in S : r <= Last(S)
<1> DEFINE R == {MaxStamp - s : s \in S}
<1>0. \A s \in S : MaxStamp - s \in Nat
  BY TrackerAssumption DEF TrackerAssumption, Stamp
<1>1. R \in SUBSET Nat /\ R # {}
  BY <1>0
<1> HIDE DEF R
<1>2. PICK x \in R : \A y \in R : <<y, x>> \notin OpToRel(<, Nat)
  BY <1>1, NatLessThanWellFounded, WFMin, Zenon
<1>3. \A y \in R : ~(y < x)
  BY <1>1, <1>2, Zenon DEF OpToRel
<1>4. PICK s \in S : x = MaxStamp - s
  BY DEF R
<1>5. \A r \in S : r <= s
  <2> SUFFICES ASSUME NEW r \in S PROVE r <= s
    OBVIOUS
  <2>1. MaxStamp - r \in R
    BY DEF R
  <2>2. ~(MaxStamp - r < MaxStamp - s)
    BY <2>1, <1>3, <1>4
  <2>3. QED
    BY <2>2, TrackerAssumption DEF TrackerAssumption, Stamp
<1>6. QED
  BY <1>5, Zenon DEF Last

\* There is one last stamp.
LEMMA LastIsUnique ==
  ASSUME NEW S \in SUBSET Stamp, NEW s \in S, \A r \in S : r <= s
  PROVE  Last(S) = s
<1>1. Last(S) \in S /\ s <= Last(S) /\ Last(S) <= s
  BY LastStamp
<1>2. Last(S) \in Stamp /\ s \in Stamp
  BY <1>1
<1>3. Last(S) \in Int /\ s \in Int
  BY <1>2, TrackerAssumption DEF TrackerAssumption, Stamp
<1>4. QED
  BY <1>1, <1>3

-------------------------------------------------------------------------------
(* The invariant *)

CallbackTypes ==
  /\ odometryQueue \subseteq received
  /\ received \subseteq Stamp
  /\ waiting \in Seq([stamp : Stamp, checks : 1..MaxChecks])
  /\ latestCloud \in 0..MaxStamp
  /\ currentTimestamp \in 0..MaxStamp

FrameTypes ==
  /\ {T_O_B, T_S_B, T_S_O} \subseteq Int
  /\ origins \in Seq(Int)
  /\ poseHistory \subseteq [submap : 1..Len(origins), stamp : Stamp, T_S_B : Int]
  /\ odometry \in Seq(Int)
  /\ published \in [stamp : 0..MaxStamp, T_O_B : Int]

\* The queue has lost none but its oldest messages.
QueueIsNewest == \A s \in received \ odometryQueue, t \in odometryQueue : s < t

\* The robot is seen from where the active submap was made.
FrameAtOrigin == origins # <<>> => T_S_O = -origins[Len(origins)]

\* What arrives later does not belong to a cloud that is in a history.
OdometrySettled == \A p \in poseHistory : \E s \in received : p.stamp < s

FrameInv ==
  /\ FrameTypes
  /\ FrameAtOrigin
  /\ OdometryBetweenOrigins
  /\ OdometrySettled
  /\ HistoryFollowsOdometry

TrackerInv == CallbackTypes /\ QueueIsNewest /\ FrameInv

LEMMA TypesTogether == TypeOK <=> CallbackTypes /\ FrameTypes
BY DEF TypeOK, CallbackTypes, FrameTypes

\* The odometry that the queue has for a stamp is that of all odometry, however
\* much the queue has lost, unless the queue has none.
LEMMA QueueKnowsPose ==
  ASSUME CallbackTypes, QueueIsNewest,
         NEW stamp \in Stamp, NotAfter(odometryQueue, stamp) # {}
  PROVE  /\ Last(NotAfter(odometryQueue, stamp)) \in Stamp
         /\ Last(NotAfter(odometryQueue, stamp)) = Last(NotAfter(received, stamp))
<1> DEFINE Q == NotAfter(odometryQueue, stamp)
           R == NotAfter(received, stamp)
<1>1. Q \in SUBSET Stamp /\ R \in SUBSET Stamp /\ Q \subseteq R /\ Q # {}
  BY DEF NotAfter, CallbackTypes
<1>2. Last(Q) \in Q /\ \A r \in Q : r <= Last(Q)
  BY <1>1, LastStamp
<1>3. ASSUME NEW r \in R PROVE r <= Last(Q)
  <2>1. CASE r \in odometryQueue
    BY <2>1, <1>2 DEF NotAfter
  <2>2. CASE r \notin odometryQueue
    <3>1. r < Last(Q)
      BY <2>2, <1>2 DEF NotAfter, QueueIsNewest
    <3>2. r \in Int /\ Last(Q) \in Int
      BY <1>1, <1>2 DEF Stamp
    <3>3. QED
      BY <3>1, <3>2
  <2>3. QED
    BY <2>1, <2>2
<1>4. QED
  BY <1>1, <1>2, <1>3, LastIsUnique

\* The way between two submaps is what the constraint gets.
LEMMA SwitchAddsOdometry ==
  ASSUME FrameInv, NEW T_B \in Int, SwitchToNewSubmap(T_B)
  PROVE  /\ T_S_B' = 0 /\ T_S_O' = -T_B
         /\ origins' = Append(origins, T_B)
         /\ odometry' \in Seq(Int)
         /\ FrameAtOrigin' /\ OdometryBetweenOrigins'
<1> USE DEF FrameInv, FrameTypes
<1>1. /\ T_S_B' = 0 /\ T_S_O' = -T_B
      /\ origins' = Append(origins, T_B)
      /\ Len(origins') = Len(origins) + 1
      /\ Len(origins) \in Nat
      /\ origins'[Len(origins')] = T_B
      /\ \A k \in 1..Len(origins) : origins'[k] = origins[k]
  BY DEF SwitchToNewSubmap, SwitchFrame
<1>2. FrameAtOrigin'
  BY <1>1 DEF FrameAtOrigin
<1>3. CASE origins = <<>>
  BY <1>1, <1>2, <1>3 DEF SwitchToNewSubmap, OdometryBetweenOrigins
<1>4. CASE origins # <<>>
  <2>1. Len(origins) > 0 /\ Len(odometry) = Len(origins) - 1
    BY <1>1, <1>4 DEF OdometryBetweenOrigins
  <2>2. odometry' = Append(odometry, T_B - origins[Len(origins)])
    <3>1. origins[Len(origins)] \in Int
      BY <2>1, <1>1
    <3>2. (T_S_O + T_B) - T_S_B' = T_B - origins[Len(origins)]
      BY <3>1, <1>1, <1>4 DEF FrameAtOrigin
    <3>3. QED
      BY <3>2, <1>4 DEF SwitchToNewSubmap, RelativeOdometry
  <2>3. /\ odometry' \in Seq(Int)
        /\ Len(odometry') = Len(origins)
        /\ odometry'[Len(origins)] = T_B - origins[Len(origins)]
        /\ \A k \in 1..(Len(origins) - 1) : odometry'[k] = odometry[k]
    BY <2>1, <2>2, <1>1
  <2>4. ASSUME NEW k \in 1..Len(odometry')
        PROVE  odometry'[k] = origins'[k + 1] - origins'[k]
    <3>1. CASE k = Len(origins)
      BY <3>1, <2>1, <2>3, <1>1
    <3>2. CASE k # Len(origins)
      <4>1. k \in 1..(Len(origins) - 1) /\ k \in 1..Len(odometry)
        BY <3>2, <2>1, <2>3, <1>1
      <4>2. k \in 1..Len(origins) /\ k + 1 \in 1..Len(origins)
        BY <4>1, <1>1
      <4>3. odometry'[k] = odometry[k]
        BY <4>1, <2>3
      <4>4. odometry[k] = origins[k + 1] - origins[k]
        BY <4>1 DEF OdometryBetweenOrigins
      <4>5. QED
        BY <4>2, <4>3, <4>4, <1>1
    <3>3. QED
      BY <3>1, <3>2
  <2>5. origins' # <<>>
    <3>1. Len(origins') # 0
      BY <1>1, <2>1
    <3>2. QED
      BY <3>1
  <2>6. Len(odometry') = Len(origins') - 1
    BY <1>1, <2>3
  <2>7. OdometryBetweenOrigins'
    BY <2>4, <2>5, <2>6 DEF OdometryBetweenOrigins
  <2>8. QED
    BY <1>1, <1>2, <2>3, <2>7
<1>5. QED
  BY <1>3, <1>4

\* A callback that goes on puts the robot's pose into the history.
LEMMA TrackKeepsFrames ==
  ASSUME CallbackTypes, QueueIsNewest, FrameInv,
         NEW stamp \in Stamp, NEW now \in 0..MaxStamp,
         CanTransform(stamp), Track(stamp, now), received' = received
  PROVE  FrameInv'
<1> DEFINE T_B == OdometryPose(Last(NotAfter(odometryQueue, stamp)))
<1>1. CASE NotAfter(odometryQueue, stamp) = {}
  BY <1>1 DEF Track, frames, FrameInv, FrameTypes, FrameAtOrigin,
     OdometryBetweenOrigins, OdometrySettled, HistoryFollowsOdometry, PoseAt
<1>2. CASE NotAfter(odometryQueue, stamp) # {}
  <2>1. T_B \in Int /\ T_B = PoseAt(stamp) /\ NotAfter(received, stamp) # {}
    <3>1. NotAfter(odometryQueue, stamp) \subseteq NotAfter(received, stamp)
      BY DEF CallbackTypes, NotAfter
    <3>2. \A s \in Stamp : OdometryPose(s) \in Int
      BY TrackerAssumption DEF TrackerAssumption, Stamp, OdometryPose
    <3>3. QED
      BY <1>2, <3>1, <3>2, QueueKnowsPose DEF PoseAt
  <2>2. T_O_B' = T_B
    BY <1>2 DEF Track
  <2> HIDE DEF T_B
  <2>3. CASE /\ T_S_B' = T_S_O + T_O_B'
             /\ UNCHANGED <<T_S_O, origins, odometry, poseHistory, published>>
    <3>1. T_O_B' \in Int /\ T_S_B' \in Int
      BY <2>1, <2>2, <2>3 DEF FrameInv, FrameTypes
    <3>2. FrameTypes'
      BY <2>3, <3>1 DEF FrameInv, FrameTypes
    <3>3. FrameAtOrigin' /\ OdometryBetweenOrigins' /\ OdometrySettled'
      BY <2>3 DEF FrameInv, FrameAtOrigin, OdometryBetweenOrigins, OdometrySettled
    <3>4. HistoryFollowsOdometry'
      BY <2>3 DEF FrameInv, HistoryFollowsOdometry, PoseAt
    <3>5. QED
      BY <3>2, <3>3, <3>4 DEF FrameInv
  <2>4. ASSUME SwitchToNewSubmap(T_B) \/ (origins # <<>> /\ StayInSubmap(T_B)),
               poseHistory' = poseHistory \cup
                 {[submap |-> Len(origins'), stamp |-> stamp, T_S_B |-> T_S_B']},
               PublishTFs(now)
        PROVE  FrameInv'
    <3>1. /\ origins' \in Seq(Int) /\ odometry' \in Seq(Int)
          /\ T_S_B' \in Int /\ T_S_O' \in Int
          /\ Len(origins') \in 1..Len(origins')
          /\ Len(origins) <= Len(origins')
          /\ \A k \in 1..Len(origins) : origins'[k] = origins[k]
          /\ origins'[Len(origins')] + T_S_B' = T_B
          /\ FrameAtOrigin' /\ OdometryBetweenOrigins'
      <4>1. CASE SwitchToNewSubmap(T_B)
        <5>1. /\ T_S_B' = 0 /\ T_S_O' = -T_B
              /\ origins' = Append(origins, T_B)
              /\ odometry' \in Seq(Int)
              /\ FrameAtOrigin' /\ OdometryBetweenOrigins'
          BY <2>1, <4>1, SwitchAddsOdometry
        <5>2. origins \in Seq(Int)
          BY DEF FrameInv, FrameTypes
        <5>3. /\ origins' \in Seq(Int)
              /\ Len(origins') = Len(origins) + 1 /\ Len(origins) \in Nat
              /\ \A k \in 1..Len(origins) : origins'[k] = origins[k]
              /\ origins'[Len(origins')] = T_B
          BY <5>1, <5>2, <2>1
        <5>4. T_S_B' \in Int /\ T_S_O' \in Int
          BY <5>1, <2>1
        <5>5. origins'[Len(origins')] + T_S_B' = T_B
          BY <5>1, <5>3, <2>1
        <5>6. /\ Len(origins') \in 1..Len(origins')
              /\ Len(origins) <= Len(origins')
          BY <5>3
        <5>7. QED
          BY <5>1, <5>3, <5>4, <5>5, <5>6
      <4>2. CASE origins # <<>> /\ StayInSubmap(T_B)
        <5>1. origins \in Seq(Int) /\ odometry \in Seq(Int)
          BY DEF FrameInv, FrameTypes
        <5>2. Len(origins) \in 1..Len(origins) /\ origins[Len(origins)] \in Int
          BY <4>2, <5>1
        <5>3. T_S_O = -origins[Len(origins)]
          BY <4>2 DEF FrameInv, FrameAtOrigin
        <5>4. /\ origins' = origins /\ odometry' = odometry /\ T_S_O' = T_S_O
              /\ T_S_B' = T_S_O + T_B
          BY <4>2 DEF StayInSubmap
        <5>5. FrameAtOrigin' /\ OdometryBetweenOrigins'
          BY <5>4 DEF FrameInv, FrameAtOrigin, OdometryBetweenOrigins
        <5>6. T_S_B' \in Int /\ T_S_O' \in Int
          BY <2>1, <5>2, <5>3, <5>4
        <5>7. origins[Len(origins)] + T_S_B' = T_B
          BY <2>1, <5>2, <5>3, <5>4
        <5>8. Len(origins) <= Len(origins)
          BY <5>2
        <5>9. QED
          BY <5>1, <5>2, <5>4, <5>5, <5>6, <5>7, <5>8, Zenon
      <4>3. QED
        BY <2>4, <4>1, <4>2
    <3> DEFINE new == [submap |-> Len(origins'), stamp |-> stamp,
                       T_S_B |-> T_S_B']
    <3>2. FrameTypes'
      <4>1. \A p \in poseHistory' :
              p \in [submap : 1..Len(origins'), stamp : Stamp, T_S_B : Int]
        <5>1. Len(origins) \in Nat /\ Len(origins') \in Nat
          BY <3>1 DEF FrameInv, FrameTypes
        <5>2. \A p \in poseHistory :
                p \in [submap : 1..Len(origins'), stamp : Stamp, T_S_B : Int]
          BY <3>1, <5>1 DEF FrameInv, FrameTypes
        <5>3. new \in [submap : 1..Len(origins'), stamp : Stamp, T_S_B : Int]
          BY <3>1
        <5>4. QED
          BY <2>4, <5>2, <5>3
      <4>2. published' \in [stamp : 0..MaxStamp, T_O_B : Int]
        BY <2>1, <2>2, <2>4 DEF PublishTFs
      <4>3. QED
        BY <2>1, <2>2, <3>1, <4>1, <4>2 DEF FrameTypes
    <3>3. OdometrySettled'
      <4>1. \E s \in received : stamp < s
        BY DEF CanTransform, CallbackTypes
      <4>2. QED
        BY <2>4, <4>1 DEF FrameInv, OdometrySettled
    <3>4. HistoryFollowsOdometry'
      <4>1. ASSUME NEW p \in poseHistory
            PROVE  /\ NotAfter(received', p.stamp) # {}
                   /\ origins'[p.submap] + p.T_S_B = PoseAt(p.stamp)'
        <5>1. p.submap \in 1..Len(origins)
          BY DEF FrameInv, FrameTypes
        <5>2. QED
          BY <3>1, <5>1 DEF FrameInv, HistoryFollowsOdometry, PoseAt
      <4>2. /\ NotAfter(received', new.stamp) # {}
            /\ origins'[new.submap] + new.T_S_B = PoseAt(new.stamp)'
        BY <2>1, <3>1 DEF PoseAt
      <4>3. QED
        BY <2>4, <4>1, <4>2 DEF HistoryFollowsOdometry
    <3>5. QED
      BY <3>1, <3>2, <3>3, <3>4 DEF FrameInv
  <2>5. QED
    BY <1>2, <2>2, <2>3, <2>4 DEF Track
<1>3. QED
  BY <1>1, <1>2

-------------------------------------------------------------------------------
(* The theorems *)

\* Odometry that arrives belongs to none of the clouds of the past.
LEMMA ArrivalKeepsFrames ==
  ASSUME CallbackTypes, FrameInv, NEW stamp \in Stamp,
         \A s \in received : s < stamp, received' = received \cup {stamp},
         UNCHANGED frames
  PROVE  FrameInv'
<1>1. FrameTypes' /\ FrameAtOrigin' /\ OdometryBetweenOrigins'
  BY DEF FrameInv, frames, FrameTypes, FrameAtOrigin, OdometryBetweenOrigins
<1>2. OdometrySettled'
  BY DEF FrameInv, frames, OdometrySettled
<1>3. ASSUME NEW p \in poseHistory
      PROVE  NotAfter(received', p.stamp) = NotAfter(received, p.stamp)
  <2>1. PICK s \in received : p.stamp < s
    BY DEF FrameInv, OdometrySettled
  <2>2. p.stamp \in Int /\ s \in Int /\ stamp \in Int
    BY TrackerAssumption
       DEF FrameInv, FrameTypes, CallbackTypes, Stamp, TrackerAssumption
  <2>3. ~(stamp <= p.stamp)
    BY <2>1, <2>2
  <2>4. QED
    BY <2>3 DEF NotAfter
<1>4. HistoryFollowsOdometry'
  BY <1>3 DEF FrameInv, frames, HistoryFollowsOdometry, PoseAt
<1>5. QED
  BY <1>1, <1>2, <1>4 DEF FrameInv

\* A queue that makes room keeps its newest messages.
LEMMA ArrivalKeepsNewest ==
  ASSUME CallbackTypes, QueueIsNewest, NEW stamp \in Stamp,
         \A s \in received : s < stamp, received' = received \cup {stamp},
         odometryQueue' = DropOldest(odometryQueue) \cup {stamp}
  PROVE  odometryQueue' \subseteq received' /\ QueueIsNewest'
<1>1. /\ DropOldest(odometryQueue) \subseteq odometryQueue
      /\ odometryQueue \subseteq received /\ received \subseteq Stamp
  BY DEF DropOldest, CallbackTypes
<1>2. Stamp \subseteq Nat
  BY TrackerAssumption DEF TrackerAssumption, Stamp
<1>3. ASSUME NEW s \in odometryQueue, s \notin DropOldest(odometryQueue),
             NEW t \in DropOldest(odometryQueue)
      PROVE  s < t
  <2>1. s = First(odometryQueue) /\ t # s
    BY <1>3 DEF DropOldest
  <2>2. s <= t
    BY <2>1, <1>1, <1>2, FirstStamp
  <2>3. s \in Nat /\ t \in Nat
    BY <1>1, <1>2
  <2>4. QED
    BY <2>1, <2>2, <2>3
<1>4. ASSUME NEW s \in received' \ odometryQueue', NEW t \in odometryQueue'
      PROVE  s < t
  <2>1. s \in received /\ s \notin DropOldest(odometryQueue)
    BY <1>4
  <2>2. CASE t = stamp
    BY <2>1, <2>2
  <2>3. CASE t \in DropOldest(odometryQueue)
    BY <2>1, <2>3, <1>1, <1>3 DEF QueueIsNewest
  <2>4. QED
    BY <2>2, <2>3
<1>5. QED
  BY <1>1, <1>4 DEF QueueIsNewest

\* Callbacks come, go on and end as the types say.
LEMMA InvIsInductive ==
  /\ Init => TrackerInv
  /\ TrackerInv /\ [Next]_vars => TrackerInv'
<1>1. Init => TrackerInv
  BY TrackerAssumption DEF Init, TrackerInv, CallbackTypes, QueueIsNewest,
     FrameInv, FrameTypes, FrameAtOrigin, OdometryBetweenOrigins,
     OdometrySettled, HistoryFollowsOdometry, TrackerAssumption
<1>2. ASSUME TrackerInv, [Next]_vars PROVE TrackerInv'
  <2> USE <1>2 DEF TrackerInv
  <2> DEFINE Callback == [stamp : Stamp, checks : 1..MaxChecks]
  <2>0. /\ waiting \in Seq(Callback)
        /\ MaxStamp \in Nat /\ MaxChecks \in Nat \ {0}
    BY TrackerAssumption DEF CallbackTypes, TrackerAssumption
  <2>1. ASSUME NEW stamp \in Stamp, OdometryCallback(stamp)
        PROVE  TrackerInv'
    <3>1. odometryQueue' \subseteq received' /\ QueueIsNewest'
      BY <2>1, ArrivalKeepsNewest DEF OdometryCallback
    <3>2. FrameInv'
      BY <2>1, ArrivalKeepsFrames DEF OdometryCallback
    <3>3. CallbackTypes'
      BY <2>1, <3>1 DEF OdometryCallback, CallbackTypes
    <3>4. QED
      BY <3>1, <3>2, <3>3
  <2>2. ASSUME NEW stamp \in Stamp, PointcloudCallback(stamp)
        PROVE  TrackerInv'
    <3>1. FrameInv'
      <4>1. stamp \in 0..MaxStamp
        BY <2>0 DEF Stamp
      <4>2. CASE CanTransform(stamp)
        BY <2>2, <4>1, <4>2, TrackKeepsFrames DEF PointcloudCallback
      <4>3. CASE ~CanTransform(stamp)
        BY <2>2, <4>3 DEF PointcloudCallback, frames, FrameInv, FrameTypes,
           FrameAtOrigin, OdometryBetweenOrigins, OdometrySettled,
           HistoryFollowsOdometry, PoseAt
      <4>4. QED
        BY <4>2, <4>3
    <3>2. waiting' \in Seq(Callback)
      <4>1. [stamp |-> stamp, checks |-> 1] \in Callback
        BY <2>0
      <4>2. <<[stamp |-> stamp, checks |-> 1]>> \o waiting \in Seq(Callback)
        BY <2>0, <4>1
      <4>3. QED
        BY <2>2, <2>0, <4>2 DEF PointcloudCallback
    <3>3. CallbackTypes' /\ QueueIsNewest'
      BY <2>2, <2>0, <3>2 DEF PointcloudCallback, CallbackTypes, QueueIsNewest, Stamp
    <3>4. QED
      BY <3>1, <3>3
  <2>3. ASSUME Retry PROVE TrackerInv'
    <3>1. /\ Head(waiting) \in Callback /\ Tail(waiting) \in Seq(Callback)
          /\ waiting[1] = Head(waiting) /\ 1 \in DOMAIN waiting
      <4>1. waiting # <<>>
        BY <2>3 DEF Retry
      <4> HIDE DEF Callback
      <4>2. QED
        BY <2>0, <4>1
    <3>2. FrameInv'
      <4>1. Head(waiting).stamp \in Stamp
        BY <3>1
      <4>2. CASE CanTransform(Head(waiting).stamp)
        BY <2>3, <4>1, <4>2, TrackKeepsFrames DEF Retry, CallbackTypes
      <4>3. CASE ~CanTransform(Head(waiting).stamp)
        BY <2>3, <4>3 DEF Retry, frames, FrameInv, FrameTypes,
           FrameAtOrigin, OdometryBetweenOrigins, OdometrySettled,
           HistoryFollowsOdometry, PoseAt
      <4>4. QED
        BY <4>2, <4>3
    <3>3. waiting' \in Seq(Callback)
      <4>1. CASE waiting' = Tail(waiting)
        BY <3>1, <4>1
      <4>2. CASE CountCheck
        <5>1. Head(waiting).checks + 1 \in 1..MaxChecks
          BY <2>0, <2>3, <3>1 DEF Retry, TimeLeft
        <5>2. [waiting[1] EXCEPT !.checks = @ + 1] \in Callback
          BY <3>1, <5>1
        <5>3. QED
          BY <2>0, <3>1, <4>2, <5>2 DEF CountCheck
      <4>3. QED
        BY <2>3, <4>1, <4>2 DEF Retry
    <3>4. CallbackTypes' /\ QueueIsNewest'
      BY <2>3, <3>3 DEF Retry, CallbackTypes, QueueIsNewest
    <3>5. QED
      BY <3>2, <3>4
  <2>4. CASE UNCHANGED <<odometryQueue, received, latestCloud, currentTimestamp,
                         frames>> /\ waiting' \in Seq(Callback)
    BY <2>4 DEF CallbackTypes, QueueIsNewest, frames, FrameInv, FrameTypes,
       FrameAtOrigin, OdometryBetweenOrigins, OdometrySettled,
       HistoryFollowsOdometry, PoseAt
  <2>5. ASSUME GiveUp PROVE TrackerInv'
    BY <2>0, <2>4, <2>5 DEF GiveUp
  <2>6. CASE UNCHANGED vars
    BY <2>0, <2>4, <2>6 DEF vars, frames
  <2>7. QED
    BY <2>1, <2>2, <2>3, <2>5, <2>6 DEF Next, Quiet
<1>3. QED
  BY <1>1, <1>2

\* Every variable of the tracker keeps its type; in particular no callback
\* tests the queue more often than the limit on the wait allows.
THEOREM TypeCorrect == Spec => []TypeOK
<1>1. TrackerInv => TypeOK
  BY TypesTogether DEF TrackerInv, FrameInv
<1>2. QED
  BY <1>1, InvIsInductive, PTL DEF Spec

\* The poses in the histories are those of the odometry, whatever callbacks ran
\* while a cloud waited and whatever the queue has lost.
THEOREM HistoryIsOdometry == Spec => []HistoryFollowsOdometry
<1>1. TrackerInv => HistoryFollowsOdometry
  BY DEF TrackerInv, FrameInv
<1>2. QED
  BY <1>1, InvIsInductive, PTL DEF Spec

\* Odometry constraints join the places where submaps were made.
THEOREM OdometryJoinsOrigins == Spec => []OdometryBetweenOrigins
<1>1. TrackerInv => OdometryBetweenOrigins
  BY DEF TrackerInv, FrameInv
<1>2. QED
  BY <1>1, InvIsInductive, PTL DEF Spec
-------------------------------------------------------------------------------
(* The stamps of the poses sent to TF *)

\* A callback that waits is the only one, and the stored stamp is its own.  What
\* has been sent is settled, as the histories are.
StampInv ==
  /\ Len(waiting) <= 1
  /\ waiting # <<>> => currentTimestamp = Head(waiting).stamp
  /\ published.stamp # 0 => \E s \in received : published.stamp < s
  /\ TFsMatchStamp

\* A callback that goes on with its own stamp sends the pose of that stamp.
LEMMA TrackSendsPose ==
  ASSUME CallbackTypes, QueueIsNewest, StampInv, NEW stamp \in Stamp,
         CanTransform(stamp), Track(stamp, stamp), received' = received
  PROVE  /\ published'.stamp # 0 => \E s \in received' : published'.stamp < s
         /\ TFsMatchStamp'
<1>1. CASE UNCHANGED published
  BY <1>1 DEF StampInv, TFsMatchStamp, PoseAt
<1>2. CASE NotAfter(odometryQueue, stamp) # {} /\ PublishTFs(stamp)
  <2>1. /\ published' = [stamp |-> stamp, T_O_B |-> T_O_B']
        /\ T_O_B' = PoseAt(stamp)
    BY <1>2, QueueKnowsPose DEF Track, PublishTFs, PoseAt
  <2>2. \E s \in received : stamp < s
    BY DEF CanTransform, CallbackTypes
  <2>3. QED
    BY <2>1, <2>2 DEF TFsMatchStamp, PoseAt
<1>3. QED
  BY <1>1, <1>2 DEF Track, frames

\* Odometry that arrives later does not belong to what has been sent.
LEMMA ArrivalKeepsStamps ==
  ASSUME TrackerInv, StampInv, NEW stamp \in Stamp, OdometryCallback(stamp)
  PROVE  StampInv'
<1>1. UNCHANGED <<waiting, currentTimestamp, published>>
  BY DEF OdometryCallback, frames
<1>2. received' = received \cup {stamp} /\ \A s \in received : s < stamp
  BY DEF OdometryCallback
<1>3. ASSUME published.stamp # 0
      PROVE  NotAfter(received', published.stamp)
               = NotAfter(received, published.stamp)
  <2>1. PICK s \in received : published.stamp < s
    BY <1>3 DEF StampInv
  <2>2. published.stamp \in Int /\ s \in Int /\ stamp \in Int
    BY TrackerAssumption DEF TrackerInv, FrameInv, FrameTypes, CallbackTypes,
       Stamp, TrackerAssumption
  <2>3. ~(stamp <= published.stamp)
    BY <1>2, <2>1, <2>2
  <2>4. QED
    BY <1>2, <2>3 DEF NotAfter
<1>4. TFsMatchStamp'
  BY <1>1, <1>3 DEF StampInv, TFsMatchStamp, PoseAt
<1>5. QED
  BY <1>1, <1>2, <1>4 DEF StampInv

\* While callbacks do not nest, the stamp stored by updateToTime is still that
\* of the callback when it goes on, so the poses sent to TF have their own
\* stamps: what goes wrong with them takes a callback inside another.
THEOREM StampsMatchWithoutNesting ==
  ASSUME MaxPending <= 1 PROVE Spec => []TFsMatchStamp
<1>1. Init => StampInv
  BY DEF Init, StampInv, TFsMatchStamp
<1>2. TrackerInv /\ StampInv /\ [Next]_vars => StampInv'
  <2> SUFFICES ASSUME TrackerInv, StampInv, [Next]_vars PROVE StampInv'
    OBVIOUS
  <2> DEFINE Callback == [stamp : Stamp, checks : 1..MaxChecks]
  <2>0. waiting \in Seq(Callback) /\ Len(waiting) \in Nat /\ MaxPending \in Nat
    BY TrackerAssumption DEF TrackerInv, CallbackTypes, TrackerAssumption
  <2>1. ASSUME NEW stamp \in Stamp, PointcloudCallback(stamp)
        PROVE  StampInv'
    <3>1. waiting = <<>>
      BY <2>0, <2>1 DEF PointcloudCallback
    <3>2. CASE CanTransform(stamp)
      <4>1. /\ published'.stamp # 0 =>
                 \E s \in received' : published'.stamp < s
            /\ TFsMatchStamp'
        BY <2>1, <3>2, TrackSendsPose DEF PointcloudCallback, TrackerInv
      <4>2. QED
        BY <2>1, <3>1, <3>2, <4>1 DEF PointcloudCallback, StampInv
    <3>3. CASE ~CanTransform(stamp)
      <4>1. waiting' = <<[stamp |-> stamp, checks |-> 1]>>
        BY <2>1, <3>1, <3>3 DEF PointcloudCallback
      <4>2. Len(waiting') = 1 /\ Head(waiting').stamp = stamp
        BY <4>1
      <4>3. currentTimestamp' = stamp /\ UNCHANGED <<received, published>>
        BY <2>1, <3>3 DEF PointcloudCallback, frames
      <4>4. QED
        BY <4>2, <4>3 DEF StampInv, TFsMatchStamp, PoseAt
    <3>4. QED
      BY <3>2, <3>3
  <2>2. ASSUME waiting # <<>> PROVE /\ Len(waiting) = 1
                                    /\ Tail(waiting) = <<>>
                                    /\ Head(waiting) \in Callback
                                    /\ waiting[1] = Head(waiting)
    <3> HIDE DEF Callback
    <3>1. Len(waiting) = 1
      <4> DEFINE length == Len(waiting)
      <4>1. length \in Nat \ {0}
        BY ONLY <2>0, <2>2, EmptySeq
      <4>2. length <= 1
        BY DEF StampInv
      <4> HIDE DEF length
      <4>3. length = 1
        BY <4>1, <4>2
      <4>4. QED
        BY <4>3 DEF length
    <3>2. Head(waiting) \in Callback /\ waiting[1] = Head(waiting)
      BY <2>0, <2>2, HeadTailProperties
    <3>3. Tail(waiting) \in Seq(Callback) /\ Len(Tail(waiting)) = 0
      BY <2>0, <2>2, <3>1, HeadTailProperties
    <3>4. Tail(waiting) = <<>>
      BY <3>3, EmptySeq
    <3>5. QED
      BY <3>1, <3>2, <3>4
  <2>3. ASSUME Retry PROVE StampInv'
    <3>1. CASE CanTransform(Head(waiting).stamp)
      <4>1. /\ Head(waiting).stamp \in Stamp
            /\ currentTimestamp = Head(waiting).stamp
            /\ waiting' = <<>>
        BY <2>2, <2>3, <3>1 DEF Retry, StampInv
      <4>2. Track(Head(waiting).stamp, Head(waiting).stamp)
        BY <2>3, <3>1, <4>1 DEF Retry
      <4>3. /\ published'.stamp # 0 =>
                 \E s \in received' : published'.stamp < s
            /\ TFsMatchStamp'
        BY <2>3, <3>1, <4>1, <4>2, TrackSendsPose DEF Retry, TrackerInv
      <4>4. QED
        BY <4>1, <4>3 DEF StampInv
    <3>2. CASE ~CanTransform(Head(waiting).stamp)
      <4>1. CountCheck /\ UNCHANGED <<received, currentTimestamp, published>>
        BY <2>3, <3>2 DEF Retry, frames
      <4>2. waiting # <<>>
        BY <2>3 DEF Retry
      <4>3. Len(waiting') = 1 /\ Head(waiting').stamp = Head(waiting).stamp
        BY <2>0, <2>2, <4>1, <4>2 DEF CountCheck
      <4>4. QED
        BY <4>1, <4>2, <4>3 DEF StampInv, TFsMatchStamp, PoseAt
    <3>3. QED
      BY <3>1, <3>2
  <2>4. ASSUME GiveUp PROVE StampInv'
    <3>1. waiting' = <<>> /\ UNCHANGED <<received, published>>
      BY <2>2, <2>4 DEF GiveUp, frames
    <3>2. QED
      BY <3>1 DEF StampInv, TFsMatchStamp, PoseAt
  <2>5. CASE UNCHANGED vars
    BY <2>5 DEF vars, StampInv, TFsMatchStamp, PoseAt
  <2>6. QED
    BY <2>1, <2>3, <2>4, <2>5, ArrivalKeepsStamps DEF Next, Quiet
<1>3. StampInv => TFsMatchStamp
  BY DEF StampInv
<1>4. QED
  BY <1>1, <1>2, <1>3, InvIsInductive, PTL DEF Spec
===============================================================================
