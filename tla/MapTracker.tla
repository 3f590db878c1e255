------------------------------ MODULE MapTracker ------------------------------
(***************************************************************************)
(* Tracking the robot from an odometry topic: the queue of odometry        *)
(* messages and the wait for one (frontend/map_tracker/transformers/       *)
(* odometry_transformer.cpp), the frames of the tracker (map_tracker.cpp)  *)
(* and what the mapper takes from them (voxgraph_mapper.cpp).              *)
(*                                                                         *)
(* All of this runs on the ROS thread.  A pointcloud callback that finds   *)
(* no odometry sleeps and calls spinOnce, in which other callbacks run;    *)
(* the callbacks under way are the stack waiting, innermost first, and     *)
(* only the innermost can go on.  Between two spins nothing interferes, so *)
(* the test of the queue and all that follows it is one step.              *)
(*                                                                         *)
(* Poses are points on a line and transforms are displacements; the roll   *)
(* and pitch that gravityAlignPose removes are taken to be zero.           *)
(***************************************************************************)
EXTENDS Integers, Sequences, FiniteSets

CONSTANTS
  MaxStamp,      \* stamps are 1..MaxStamp
  QueueLength,   \* odometry_queue_length_
  MaxChecks,     \* tests of the queue before transform_lookup_max_time_
  MaxPending     \* bound on the callbacks that wait inside each other

ASSUME TrackerAssumption ==
  /\ MaxStamp \in Nat /\ MaxPending \in Nat
  /\ QueueLength \in Nat \ {0} /\ MaxChecks \in Nat \ {0}

VARIABLES
  odometryQueue,    \* keys of odometry_queue_
  received,         \* history: stamps of all odometry messages
  waiting,          \* pointcloud callbacks in waitForTransform: the stamp,
                    \* and t_waited in retry periods
  latestCloud,      \* stamp of the last cloud that arrived
  currentTimestamp, \* current_timestamp_
  T_O_B, T_S_B,     \* the robot in the odometry and in the submap frame
  T_S_O,            \* initial_T_S_O_
  origins,          \* history: odometry pose at which each submap was made
  poseHistory,      \* set of [submap, stamp, T_S_B]
  odometry,         \* T_S1_S2 of the odometry constraints
  published         \* the odometry pose last sent to TF, with its stamp

vars == <<odometryQueue, received, waiting, latestCloud, currentTimestamp,
          T_O_B, T_S_B, T_S_O, origins, poseHistory, odometry, published>>
frames == <<T_O_B, T_S_B, T_S_O, origins, poseHistory, odometry, published>>

Stamp == 1..MaxStamp

\* No two stretches of the robot's way have the same length.
OdometryPose(stamp) == stamp * stamp

TypeOK ==
  /\ odometryQueue \subseteq received
  /\ received \subseteq Stamp
  /\ waiting \in Seq([stamp : Stamp, checks : 1..MaxChecks])
  /\ latestCloud \in 0..MaxStamp
  /\ currentTimestamp \in 0..MaxStamp
  /\ {T_O_B, T_S_B, T_S_O} \subseteq Int
  /\ origins \in Seq(Int)
  /\ poseHistory \subseteq [submap : 1..Len(origins), stamp : Stamp, T_S_B : Int]
  /\ odometry \in Seq(Int)
  /\ published \in [stamp : 0..MaxStamp, T_O_B : Int]

Init ==
  /\ odometryQueue = {}
  /\ received = {}
  /\ waiting = <<>>
  /\ latestCloud = 0
  /\ currentTimestamp = 0
  /\ T_O_B = 0 /\ T_S_B = 0 /\ T_S_O = 0
  /\ origins = <<>>
  /\ poseHistory = {}
  /\ odometry = <<>>
  /\ published = [stamp |-> 0, T_O_B |-> 0]

First(S) == CHOOSE s \in S : \A r \in S : s <= r
Last(S) == CHOOSE s \in S : \A r \in S : r <= s
NotAfter(S, stamp) == {s \in S : s <= stamp}

-------------------------------------------------------------------------------
(* The odometry queue *)

\* Mutant: the newest message makes room.
DropNewest(queue) ==
  IF Cardinality(queue) >= QueueLength THEN queue \ {Last(queue)} ELSE queue

\* A full queue loses its oldest message.
DropOldest(queue) ==
  IF Cardinality(queue) >= QueueLength THEN queue \ {First(queue)} ELSE queue

\* Odometry arrives in the order of its stamps.
OdometryCallback(stamp) ==
  /\ \A s \in received : s < stamp
  /\ odometryQueue' = DropOldest(odometryQueue) \cup {stamp}
  /\ received' = received \cup {stamp}
  /\ UNCHANGED <<waiting, latestCloud, currentTimestamp, frames>>

\* There is a message after the stamp.
CanTransform(stamp) == \E s \in odometryQueue : stamp < s

-------------------------------------------------------------------------------
(* pointcloudCallback *)

\* MapTracker::switchToNewSubmap.
SwitchFrame(T_B) == T_S_O' = -T_B /\ T_S_B' = T_S_O' + T_B

\* Mutant: the robot's pose in the old submap is read after the switch.
RelativeOdometryAfter(T_S1_B, T_S2_B) == T_S2_B - T_S2_B

\* T_S1_S2 = T_S1_B * T_B_S2.
RelativeOdometry(T_S1_B, T_S2_B) == T_S1_B - T_S2_B

\* The part of switchToNewSubmap that is about poses.
SwitchToNewSubmap(T_B) ==
  /\ SwitchFrame(T_B)
  /\ origins' = Append(origins, T_B)
  /\ odometry' = IF origins = <<>> THEN odometry
                 ELSE Append(odometry, RelativeOdometry(T_S_O + T_B, T_S_B'))

StayInSubmap(T_B) ==
  /\ T_S_B' = T_S_O + T_B
  /\ UNCHANGED <<T_S_O, origins, odometry>>

PublishTFs(stamp) == published' = [stamp |-> stamp, T_O_B |-> T_O_B']

(***************************************************************************)
(* The callback of the cloud goes on with the newest odometry that is not  *)
(* after it.  It ends early when that is no longer in the queue, or, with  *)
(* the frames already moved on, when the sensor calibration is missing.    *)
(* Whether it is time for a new submap is left open.                       *)
(***************************************************************************)
Track(stamp, now) ==
  IF NotAfter(odometryQueue, stamp) = {}
  THEN UNCHANGED frames
  ELSE /\ T_O_B' = OdometryPose(Last(NotAfter(odometryQueue, stamp)))
       /\ \/ /\ T_S_B' = T_S_O + T_O_B'
             /\ UNCHANGED <<T_S_O, origins, odometry, poseHistory, published>>
          \/ /\ \/ SwitchToNewSubmap(T_O_B')
                \/ origins # <<>> /\ StayInSubmap(T_O_B')
             /\ poseHistory' = poseHistory \cup
                  {[submap |-> Len(origins'), stamp |-> stamp, T_S_B |-> T_S_B']}
             /\ PublishTFs(now)

\* updateToTime stores the stamp, and waitForTransform tests the queue.
PointcloudCallback(stamp) ==
  /\ Len(waiting) < MaxPending
  /\ stamp > latestCloud
  /\ latestCloud' = stamp
  /\ currentTimestamp' = stamp
  /\ IF CanTransform(stamp)
     THEN Track(stamp, stamp) /\ UNCHANGED waiting
     ELSE /\ waiting' =
               <<[stamp |-> stamp, checks |-> 1]>> \o waiting
          /\ UNCHANGED frames
  /\ UNCHANGED <<odometryQueue, received>>

\* Mutant: the time spent in a retry is not counted.
UncountedCheck == UNCHANGED waiting

CountCheck == waiting' = [waiting EXCEPT ![1].checks = @ + 1]

\* Mutant: one retry too many.
TimeLeftAtEnd(callback) == callback.checks <= MaxChecks

\* t_waited < transform_lookup_max_time_.
TimeLeft(callback) == callback.checks < MaxChecks

\* The innermost callback comes back from spinOnce with time left.
Retry ==
  /\ waiting # <<>>
  /\ TimeLeft(Head(waiting))
  /\ IF CanTransform(Head(waiting).stamp)
     THEN /\ Track(Head(waiting).stamp, currentTimestamp)
          /\ waiting' = Tail(waiting)
     ELSE CountCheck /\ UNCHANGED frames
  /\ UNCHANGED <<odometryQueue, received, latestCloud, currentTimestamp>>

\* It comes back with no time left, and the cloud is skipped.
GiveUp ==
  /\ waiting # <<>>
  /\ ~TimeLeft(Head(waiting))
  /\ waiting' = Tail(waiting)
  /\ UNCHANGED <<odometryQueue, received, latestCloud, currentTimestamp, frames>>

\* Bound: the stamps are used up.
Quiet ==
  /\ waiting = <<>>
  /\ latestCloud = MaxStamp
  /\ MaxStamp \in received
  /\ UNCHANGED vars

Next ==
  \/ \E stamp \in Stamp : OdometryCallback(stamp)
  \/ \E stamp \in Stamp : PointcloudCallback(stamp)
  \/ Retry
  \/ GiveUp
  \/ Quiet

\* The clock that waitForTransform watches goes on.
Fairness == WF_vars(Retry \/ GiveUp)

Spec == Init /\ [][Next]_vars
FairSpec == Spec /\ Fairness
-------------------------------------------------------------------------------
(* What the tracker promises *)

\* The odometry pose that belongs to a stamp.
PoseAt(stamp) == OdometryPose(Last(NotAfter(received, stamp)))

(***************************************************************************)
(* The pose that a submap's history has for a cloud is where the newest    *)
(* odometry message not after the cloud puts the robot, seen from where    *)
(* the submap was made, whatever callbacks ran while the cloud waited and  *)
(* however many messages the queue has lost since                          *)
(* (odometry_transformer.cpp:24-48, map_tracker.cpp:50).                   *)
(***************************************************************************)
HistoryFollowsOdometry ==
  \A p \in poseHistory :
    /\ NotAfter(received, p.stamp) # {}
    /\ origins[p.submap] + p.T_S_B = PoseAt(p.stamp)

(***************************************************************************)
(* The transform of each odometry constraint is the way from where one     *)
(* submap was made to where the next one was (voxgraph_mapper.cpp:481-498).*)
(***************************************************************************)
OdometryBetweenOrigins ==
  /\ Len(odometry) = (IF origins = <<>> THEN 0 ELSE Len(origins) - 1)
  /\ \A k \in 1..Len(odometry) : odometry[k] = origins[k + 1] - origins[k]

(***************************************************************************)
(* The odometry pose sent to TF is the one that belongs to the stamp it is *)
(* sent with (map_tracker.cpp:32).                                         *)
(***************************************************************************)
TFsMatchStamp ==
  published.stamp = 0 \/ published.T_O_B = PoseAt(published.stamp)

(***************************************************************************)
(* A callback that waits for odometry comes to its end even if none        *)
(* arrives, and so do the ones it interrupted - as long as clouds do not   *)
(* go on arriving without end, for each of them puts the ones before off.  *)
(***************************************************************************)
EveryCallbackReturns == (waiting # <<>>) ~> (waiting = <<>>)
===============================================================================
