---------------------------- MODULE VoxgraphSubmap ----------------------------
(***************************************************************************)
(* The submaps of the collection, with the members that finishSubmap       *)
(* caches (frontend/submap_collection/voxgraph_submap.cpp) and the test    *)
(* for overlap that decides which pairs get registration constraints.      *)
(*                                                                         *)
(* Space has one dimension and is cut into blocks.  Of a TSDF the model    *)
(* keeps which blocks are allocated and which of them the surface passes   *)
(* through: such a block holds voxels inside the truncation band and       *)
(* isosurface vertices.  A pose is a whole number of blocks, so going from *)
(* one submap's blocks to another's needs no rounding.                     *)
(***************************************************************************)
EXTENDS Integers

CONSTANTS
  MaxSubmaps,     \* bound on the number of submaps
  Extent,         \* clouds reach the blocks 1..Extent of a new submap
  MaxClouds,      \* bound on the clouds integrated into a submap
  PoseValues,     \* poses of submaps in the mission frame
  FinishMap,      \* finish_map is called
  Shifts          \* transforms that transformSubmap is called with

ASSUME SubmapAssumption ==
  /\ MaxSubmaps \in Nat /\ Extent \in Nat /\ MaxClouds \in Nat
  /\ PoseValues \subseteq Int /\ Shifts \subseteq Int
  /\ FinishMap \in BOOLEAN

VARIABLES
  switching,           \* inside switchToNewSubmap, before the new submap
  size,                \* number of submaps; the last one is active
  tsdf,                \* allocated blocks and surface blocks of each submap
  clouds,              \* number of poses in the pose history
  pose,                \* T_M_S
  finished,            \* finished_
  esdf,                \* blocks of the ESDF
  surfaceObb,          \* surface_obb_
  mapObb,              \* map_obb_
  registrationPoints,  \* blocks of relevant_voxels_ and isosurface_vertices_
  isosurfaceBlocks,    \* isosurface_blocks_
  mappingInterval      \* mapping_interval_, as positions in the history

cached == <<finished, esdf, surfaceObb, mapObb, registrationPoints,
            isosurfaceBlocks, mappingInterval>>
vars == <<switching, size, tsdf, clouds, pose, cached>>

SubmapIds == 0..size-1
ActiveSubmap == size - 1
Tsdf == [blocks : SUBSET Int, surface : SUBSET Int]
Maps == {map \in [blocks : SUBSET (1..Extent), surface : SUBSET (1..Extent)] :
           map.surface \subseteq map.blocks}

\* The +/- Inf box of a BoundingBox that has not been measured.
NoBox == <<>>
Box == {NoBox} \cup (Int \X Int)

TypeOK ==
  /\ switching \in BOOLEAN
  /\ size \in 0..MaxSubmaps
  /\ tsdf \in [SubmapIds -> Tsdf]
  /\ clouds \in [SubmapIds -> 0..MaxClouds]
  /\ pose \in [SubmapIds -> Int]
  /\ finished \in [SubmapIds -> BOOLEAN]
  /\ esdf \in [SubmapIds -> SUBSET Int]
  /\ surfaceObb \in [SubmapIds -> Box]
  /\ mapObb \in [SubmapIds -> Box]
  /\ registrationPoints \in [SubmapIds -> SUBSET Int]
  /\ isosurfaceBlocks \in [SubmapIds -> SUBSET Int]
  /\ mappingInterval \in [SubmapIds -> (0..MaxClouds) \X (0..MaxClouds)]

\* A function on the ids that has one more of them.
With(f, id, value) ==
  [i \in DOMAIN f \cup {id} |-> IF i = id THEN value ELSE f[i]]

Init ==
  /\ switching = TRUE
  /\ size = 0
  /\ tsdf = [id \in {} |-> {}]
  /\ clouds = [id \in {} |-> 0]
  /\ pose = [id \in {} |-> 0]
  /\ finished = [id \in {} |-> FALSE]
  /\ esdf = [id \in {} |-> {}]
  /\ surfaceObb = [id \in {} |-> NoBox]
  /\ mapObb = [id \in {} |-> NoBox]
  /\ registrationPoints = [id \in {} |-> {}]
  /\ isosurfaceBlocks = [id \in {} |-> {}]
  /\ mappingInterval = [id \in {} |-> <<0, 0>>]

-------------------------------------------------------------------------------
(* Bounding boxes *)

BoxAround(blocks) ==
  IF blocks = {} THEN NoBox
  ELSE <<CHOOSE b \in blocks : \A c \in blocks : b <= c,
         CHOOSE b \in blocks : \A c \in blocks : c <= b>>

\* The getters of the boxes measure a box once.
Measured(box, blocks) == IF box = NoBox THEN BoxAround(blocks) ELSE box

\* Mutant: boxes that share one block only are apart.
BarelyApart(box, other) == box[2] <= other[1] \/ box[1] >= other[2]

\* A separation along the axis.
Apart(box, other) == box[2] < other[1] \/ box[1] > other[2]

\* getAabbFromObbAndPose of a box that was measured.
MissionAabb(id, obb) == <<obb[1] + pose[id], obb[2] + pose[id]>>

\* The corners of a box that was never measured are infinite, and no number once
\* they are moved: nothing is taken into its AABB, which is apart from all others.
SurfacesApart(a, b) ==
  LET boxA == Measured(surfaceObb[a], tsdf[a].surface)
      boxB == Measured(surfaceObb[b], tsdf[b].surface)
  IN  \/ boxA = NoBox
      \/ boxB = NoBox
      \/ Apart(MissionAabb(a, boxA), MissionAabb(b, boxB))

\* The block of b at the place of a block of a.
BlockIn(block, a, b) == block + pose[a] - pose[b]

OverlapsWith(a, b) ==
  /\ ~SurfacesApart(a, b)
  /\ \E block \in isosurfaceBlocks[a] : BlockIn(block, a, b) \in tsdf[b].blocks

-------------------------------------------------------------------------------
(* Operations *)

\* Mutant: a sampler is not cleared before it is filled.
Appended(points, found) == points \cup found

\* The samplers are cleared and filled.
Refilled(points, found) == found

\* Mutant: end() is taken for the last element.
IntervalPastEnd(poses) == <<1, poses + 1>>

\* getStartTime and getEndTime.
Interval(poses) == IF poses = 0 THEN <<0, 0>> ELSE <<1, poses>>

(***************************************************************************)
(* finishSubmap of a submap that has the TSDF map and the boxes given.     *)
(* The ESDF and the samplers are made anew; a box that has been measured   *)
(* stays as it is, and blocks are only ever added to isosurface_blocks_.   *)
(***************************************************************************)
FinishSubmap(id, map, surfaceBox, mapBox) ==
  /\ esdf' = [esdf EXCEPT ![id] = map.blocks]
  /\ mapObb' = [mapObb EXCEPT ![id] = Measured(mapBox, map.blocks)]
  /\ surfaceObb' = [surfaceObb EXCEPT ![id] = Measured(surfaceBox, map.surface)]
  /\ registrationPoints' =
       [registrationPoints EXCEPT ![id] = Refilled(@, map.surface)]
  /\ isosurfaceBlocks' = [isosurfaceBlocks EXCEPT ![id] = @ \cup map.surface]
  /\ mappingInterval' = [mappingInterval EXCEPT ![id] = Interval(clouds[id])]
  /\ finished' = [finished EXCEPT ![id] = TRUE]

FinishActiveSubmap ==
  FinishSubmap(ActiveSubmap, tsdf[ActiveSubmap],
               surfaceObb[ActiveSubmap], mapObb[ActiveSubmap])

(***************************************************************************)
(* A cloud allocates blocks and moves the surface, and its pose is added   *)
(* to the history.                                                         *)
(***************************************************************************)
IntegratePointcloud(blocks, surface) ==
  /\ ~switching
  /\ clouds[ActiveSubmap] < MaxClouds
  /\ tsdf[ActiveSubmap].blocks \subseteq blocks
  /\ tsdf' = [tsdf EXCEPT ![ActiveSubmap] =
                [blocks |-> blocks, surface |-> surface]]
  /\ clouds' = [clouds EXCEPT ![ActiveSubmap] = @ + 1]
  /\ UNCHANGED <<switching, size, pose, cached>>

\* switchToNewSubmap finishes the active submap; then it looks for overlaps.
SwitchToNewSubmap ==
  /\ ~switching
  /\ switching' = TRUE
  /\ FinishActiveSubmap
  /\ UNCHANGED <<size, tsdf, clouds, pose>>

CreateNewSubmap(T_M_S) ==
  /\ switching
  /\ size < MaxSubmaps
  /\ switching' = FALSE
  /\ size' = size + 1
  /\ tsdf' = With(tsdf, size, [blocks |-> {}, surface |-> {}])
  /\ clouds' = With(clouds, size, 0)
  /\ pose' = With(pose, size, T_M_S)
  /\ finished' = With(finished, size, FALSE)
  /\ esdf' = With(esdf, size, {})
  /\ surfaceObb' = With(surfaceObb, size, NoBox)
  /\ mapObb' = With(mapObb, size, NoBox)
  /\ registrationPoints' = With(registrationPoints, size, {})
  /\ isosurfaceBlocks' = With(isosurfaceBlocks, size, {})
  /\ mappingInterval' = With(mappingInterval, size, <<0, 0>>)

\* finish_map finishes the active submap, and clouds may go on arriving.
FinishMapCallback ==
  /\ FinishMap
  /\ ~switching
  /\ FinishActiveSubmap
  /\ UNCHANGED <<switching, size, tsdf, clouds, pose>>

\* The optimisation gives a submap another pose.
SetSubmapPose(id, T_M_S) ==
  /\ pose' = [pose EXCEPT ![id] = T_M_S]
  /\ UNCHANGED <<switching, size, tsdf, clouds, cached>>

\* Bound: transforms keep the blocks in Reach and the poses in PoseValues.
Reach == (1 - Extent)..(2 * Extent)

Moved(blocks, shift) == {block + shift : block \in blocks}

\* Mutant: the boxes are kept.
KeptBoxes(id) == <<surfaceObb[id], mapObb[id]>>

\* The boxes are reset before the submap is finished again.
ResetBoxes(id) == <<NoBox, NoBox>>

(***************************************************************************)
(* transformSubmap moves the TSDF, resets the boxes, moves the pose the    *)
(* other way and finishes the submap.                                      *)
(***************************************************************************)
TransformSubmap(id, shift) ==
  LET map == [blocks |-> Moved(tsdf[id].blocks, shift),
              surface |-> Moved(tsdf[id].surface, shift)]
      boxes == ResetBoxes(id)
  IN  /\ finished[id]
      /\ map.blocks \subseteq Reach
      /\ pose[id] - shift \in PoseValues
      /\ tsdf' = [tsdf EXCEPT ![id] = map]
      /\ pose' = [pose EXCEPT ![id] = @ - shift]
      /\ FinishSubmap(id, map, boxes[1], boxes[2])
      /\ UNCHANGED <<switching, size, clouds>>

Next ==
  \/ \E map \in Maps : IntegratePointcloud(map.blocks, map.surface)
  \/ SwitchToNewSubmap
  \/ \E T_M_S \in PoseValues : CreateNewSubmap(T_M_S)
  \/ FinishMapCallback
  \/ \E id \in SubmapIds, T_M_S \in PoseValues : SetSubmapPose(id, T_M_S)
  \/ \E id \in SubmapIds, shift \in Shifts : TransformSubmap(id, shift)

Spec == Init /\ [][Next]_vars
-------------------------------------------------------------------------------
(* What the cached members promise *)

\* The submaps that the mapper has moved on from.
Left == IF switching THEN SubmapIds ELSE SubmapIds \ {ActiveSubmap}

(***************************************************************************)
(* Once the mapper has moved on from a submap, what the registration       *)
(* constraints read of it - the ESDF, the sampled points - and the mapping *)
(* interval that is saved are those of all the clouds in it, even if       *)
(* finish_map had it finished before the last of them                      *)
(* (voxgraph_submap.cpp:79-102).                                           *)
(***************************************************************************)
RegistrationDataFresh ==
  \A id \in Left :
    /\ finished[id]
    /\ esdf[id] = tsdf[id].blocks
    /\ registrationPoints[id] = tsdf[id].surface
    /\ mappingInterval[id][2] = clouds[id]

(***************************************************************************)
(* So are its bounding boxes (voxgraph_submap.h:55).                       *)
(***************************************************************************)
BoxesFresh ==
  \A id \in Left :
    /\ surfaceObb[id] = BoxAround(tsdf[id].surface)
    /\ mapObb[id] = BoxAround(tsdf[id].blocks)

\* Where blocks of a submap lie in the mission frame.
InMission(blocks, id) == {block + pose[id] : block \in blocks}

(***************************************************************************)
(* When overlaps are looked for, two submaps with a piece of surface in    *)
(* common overlap whichever comes first, wherever the optimisation has     *)
(* moved them: testing each pair once misses none of these                 *)
(* (voxgraph_submap.cpp:239-272, pose_graph_interface.cpp:130-134).        *)
(***************************************************************************)
SharedSurfaceOverlaps ==
  switching => \A a, b \in SubmapIds :
    /\ a # b
    /\ InMission(tsdf[a].surface, a) \cap InMission(tsdf[b].surface, b) # {}
    => OverlapsWith(a, b)
===============================================================================
