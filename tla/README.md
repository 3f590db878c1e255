# voxgraph in TLA+

A specification of voxgraph, the submap mapper of this repository: modules, TLC
configurations, and proofs for TLAPS. Paths are below `src/voxgraph/`, and
`frontend/`, `backend/`, `tools/` are below its `src/`.

## 1. The system

voxgraph is one ROS node. It cuts the way of a robot into submaps (TSDFs of
voxblox), ties them with odometry, loop closure, height and registration
constraints, and optimises the pose graph whose nodes they are.

| Component | State | Operations | Promise |
| --- | --- | --- | --- |
| mapper, `frontend/voxgraph_mapper.cpp` | the future of the optimisation thread, options | callbacks for clouds and loop closures, services `finish_map`, `optimize_pose_graph` and others that save or publish | a switch to a new submap and the optimisation thread exclude each other; every submap gets optimised |
| pose graph interface, `frontend/pose_graph_interface/` | flag of new loop closures, list of overlapping pairs | add submaps and measurements, update the registration constraints, optimise, write poses back | new loop closures have the next optimisation begin without registration; the collection gets the last poses |
| pose graph, `backend/` | nodes, three constraint lists, the ceres problem, solver summaries | add, reset, initialise, solve | ends of constraints have nodes; what a problem reads does not change under it |
| submap collection and timeline, `frontend/submap_collection/` | submaps, the active one, creation time of each | create, look up by time, previous submap | timeline and collection agree |
| submap, `voxgraph_submap.cpp` | TSDF, ESDF, boxes, registration points, surface blocks, pose history, `finished_` | integrate, finish, transform, overlap test | cached members are those of the finished submap |
| map tracker, `frontend/map_tracker/` | the queue of odometry messages, odometry and submap frames, current stamp | wait for odometry, update, switch, publish TFs | poses and odometry constraints follow the odometry |
| cost functions, sampler, local parameterization, `backend/constraint/cost_functions/`, `weighted_sampler_inl.h`, `local_parameterization/` | registration points with cumulative weights, poses of the nodes | sample points, residuals and Jacobians, solver steps | residuals are what trilinear interpolation and the measurement say; yaws stay normalised |
| data servers, visualisation, `tools/data_servers/`, `tools/visualization/` | list of pairs with edges, detached mesh threads | publish surfaces, projected map, poses, edges with covariances; draw the pose graph | every submap gets published, finished; poses that are written reach the subscribers |
| test bench, `tools/test_benches/`, `tools/submap_registration_helper.cpp` | two submaps, log file | disturb, register, log | trials do not influence each other, a log that is open is complete |
| map evaluation, odometry simulator, io | own | offline | - |

Interaction. `ros::spin` runs all callbacks on one thread, one at a time, but
for an exception: with odometry from a topic, a cloud callback that finds no
odometry sleeps and calls `ros::spinOnce`, which runs other callbacks inside it,
further cloud callbacks included. A switch starts the second thread with
`std::async`; it optimises the pose graph and writes the poses to the collection.
The services optimise too, on the ROS thread. There are no locks: a cloud
callback waits for the future before a switch, and nothing else waits. Each `publishMaps` starts a third kind of thread, detached,
that makes a mesh. The test bench is a program of its own on the same classes.

Hard behaviours: what the two threads do to the pose graph at the same time, the
nested callbacks, submaps finished more than once, clouds and odometry that come
late, state cached by `finishSubmap`, messages built from poses that the other
thread writes, and formulas entered by hand whose mistakes only make a solver
converge worse. `PROJECT.json` lists them under
`hazards` with the lines where they bite.

## 2. Modules

    SubmapTimeline   PoseGraph
           \             |
            \     PoseGraphInterface
             \       /
          VoxgraphMapper --- implements --> OptimizationService
               |      \
      MCVoxgraphMapper  MapOutput --- MCMapOutput

    VoxgraphSubmap --- MCVoxgraphSubmap
    MapTracker
    WeightedSampler --- CostFunctions --- MCCostFunctions
    RegistrationTestBench --- MCRegistrationTestBench

                VoxgraphMapper_proofs              VoxgraphSubmap_proofs
                 /                \                MapTracker_proofs
      VoxgraphMapper-         VoxgraphMapper-      CostFunctions_proofs
      Refinement_proofs       Timeline_proofs      RegistrationTestBench_proofs
                                   |
                             MapOutput_proofs

**SubmapTimeline.** Operators on a function from creation stamps to ids:
`AddNextSubmap` is `emplace_hint`, the lookups are `upper_bound` and steps back.

**PoseGraph.** Nodes, constraint lists and problem, with the operators that the
frontend calls. Of a constraint its ends and kind are kept, of a solve that it
took place. `status` says whether the process has died: of a failed CHECK, or of
a read of memory that another thread frees (then dying is one of the outcomes).

**PoseGraphInterface.** `optimizePoseGraph` (test of the flag, both solves,
clearing of the flag, copy and write of the poses) in the steps between which
the other thread can act; `stage[th]` is where thread `th` stands. `Initialize`,
`TakePoseConstraints` and `TakeRegistrationConstraints` are the parts of
`PoseGraph::initialize`. Poses are numbered by the solve they come from.

**VoxgraphMapper.** The ROS thread (`pc`) and the rest of the node: `UpdateToTime`
to `IntegratePointcloud` are `pointcloudCallback` with `switchToNewSubmap`;
`LoopClosureCallback` and `LoopClosureFlag` are the loop closure callback;
`FinishMapCallback` to `FinishMapPublish` and `OptimizeGraphCallback` are the
services. `pending` is the stack of cloud callbacks that wait for odometry. A
callback that has its pose is never interrupted, so one `pc` is enough.
`SkipPointcloud` may fire at any time: tf and odometry decide.

**OptimizationService.** What a user of the mapper may rely on about the
optimisation: submaps and their odometry come only while none is under way, loop
closures at any time; one that is started takes, once, all the constraints there
are by then, ends with the solve of these, and the poses of that solve are what the
submaps get. `VoxgraphMapper` implements it without services, with
`constraints` as the number of relative constraints, `phase` from `stage["async"]`,
`taken` from the problem, `solved` as the relative constraints of the last complete
solve, `version` as the number of solves and `poses` as `submapPoses` (`Service` in
`VoxgraphMapper`). A switch without odometry constraints, an integration, a reset,
the handling of the flag and of registration constraints are stutters of it.

**MapOutput.** `VoxgraphMapper` together with what it sends. `output[th]` is the
output that thread `th` works on: `publishMaps` goes through `meshes`, `surface`,
`projected`, the poses and `edges`; `optimizePoseGraph` through `draw` after the last
solve and the poses after the write. The poses are read in two steps between which
the other thread may write; a message is the pair of versions it was read from.
The mapper's own steps wait for the output they start. Meshes and the drawing race
with the other threads: `MeshRace` and `DrawRace` let the process die.

**VoxgraphSubmap.** Submaps with what `finishSubmap` caches, on a line of
blocks. The TSDF is its allocated blocks and those with surface; it may grow in
any way, and the surface may move. `SwitchToNewSubmap`, `CreateNewSubmap` and
`FinishMapCallback` are what the mapper does to submaps; `TransformSubmap` is what
map evaluation does. Poses may change at any time, as the optimisation does.

**MapTracker.** The odometry queue, `waitForTransform` with its nested callbacks,
the frames `T_O_B`, `T_S_O`, `T_S_B`, and the odometry constraints computed from
them. Poses are points on a line, such that no two ways have the same length.
Everything from the successful test of the queue to the end of the callback is
one action, for nothing else runs on the ROS thread in between.

**WeightedSampler, CostFunctions.** The sampler with its cumulative weights, both
cost functions and the local parameterization. Numbers are exact: positions are
sub-steps of `1/N` of a voxel, angles quarter turns, and what is linear in the
interpolation vector is scaled by `N^3`, so that difference quotients over one
sub-step equal derivatives and the code's table, Q vector and Jacobian rows appear
as they are. Actions: points are added, `addToProblem` fixes the number of residuals,
and the solver moves the nodes that are not constant in any direction, if
`Evaluate` does not return false. Any draw the sampler may make is considered.

**RegistrationTestBench.** `main` with all its ways to end: parameters, loading (with a
submap registered to itself), the wait for Rviz, and the loops over the disturbances
with the log file. The collection may be unreadable, which main does not notice
before it dereferences the null pointer (174, 183-193); the log file may not open,
which it never notices (269, `logOpen`). Rviz comes and goes and Ctrl-C may come
at any time; after a shutdown `getNumSubscribers()` is zero, so that the wait for
Rviz needs both `rviz` and `ok`. Of `testRegistration` (the helper) only the outcome is
there: whether ceres finds a usable solution, and which, is open. A position is one
number.

An operator with the comment "Mutant" is a mistaken variant of the one next to
it and is used in no specification; `PROJECT.json` names for each property the
variant that breaks it.

## 3. What TLC checks

Runs that pass; all states are explored.

| Run | Bounds | Shows |
| --- | --- | --- |
| `services` | 3 clouds that may all start a submap, 2 nested callbacks, 1 loop closure and 2 service calls at any moment, all kinds of constraints, mirrored registration | `NoCheckFailure`, `SwitchExclusive`, `RegistrationOnlyFinished`, `EndpointsHaveNodes`, `TimelineFollowsCreation`, `OdometryChain`, `TypeOK` |
| `tf_odometry` | 5 stamps, 2 loop closures at any moment, no nesting, no services, fairness | `TimelineLocatesClouds`, `ActiveSubmapNotOptimized`, `PosesOfLastSolve`, `MissedLoopClosuresFlagged`, `EverySubmapOptimized`, and the refinement `OptimizesAsPromised` |
| `outputs` | 3 clouds that may all start a submap, `finish_map` once at any moment, 1 mesh thread, fairness | `SurfacesComplete`, `PublishedSubmapsReady`, `EdgesCovered`, `PosesReachSubscribers`, `OutputTypeOK` |
| `submap_mapping` | 2 submaps of 2 blocks, shifted by `transformSubmap`, poses around each other, no `finish_map` | `SharedSurfaceOverlaps`, `BoxesFresh`, `TypeOK` |
| `submap_finish_map` | 2 submaps of 2 blocks, 2 clouds, `finish_map` | `RegistrationDataFresh` |
| `tracker_nested` | 6 stamps, queue of 2, 2 tests of the queue, 3 nested callbacks, fairness | `HistoryFollowsOdometry`, `OdometryBetweenOrigins`, `EveryCallbackReturns`, `TypeOK` |
| `cost_functions` | 27 voxels of 2 sub-steps, 2 of 2 points, all of them or 1/2 or 3/2 as many drawn, nodes anywhere within half a voxel of the origin, all yaws | `InterpolationIsTrilinear`, `JacobianIsDerivative`, `GaugeFree`, `ZeroAtMeasurement`, `YawsInRange`, `WeightsOnlyRelative`, `DrawsInProportion`, `EvaluatesWithSamples` |
| `test_bench` | 2 submaps and an unknown id in either place, 6 disturbances, 2 solutions or none in each trial, files that cannot be opened, Rviz coming and going and Ctrl-C at any moment, fairness | `TrialsAreIndependent`, `LogIsComplete`, `EveryCombinationTried`, `RowsDescribeSubmap`, `RunsToItsEnd`, `TypeOK` |

The bounds suffice for what is hard. In `services` the interval is zero, so that
three clouds make three submaps; in `tf_odometry` it is one stamp, and five stamps
make three submaps, of which two get further clouds. In both a switch meets the
optimisation of the one before with a registration constraint in it, and in
`services` a call can fall at any step of either. Two nested callbacks are enough
for one to overtake the other, three for a stack that shrinks in the middle of a
wait. A queue of two with six stamps evicts messages that a cloud waits for.
Submaps of two blocks have surfaces that are equal, touch, lie inside each other
or are empty. In `outputs` three submaps give two overlapping pairs or more, an
output under way when `finish_map` starts its own, and both threads publishing
poses. The distance field of `cost_functions` has a product of all three
coordinates and no symmetry, so that no two corners of a cell can be exchanged
unnoticed; its points leave the field as well. Six disturbances along two of the
four lists have an order to get wrong and a last one to overrun.

Two runs do not look for deadlocks: in `cost_functions` the solver stops when the
cost cannot be evaluated, and the test bench ends. Everywhere else a deadlock
would be reported; in `VoxgraphMapper` and `MapTracker` the end of the bounded input is
an explicit step (`Still`, `Quiet`), which waiting for something is not.

Fairness. Weak fairness of callback steps and of the optimisation steps of each
thread: the operating system runs both threads, and a solve ends after
`max_solver_time_in_seconds`. In `MapOutput` that of the optimisation and of the
outputs, which have no waits. In `MapTracker`, weak fairness of the retries: the
sleeps are on a wall clock. In `RegistrationTestBench`, of the program itself. No
message, no service call, no subscriber and no Ctrl-C is assumed to arrive; where
`RunsToItsEnd` speaks of a Rviz that stays, that is its antecedent.

Runs that end in a violation: something that a comment of the code says does not
hold. `PROJECT.json` quotes the comments under `findings`.

| Run | What happens |
| --- | --- |
| `finish_map_race` | `finish_map` refills the list of registration constraints while the optimisation thread fills its problem from the lists (with two submaps the list it clears first is still empty; with more, clearing does the same) |
| `late_loop_closure` | a second loop closure arrives, and is flagged, during the first solve for the one before; the flag is cleared afterwards, and the second is not solved without registration |
| `submap_stale_boxes` | a submap finished twice keeps its first surface box, and an overlap is missed |
| `tracker_stale_stamp` | TFs carry the stamp of a later cloud |

Each concerns an assumption of the passing runs or of a theorem: `tf_odometry` has
no nested callbacks and no services, `submap_mapping` no `finish_map`. Loop closures
may come at any moment in all runs that have any; what still holds of those that
come during an optimisation is `MissedLoopClosuresFlagged`: one that missed the
optimisation is flagged for the next. (One that is in time for the complete solve but
loses its flag is what `late_loop_closure` shows.) That the assumptions are enough is
proved (section 4): `ListsAreNotInUse`, `LoopClosuresAreTakenCareOf`,
`SharedSurfaceIsFound` and `StampsMatchWithoutNesting` state the properties that the four
runs refute, under hypotheses that exclude what the counterexamples do. Two of the assumptions are
needed for more than a run shows. With nested callbacks a waiting cloud can be overtaken and go into a
submap that began after it, so `TimelineLocatesClouds` is only stated without.
With services, `finish_map` can have its poses overwritten by the older ones of
the thread, so `PosesOfLastSolve` is.

`overlapsWith` tests the surface blocks of one submap against all blocks of the other,
and so is not symmetric, although `pose_graph_interface.cpp:131-133` says so: when a
surface block of one only meets a block without surface of the other, the answer
depends on which comes first, that is on the order of the ids. For submaps
with surface in common it holds in both directions (`SharedSurfaceOverlaps`), so
that the pairs for which it matters are found in either order.

The models show more that is listed under `hazards` at most, since no comment
promises otherwise. After `finish_map` the active submap stays active and gets
further clouds, although the next optimisation reads it. `isosurface_blocks_` keeps the blocks of before a
transform, which can only make the test hold more often. A wait for odometry can
take longer than `transform_lookup_max_time_` when other callbacks wait inside it,
and a cloud is skipped when its odometry arrives in the very last spin. With a
sampling ratio below one over the number of points no residual is left, `Evaluate`
returns false and the whole solve fails.

Read in the code beside the models: `constraint.cpp:15` keeps the factor `L` of the
information matrix where the residual needs its transpose (the same for diagonal
matrices, which `voxgraph_mapper.yaml` has). The CHECK at
`registration_cost_function.cpp:29` that a submap is level has no absolute value. In
`registration_test_bench.cpp` the column `yaw_error` is logged as 0 (290-293, 381) and a
failed row has six X for seven columns (386). The wait for Rviz there does not look
at `ros::ok()` (217-222): after a Ctrl-C, or when Rviz leaves before the next look, it
goes on for ever. `RunsToItsEnd` therefore begins behind the wait, and promises the
way there only when Rviz stays and nobody presses Ctrl-C.

## 4. What is proved

For every value of the constants that satisfies the named assumptions of the
modules (`MapperAssumption`, `MirrorRegistrationAssumption`, `OutputAssumption`,
`SubmapAssumption`, `TrackerAssumption`, `InitialPosesAssumption`, `ObservedAssumption`,
`GridAssumption`, `PointsAssumption`, `RatiosAssumption`, `BenchAssumption`: types,
non-empty ranges, the normalised yaws that poses start with and points of
positive weight, which is what `min_voxel_weight` leaves), with no bound on submaps,
clouds, loop closures, calls, nesting, the size of the distance field, the number
of registration points or the lists of disturbances. Where a theorem needs more, it says so as a
hypothesis: `NoServices` (nobody calls a service), `LoopClosuresBetween` (a behaviour in which no
loop closure comes while the thread optimises), `InOrderClouds` (clouds leave the
subscriber's queue in the order of their stamps), `MaxPending` at most 1 (callbacks do
not nest: odometry from TFs), `FinishMap = FALSE`. The violations above show why the first
two and the last are needed; for the others see what section 3 says of nesting and
section 5 of clouds out of order.

The mapper (`VoxgraphMapper_proofs`):

* `TypeCorrect`: `TypeOK`. The inductive invariant `TypeInv` adds that a cloud
  callback past its lookup has a stamp, that a switch has the thread to itself, and
  that there is an active submap when a cloud is integrated; without them
  `Head(pending)` and `ActiveSubmap` have no type.
* `SwitchIsExclusive`: `SwitchExclusive`, part of the same invariant. The thread is
  only ever started at the end of a switch, and the wait before a switch is
  passed only when the thread is idle; nested callbacks cannot start one, since
  no spin lies between wait and launch.
* `RegistrationIsOnlyFinished`: constraints are made from all ids in the
  collection, so the invariant is that all submaps but the active one are
  finished, and the active one too from `finishSubmap` to the next creation
  (`SubmapsFinished`); problems take over what the list has.
* `EndpointsAlwaysHaveNodes`: from `NodesAreSubmaps`: the nodes are the ids of the
  collection, in which the timeline's ids lie.
* `ListsAreNotInUse`: the action property `ConstraintsNotInUse`, if nobody calls
  `finish_map` and in behaviours with `LoopClosuresBetween`. The lists then change
  in a switch or at a loop closure only (`ListsChangeInSwitch`), and the first is
  covered by `SwitchExclusive`.

Clouds in order (`VoxgraphMapperTimeline_proofs`, under `InOrderClouds`):

* `TimelineIsInOrder`, `OdometryIsChain`, `NoCheckFails`. The stack of waiting clouds is
  in order (`PendingOrdered`) and none of it lies before the last submap's creation
  (`NotAfterLatest`); so every creation comes at the end of the timeline, and the
  previous submap exists and is the one created before. `CreationDue` keeps what is
  decided before the wait true until the creation.
* `TimelineFindsClouds`, also under `MaxPending = 1`: the clouds of a submap lie
  between its creation and the next (`HistoryStarts`, `CloudsNest`, `OneCloud`,
  `Located`).

Optimisation (`VoxgraphMapperRefinement_proofs`, under `NoServices`):

* `MapperRefinesService`: every behaviour of the mapper, with loop closures at any
  moment, is one of `OptimizationService`, liveness aside. Only the async thread
  optimises (`RosDoesNotOptimize`), switches exclude it, and each of its steps is a
  step of the service or leaves it alone.
* `PosesAreOfLastSolve` and `ActiveSubmapIsNotOptimized`, with the invariants
  `PosesSettled` and `PairsBehind` (no pair of the list or the problem has the active
  submap).
* `MissedLoopClosuresAreFlagged`, with `FlagOrSolve`: a loop closure without a flag is
  in the problem of the complete solve that is under way, has yet to be taken by
  it, or has been solved.
* `LoopClosuresAreTakenCareOf`, for behaviours with `LoopClosuresBetween`, with
  `FlagDue`: the flag is set as long as a loop closure has not been solved alone.

The mapper with its outputs (`MapOutput_proofs`, for `SpecOutput`). A step of it is a
step of the mapper, an output that leaves the mapper alone, or a crash
(`OutputStepIsMapperStep`, `CrashKeepsMapper`), so that the lemmas on the steps of the
mapper carry its invariants over:

* `OutputKeepsPromises` (`SwitchExclusive`, `RegistrationOnlyFinished`,
  `EndpointsHaveNodes`), `OutputFailsNoCheck` (`NoCheckFailure` and
  `TimelineFollowsCreation`, under `InOrderClouds`), with the mapper's invariants
  (`MapperInv`, `OrderInv`), and `OutputTypeCorrect`.
* `EdgesAreCovered`, with `EdgesInv`: the list of pairs follows the registration
  constraints (`ListFollowsConstraints`), and either all of it is in the problem, or
  an optimisation that takes it is due or has yet to take it
  (`ListReachesProblem`). It needs no assumption on the clouds or the
  services: whoever rewrites the list optimises before he publishes.
* `SurfacesAreComplete`, under `InOrderClouds`, with `SurfacesInv`: all submaps but the
  last two are out, and the last but one from the output after its switch on. The
  server is only told of the previous submap of the timeline, and that is the last
  but one by the order of the timeline (`PreviousIsLastButOne`).
* `PublishedSubmapsAreReady`, under `InOrderClouds`, with `ReadyInv`: all submaps but the
  active one have a pose, and all in the list of pairs have one and are finished.

Submaps (`VoxgraphSubmap_proofs`): `TypeCorrect`; `RegistrationDataIsFresh` (a submap
that is left was finished after its last cloud, and `FinishSubmapIsFresh` says
that this makes everything anew that registration reads); under `~FinishMap`,
`BoxesAreFresh` (boxes are empty or those of all clouds, `BoxInv`) and
`SharedSurfaceIsFound` (surface blocks in common lie in both boxes, at any poses and
whichever submap comes first).

Tracker (`MapTracker_proofs`): `TypeCorrect`, `HistoryIsOdometry` and
`OdometryJoinsOrigins`, for any queue length, retries and nesting. The queue has the
newest messages (`QueueIsNewest`), `FrameAtOrigin` says what the frames are between
callbacks and `OdometrySettled` that no later message changes a pose in use.
`StampsMatchWithoutNesting` is `TFsMatchStamp` under `MaxPending <= 1`: the stored stamp is
that of the only callback that waits (`StampInv`).

Cost functions (`CostFunctions_proofs`):

* `YawsStayInRange`, `CostsAreGaugeFree` and `ResidualsVanishAtMeasurement`, for any
  points, poses and measurement, from the laws of rotations by quarter turns
  (`SinCosSum`, `RotateTwice`, `RotateLinear`).
* `TableInterpolatesTrilinearly`: for any resolution and field the hand-made table
  times the Q vector weighs each corner with the volume opposite to it.
* `JacobianIsExact`: each of the four columns for both submaps, by steps of a point along the axes
  inside its cell and over to the next (`StepByGradient`), which the columns of the
  rigid motion combine (`ColumnsAreSteps`, `NodeStepMovesPoint`); the yaw columns, which
  turn instead of step, by their values on points (`YawColumnTurns`).
* `SamplerDrawsInProportion`, with `SamplerInv`: the cumulative weights increase and
  start and end where they should, so the search returns an item for an interval
  of random numbers as long as its weight (`UpperBound`).
* `EvaluationSucceeds`, with `EvaluationInv`: the number of residuals is the truncated
  product of ratio and points, and sums of positive weights are positive.
* `WeightsAreRelative`, from `SumOfDoubled`.

The last three speak of sums over sequences of any length. The induction they need
is done by hand, as the choice of a least index at which a statement would fail
(`LeastNatural`), on sums that are shown to exist as functions of the number of
terms (`SumsExist`, `SumByParts`).

Test bench (`RegistrationTestBench_proofs`): `BenchTypeCorrect`, `TrialsStartAfresh`,
`RowsAreClosed` and `RowsAreTrue`, for any submaps, lists of disturbances and outcomes of
ceres. The inductive invariant `BenchInv` says for each place in the program which
trial the last row is of, whether it is open and where the submaps are.
`EveryCombinationIsTried` needs that the number of a trial is a number in a mixed
radix, whose digits are the indices in the lists (`SplitIndex`, `TrialOfChoice`).

Every proof splits a step by the actions of `Next`; facts used twice are lemmas.

Only model-checked is liveness: `EverySubmapOptimized`, `PosesReachSubscribers`,
`EveryCallbackReturns`, `RunsToItsEnd` and the fairness in `OptimizesAsPromised`, for
fairness and ENABLED are beyond the prover. Every invariant that a run checks is a
theorem, and so is, under hypotheses that exclude the counterexample, every
property that a run refutes.

## 5. What is not modelled

* Measurements are there in `CostFunctions` only; elsewhere the properties are
  about which constraints meet which solve. What the solver computes, and the
  multiplication by information matrices, is left out; so are pitch and roll and
  yaws between quarter turns.
* The values of covariances; `EdgesCovered` is about the blocks they need.
* Services that save or publish separately: they read only. Parameters are
  constants. The contents of messages, the TSDFs and ESDFs that go out with the
  surfaces, and markers.
* Odometry from TFs: tf fills its buffer on a thread of its own and its wait
  does not spin, which in `VoxgraphMapper` is `MaxPending = 1`.
* Overlap in three dimensions with rotated submaps, where centres of blocks are
  rounded into blocks. `VoxgraphSubmap` has the case without rounding.
* `voxblox::transformLayer` is taken to move the layer and leave nothing behind.
* Odometry messages with repeated or decreasing stamps.
* With `InOrderClouds = FALSE` the "previous" submap of the timeline need not be
  the one before; nothing is claimed then but the types and exclusions.
* A torn state of the sampler's random number generator under two solver threads:
  any item of positive weight may be drawn as it is.
* The measurement processors and the alignment of map evaluation, which are calls
  of voxblox and ceres; the odometry simulator, a separate node whose noise is
  its purpose; io and ROS helpers, messages and configuration.

## 6. Plan

1. Done: the mapper with both threads, its outputs, submaps, tracker, cost
   functions, test bench; the abstract service and the refinement; all safety
   properties proved.
2. Left, in order of worth: an abstract specification of the outputs (which
   versions of the poses a subscriber may see) and a proof that `MapOutput`
   implements it; for the tracker, that a cloud whose odometry arrives within the
   wait is tracked; `BoundingBox` corners and `getAabbFromObbAndPose` in three
   dimensions; the drift of the odometry simulator.
