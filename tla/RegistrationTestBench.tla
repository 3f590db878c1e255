------------------------ MODULE RegistrationTestBench ------------------------
(***************************************************************************)
(* tools/test_benches/registration_test_bench.cpp and the registration     *)
(* helper it calls (tools/submap_registration_helper.cpp).  The program    *)
(* waits for Rviz, finishes two submaps, and then moves the reading submap *)
(* away from its true pose again and again, lets ceres register it to the  *)
(* reference submap and logs the error that remains.                       *)
(*                                                                         *)
(* A pose is [position, yaw], the position a number that stands for the    *)
(* three coordinates.  Where ceres ends, and whether it finds a usable     *)
(* solution, is left open.  So are the files: the collection may not load  *)
(* and the log file may not open, and main looks at neither.  Rviz comes   *)
(* and goes, and Ctrl-C may be pressed at any time.                        *)
(***************************************************************************)
EXTENDS Integers, Sequences

CONSTANTS
  Submaps,          \* the poses of the submaps read from the file, by id
  Ids,              \* the ids that the parameters may name
  DuplicateId,      \* INT32_MAX
  Ranges,           \* the lists test_range/position, yaw, pitch and roll
  Solutions         \* where ceres may end

Pose == [position : Int, yaw : Int]

\* The ids in a file are far below the id of the duplicate.  A list of the
\* test_range may be empty.
ASSUME BenchAssumption ==
  /\ Submaps \in [DOMAIN Submaps -> Pose]
  /\ DuplicateId \notin DOMAIN Submaps
  /\ Ranges \in [1..4 -> Seq(Int)]
  /\ Solutions \subseteq Pose

VARIABLES
  pc,               \* where main stands
  rviz,             \* Rviz subscribes to the mesh
  ok,               \* ros::ok()
  ids,              \* [reference, reading]: the ids of the two submaps
  poses,            \* pose of each submap of the collection
  original,         \* T_mission__reference and T_mission__reading_original
  finished,         \* submaps that are finished
  trial,            \* number of the disturbance under test
  logOpen,          \* the log file could be opened
  logFile           \* rows [disturbance, result, error] of the log file

vars == <<pc, rviz, ok, ids, poses, original, finished, trial, logOpen,
          logFile>>
inputVars == <<rviz, ok>>
logVars == <<logOpen, logFile>>

\* Mutant: the first two lists are run through side by side.
BodySideBySide ==
  <<Len(Ranges[3]) * Len(Ranges[4]),
    Len(Ranges[3]) * Len(Ranges[4]), Len(Ranges[4]), 1>>

\* The trials in one round of the body of each of the nested loops.
Body ==
  <<Len(Ranges[2]) * Len(Ranges[3]) * Len(Ranges[4]),
    Len(Ranges[3]) * Len(Ranges[4]), Len(Ranges[4]), 1>>

NumTrials == Len(Ranges[1]) * Body[1]

\* The nested loops: the last list is run through first.
Disturbance(k) ==
  [d \in 1..4 |-> Ranges[d][(((k - 1) \div Body[d]) % Len(Ranges[d])) + 1]]

Init ==
  /\ pc = "configure"
  /\ rviz = FALSE
  /\ ok = TRUE
  /\ ids \in [reference : Ids, reading : Ids]
  /\ poses = Submaps
  /\ original = <<>>
  /\ finished = {}
  /\ trial = 0
  /\ logOpen = FALSE
  /\ logFile = <<>>

\* A missing or unknown parameter ends the program before it loads anything.
Configure ==
  /\ pc = "configure"
  /\ pc' \in {"load", "rejected"}
  /\ UNCHANGED <<inputVars, ids, poses, original, finished, trial, logVars>>

\* Nothing looks at the result of LoadSubmapCollection: when the file cannot be
\* read, the null pointer is dereferenced.
FileUnreadable ==
  /\ pc = "load"
  /\ pc' = "crashed"
  /\ UNCHANGED <<inputVars, ids, poses, original, finished, trial, logVars>>

\* duplicateSubmap and getSubmapPose are CHECKed.
LoadFails ==
  /\ pc = "load"
  /\ ~({ids.reference, ids.reading} \subseteq DOMAIN Submaps)
  /\ pc' = "rejected"
  /\ UNCHANGED <<inputVars, ids, poses, original, finished, trial, logVars>>

\* The reference is duplicated when both ids are the same; the poses are saved
\* and the meshes' frames published.
Load ==
  /\ pc = "load"
  /\ {ids.reference, ids.reading} \subseteq DOMAIN Submaps
  /\ pc' = "wait_rviz"
  /\ ids' = IF ids.reference = ids.reading
            THEN [ids EXCEPT !.reading = DuplicateId] ELSE ids
  /\ poses' = [id \in DOMAIN poses \cup {ids'.reading} |->
                 IF id = DuplicateId THEN poses[ids.reference] ELSE poses[id]]
  /\ original' = [reference |-> poses'[ids'.reference],
                  reading |-> poses'[ids'.reading]]
  /\ UNCHANGED <<inputVars, finished, trial, logVars>>

\* The loop ends when there is a subscriber.  It does not look at ros::ok(), but
\* after a shutdown there are none.
WaitForRviz ==
  /\ pc = "wait_rviz"
  /\ rviz /\ ok
  /\ pc' = "finish"
  /\ UNCHANGED <<inputVars, ids, poses, original, finished, trial, logVars>>

\* Both submaps are finished.  The log file is opened, if its folder exists, and
\* gets its header.
FinishSubmaps ==
  /\ pc = "finish"
  /\ finished' = {ids.reference, ids.reading}
  /\ logOpen' \in BOOLEAN
  /\ IF NumTrials = 0
     THEN pc' = "spin" /\ UNCHANGED trial
     ELSE pc' = "disturb" /\ trial' = 1
  /\ UNCHANGED <<inputVars, ids, poses, original, logFile>>

\* A stream that could not be opened takes nothing.
WriteLog(rows) ==
  /\ logFile' = IF logOpen THEN rows ELSE logFile
  /\ UNCHANGED logOpen

\* Mutant: the disturbance is added to the pose of the previous trial.
PerturbedFromCurrent(disturbance) ==
  [position |-> poses[ids.reading].position + disturbance[1],
   yaw |-> poses[ids.reading].yaw + disturbance[2]]

\* T_mission__reading_perturbed: pitch and roll are not applied.
Perturbed(disturbance) ==
  [position |-> original.reading.position + disturbance[1],
   yaw |-> original.reading.yaw + disturbance[2]]

Disturb ==
  /\ pc = "disturb"
  /\ pc' = "register"
  /\ WriteLog(Append(logFile, [disturbance |-> Disturbance(trial),
                               result |-> "open", error |-> 0]))
  /\ poses' = [poses EXCEPT ![ids.reading] = Perturbed(Disturbance(trial))]
  /\ UNCHANGED <<inputVars, ids, original, finished, trial>>

CloseRow(result, error) ==
  WriteLog([logFile EXCEPT ![Len(logFile)] =
              [@ EXCEPT !.result = result, !.error = error]])

\* Mutant: the error is taken relative to where the trial started.
ErrorFromStart(pose) == pose.position - poses[ids.reading].position

RemainingError(pose) == pose.position - original.reading.position

\* testRegistration holds the reference constant; its solution becomes the
\* pose of the reading submap.
RegistrationSucceeds(solution) ==
  /\ pc = "register"
  /\ pc' = "next"
  /\ poses' = [poses EXCEPT ![ids.reading] = solution]
  /\ CloseRow("error", RemainingError(solution))
  /\ UNCHANGED <<inputVars, ids, original, finished, trial>>

\* Mutant: nothing is written when ceres finds no solution.
RegistrationFailsSilently ==
  /\ pc = "register"
  /\ pc' = "next"
  /\ UNCHANGED <<inputVars, ids, poses, original, finished, trial, logVars>>

\* Mutant: the trial is repeated until ceres finds a solution.
RegistrationFailsAndRepeats ==
  /\ pc = "register"
  /\ pc' = "disturb"
  /\ WriteLog(SubSeq(logFile, 1, Len(logFile) - 1))
  /\ UNCHANGED <<inputVars, ids, poses, original, finished, trial>>

\* The summary is not usable; the reading submap stays where it was put.
RegistrationFails ==
  /\ pc = "register"
  /\ pc' = "next"
  /\ CloseRow("X", 0)
  /\ UNCHANGED <<inputVars, ids, poses, original, finished, trial>>

\* Mutant: the loops run once too often.
NextTrialPastEnd ==
  /\ pc = "next"
  /\ IF ok /\ trial <= NumTrials
     THEN pc' = "disturb" /\ trial' = trial + 1
     ELSE pc' = "spin" /\ UNCHANGED trial
  /\ UNCHANGED <<inputVars, ids, poses, original, finished, logVars>>

\* The end of a trial is the only place where Ctrl-C is looked for.
NextTrial ==
  /\ pc = "next"
  /\ IF ok /\ trial < NumTrials
     THEN pc' = "disturb" /\ trial' = trial + 1
     ELSE pc' = "spin" /\ UNCHANGED trial
  /\ UNCHANGED <<inputVars, ids, poses, original, finished, logVars>>

\* ros::spin returns at the shutdown.
Exit ==
  /\ pc = "spin"
  /\ ~ok
  /\ pc' = "exit"
  /\ UNCHANGED <<inputVars, ids, poses, original, finished, trial, logVars>>

RvizSubscribes ==
  /\ ~rviz
  /\ rviz' = TRUE
  /\ UNCHANGED <<pc, ok, ids, poses, original, finished, trial, logVars>>

\* Rviz is closed, or its display is switched off.
RvizUnsubscribes ==
  /\ rviz
  /\ rviz' = FALSE
  /\ UNCHANGED <<pc, ok, ids, poses, original, finished, trial, logVars>>

\* Ctrl-C ends ros::ok(), but not main.
CtrlC ==
  /\ ok
  /\ ok' = FALSE
  /\ UNCHANGED <<pc, rviz, ids, poses, original, finished, trial, logVars>>

Main ==
  \/ Configure
  \/ Load
  \/ FileUnreadable
  \/ LoadFails
  \/ WaitForRviz
  \/ FinishSubmaps
  \/ Disturb
  \/ \E solution \in Solutions : RegistrationSucceeds(solution)
  \/ RegistrationFails
  \/ NextTrial
  \/ Exit

Next == Main \/ RvizSubscribes \/ RvizUnsubscribes \/ CtrlC

\* main does not stop by itself; Rviz and the user may never act.
Spec == Init /\ [][Next]_vars /\ WF_vars(Main)

-------------------------------------------------------------------------------
(* Properties *)

\* Every variable has its type.
TypeOK ==
  /\ pc \in {"configure", "rejected", "load", "crashed", "wait_rviz", "finish",
             "disturb", "register", "next", "spin", "exit"}
  /\ rviz \in BOOLEAN /\ ok \in BOOLEAN /\ logOpen \in BOOLEAN
  /\ pc \in {"configure", "load", "rejected", "crashed"}
       \/ {ids.reference, ids.reading} \subseteq DOMAIN poses
  /\ finished \subseteq DOMAIN poses
  /\ trial \in 0..NumTrials

\* The pose the reading submap has in the file, its duplicate being one of two.
TrueReadingPose ==
  Submaps[IF ids.reading = DuplicateId THEN ids.reference ELSE ids.reading]

\* Every trial starts from the true pose and its own disturbance, however the
\* trials before it ended, and the reference is where it was loaded, even when
\* the submap is registered to itself (registration_test_bench.cpp:308-319).
TrialsAreIndependent ==
  pc = "register" =>
    /\ poses[ids.reading] =
         [position |-> TrueReadingPose.position + Disturbance(trial)[1],
          yaw |-> TrueReadingPose.yaw + Disturbance(trial)[2]]
    /\ poses[ids.reference] = Submaps[ids.reference]

\* A log file that could be opened has one row for each trial, in the order of
\* the loops, and no row but that of the trial under way is incomplete, whatever
\* ceres returns and whenever Ctrl-C is pressed.
LogIsComplete ==
  /\ \A k \in DOMAIN logFile :
       /\ logFile[k].disturbance = Disturbance(k)
       /\ logFile[k].result = "open" => k = Len(logFile) /\ pc = "register"
  /\ pc \in {"spin", "exit"} =>
       /\ trial = NumTrials \/ ~ok
       /\ Len(logFile) = IF logOpen THEN trial ELSE 0

\* One entry of each list of the test_range.
Choices ==
  {choice \in [1..4 -> UNION {DOMAIN Ranges[d] : d \in 1..4}] :
     \A d \in 1..4 : choice[d] \in DOMAIN Ranges[d]}

\* When the loops end without Ctrl-C, every combination of the entries of the
\* lists has been tried, and has its row if there is a log file
\* (registration_test_bench.cpp:298-306).
EveryCombinationTried ==
  pc \in {"spin", "exit"} /\ ok =>
    \A choice \in Choices : \E k \in 1..trial :
      LET combination == [d \in 1..4 |-> Ranges[d][choice[d]]]
      IN  /\ Disturbance(k) = combination
          /\ logOpen => logFile[k].disturbance = combination

\* The error of a row is that of the pose the reading submap was left with, and
\* a failed row leaves the submap at its disturbed pose.
RowsDescribeSubmap ==
  pc = "next" /\ logOpen =>
    LET row == logFile[Len(logFile)]
    IN  poses[ids.reading].position - TrueReadingPose.position
          = IF row.result = "X" THEN row.disturbance[1] ELSE row.error

\* Once the submaps are found and Rviz has been seen, the loops come to their
\* end, with or without Ctrl-C; and the bench gets that far when Rviz stays and
\* nobody presses Ctrl-C (registration_test_bench.cpp:216-222, 396-400).
RunsToItsEnd ==
  /\ (pc = "finish") ~> (pc \in {"spin", "exit"})
  /\ <>[](rviz /\ ok) => <>(pc \in {"rejected", "crashed", "spin"})
===============================================================================
