---------------------- MODULE RegistrationTestBench_proofs ---------------------
(***************************************************************************)
(* Proofs about the registration test bench for every file of submaps,     *)
(* every list of disturbances and whatever the solver returns.             *)
(***************************************************************************)
EXTENDS RegistrationTestBench, TLAPS

-------------------------------------------------------------------------------
(* The nested loops *)

\* A product is only positive when its factors are.
LEMMA PositiveFactors ==
  ASSUME NEW a \in Nat, NEW b \in Nat, a * b # 0
  PROVE  a > 0 /\ b > 0
OBVIOUS

LEMMA ProductInNat ==
  ASSUME NEW a \in Nat, NEW b \in Nat
  PROVE  a * b \in Nat
OBVIOUS

\* When there is a trial at all, no list is empty and every loop has a body.
LEMMA LoopsRun ==
  /\ NumTrials \in Nat
  /\ NumTrials # 0 =>
       \A d \in 1..4 :
         /\ Ranges[d] \in Seq(Int)
         /\ Len(Ranges[d]) \in Nat \ {0}
         /\ Body[d] \in Nat \ {0}
<1> DEFINE L(d) == Len(Ranges[d])
<1>1. \A d \in 1..4 : Ranges[d] \in Seq(Int) /\ L(d) \in Nat
  BY BenchAssumption
<1>2. L(1) \in Nat /\ L(2) \in Nat /\ L(3) \in Nat /\ L(4) \in Nat
  BY <1>1
<1>3. /\ Body[1] = L(2) * L(3) * L(4) /\ Body[2] = L(3) * L(4)
      /\ Body[3] = L(4) /\ Body[4] = 1
      /\ NumTrials = L(1) * Body[1]
  BY DEF Body, NumTrials
<1> HIDE DEF L
<1>4. L(2) * L(3) \in Nat /\ L(3) * L(4) \in Nat
  BY <1>2, ProductInNat
<1>5. Body[1] \in Nat
  BY <1>2, <1>3, <1>4, ProductInNat
<1>6. NumTrials \in Nat
  BY <1>2, <1>3, <1>5, ProductInNat
<1>7. ASSUME NumTrials # 0
      PROVE  \A d \in 1..4 : L(d) > 0 /\ Body[d] \in Nat \ {0}
  <2>1. L(1) > 0 /\ Body[1] > 0
    BY <1>2, <1>3, <1>5, <1>7, PositiveFactors
  <2>2. L(2) * L(3) > 0 /\ L(4) > 0
    BY <1>2, <1>3, <1>4, <2>1, PositiveFactors
  <2>3. L(2) > 0 /\ L(3) > 0
    BY <1>2, <2>2, PositiveFactors
  <2>4. L(3) * L(4) # 0
    BY <1>2, <2>2, <2>3
  <2>5. \A d \in 1..4 : d = 1 \/ d = 2 \/ d = 3 \/ d = 4
    OBVIOUS
  <2>6. QED
    BY <1>2, <1>3, <1>4, <1>5, <2>1, <2>2, <2>3, <2>4, <2>5
<1>8. \A d \in 1..4 : L(d) = Len(Ranges[d])
  BY DEF L
<1>9. ASSUME NumTrials # 0, NEW d \in 1..4
      PROVE  /\ Ranges[d] \in Seq(Int)
             /\ Len(Ranges[d]) \in Nat \ {0} /\ Body[d] \in Nat \ {0}
  <2>1. L(d) > 0 /\ Body[d] \in Nat \ {0}
    BY <1>7, <1>9
  <2>2. Ranges[d] \in Seq(Int) /\ L(d) \in Nat
    BY <1>1
  <2>3. QED
    BY <1>8, <2>1, <2>2
<1>10. QED
  BY <1>6, <1>9

\* The disturbance of a trial is taken from the lists.
LEMMA DisturbanceInLists ==
  ASSUME NEW k \in 1..NumTrials
  PROVE  /\ Disturbance(k) \in [1..4 -> Int]
         /\ \A d \in 1..4 : \E i \in 1..Len(Ranges[d]) :
              Disturbance(k)[d] = Ranges[d][i]
<1>1. NumTrials \in Nat /\ NumTrials # 0 /\ k - 1 \in Nat
  BY LoopsRun
<1>2. ASSUME NEW d \in 1..4
      PROVE  /\ (((k - 1) \div Body[d]) % Len(Ranges[d])) + 1
                   \in 1..Len(Ranges[d])
             /\ Ranges[d][(((k - 1) \div Body[d]) % Len(Ranges[d])) + 1] \in Int
  <2>1. /\ Ranges[d] \in Seq(Int)
        /\ Len(Ranges[d]) \in Nat \ {0} /\ Body[d] \in Nat \ {0}
    BY <1>1, LoopsRun
  <2> DEFINE q == (k - 1) \div Body[d]
             n == Len(Ranges[d])
  <2>2. q \in Int /\ n \in Nat \ {0}
    BY <1>1, <2>1
  <2> HIDE DEF q, n
  <2>3. q % n \in 0..n-1
    BY <2>2
  <2>4. (q % n) + 1 \in 1..n
    BY <2>2, <2>3
  <2>5. QED
    BY <2>1, <2>4 DEF q, n
<1>3. QED
  BY <1>2 DEF Disturbance

-------------------------------------------------------------------------------
(* The inductive invariant *)

Loading == pc \in {"configure", "load", "rejected", "crashed"}
Testing == pc \in {"disturb", "register", "next"}

\* Two submaps are under test, even when a submap is registered to itself; the
\* reference stays where it was loaded, and the true pose of the other is known.
SubmapsInv ==
  IF Loading
  THEN /\ ids \in [reference : Ids, reading : Ids]
       /\ poses = Submaps /\ finished = {} /\ trial = 0
       /\ logFile = <<>> /\ ~logOpen
  ELSE /\ ids \in [reference : DOMAIN poses, reading : DOMAIN poses]
       /\ ids.reference # ids.reading
       /\ poses \in [DOMAIN poses -> Pose]
       /\ original \in [reference : Pose, reading : Pose]
       /\ poses[ids.reference] = Submaps[ids.reference]
       /\ original.reading = TrueReadingPose

Row == [disturbance : [1..4 -> Int], result : {"open", "X", "error"},
        error : Int]

\* The log file has the rows of the trials begun, if it is open, and keeps step
\* with the loops.
LogInv ==
  /\ logFile \in Seq(Row)
  /\ \A k \in 1..Len(logFile) :
       /\ logFile[k].disturbance = Disturbance(k)
       /\ logFile[k].result = "open" => k = Len(logFile) /\ pc = "register"
  /\ pc \in {"wait_rviz", "finish"} => trial = 0 /\ ~logOpen
  /\ ~logOpen => logFile = <<>>
  /\ Testing => trial \in 1..NumTrials
  /\ logOpen =>
       Len(logFile) = IF pc = "disturb" THEN trial - 1 ELSE trial
  /\ pc \in {"spin", "exit"} => trial = NumTrials \/ ~ok

\* Where a trial, and its registration, leave the reading submap.
TrialInv ==
  /\ pc = "register" => poses[ids.reading] = Perturbed(Disturbance(trial))
  /\ pc = "next" /\ logOpen =>
       IF logFile[trial].result = "X"
       THEN poses[ids.reading] = Perturbed(Disturbance(trial))
       ELSE logFile[trial].error = RemainingError(poses[ids.reading])

BenchInv == TypeOK /\ SubmapsInv /\ LogInv /\ TrialInv

\* A disturbed pose is a pose.
LEMMA PerturbedType ==
  ASSUME original \in [reference : Pose, reading : Pose],
         NEW disturbance \in [1..4 -> Int]
  PROVE  Perturbed(disturbance) \in Pose
<1>1. original.reading \in Pose /\ disturbance[1] \in Int /\ disturbance[2] \in Int
  OBVIOUS
<1>2. original.reading.position \in Int /\ original.reading.yaw \in Int
  BY <1>1 DEF Pose
<1>3. QED
  BY <1>1, <1>2 DEF Perturbed, Pose

\* The steps before the first trial.
LEMMA LoadKeepsInv ==
  ASSUME BenchInv, Load
  PROVE  BenchInv'
<1>1. /\ pc = "load" /\ pc' = "wait_rviz" /\ Loading
      /\ poses = Submaps /\ finished = {} /\ trial = 0
      /\ logFile = <<>> /\ ~logOpen
      /\ ids \in [reference : Ids, reading : Ids]
      /\ {ids.reference, ids.reading} \subseteq DOMAIN Submaps
      /\ UNCHANGED <<rviz, ok, finished, trial, logOpen, logFile>>
  BY DEF BenchInv, SubmapsInv, Loading, Load, inputVars, logVars
<1>2. /\ ids' \in [reference : DOMAIN poses', reading : DOMAIN poses']
      /\ ids'.reference = ids.reference
      /\ ids'.reading = IF ids.reference = ids.reading THEN DuplicateId
                                                        ELSE ids.reading
      /\ DOMAIN poses' = DOMAIN Submaps \cup {ids'.reading}
      /\ \A id \in DOMAIN poses' :
           poses'[id] = IF id = DuplicateId THEN Submaps[ids.reference]
                                            ELSE Submaps[id]
  BY <1>1 DEF Load
<1>3. ids'.reference # ids'.reading /\ TrueReadingPose' = Submaps[ids.reading]
  BY <1>1, <1>2, BenchAssumption DEF TrueReadingPose
<1>4. /\ poses' = [id \in DOMAIN poses' |-> poses'[id]]
      /\ \A id \in DOMAIN poses' : poses'[id] \in Pose
  <2>1. poses' = [id \in DOMAIN poses' |-> poses'[id]]
    BY DEF Load
  <2>2. \A id \in DOMAIN poses' : id # DuplicateId => id \in DOMAIN Submaps
    BY <1>1, <1>2
  <2>3. QED
    BY <1>1, <1>2, <2>1, <2>2, BenchAssumption
<1>5. poses' \in [DOMAIN poses' -> Pose]
  BY <1>4
<1>6. original' = [reference |-> poses'[ids'.reference],
                   reading |-> poses'[ids'.reading]]
  BY DEF Load
<1>7. original'.reading = Submaps[ids.reading]
  BY <1>1, <1>2, <1>6, BenchAssumption
<1>8. /\ original' \in [reference : Pose, reading : Pose]
      /\ poses'[ids'.reference] = Submaps[ids.reference]
  BY <1>1, <1>2, <1>4, <1>6, BenchAssumption
<1>9. SubmapsInv'
  BY <1>1, <1>2, <1>3, <1>5, <1>7, <1>8 DEF SubmapsInv, Loading
<1>10. TypeOK'
  BY <1>1, <1>2 DEF BenchInv, TypeOK
<1>11. LogInv' /\ TrialInv'
  BY <1>1 DEF BenchInv, LogInv, TrialInv, Testing
<1>12. QED
  BY <1>9, <1>10, <1>11 DEF BenchInv

\* Both submaps are finished and the loops begin, unless they have no body.
LEMMA FinishKeepsInv ==
  ASSUME BenchInv, FinishSubmaps
  PROVE  BenchInv'
<1>1. /\ pc = "finish" /\ logFile = <<>> /\ trial = 0 /\ ~Loading
      /\ UNCHANGED <<rviz, ok, ids, poses, original, logFile>>
      /\ logOpen' \in BOOLEAN
      /\ finished' = {ids.reference, ids.reading}
  BY DEF BenchInv, LogInv, FinishSubmaps, Loading, inputVars
<1>2. \/ NumTrials = 0 /\ pc' = "spin" /\ trial' = trial
      \/ NumTrials # 0 /\ pc' = "disturb" /\ trial' = 1
  BY DEF FinishSubmaps
<1>3. NumTrials \in Nat
  BY LoopsRun
<1>4. SubmapsInv'
  BY <1>1, <1>2 DEF BenchInv, SubmapsInv, Loading, TrueReadingPose
<1>5. TypeOK'
  BY <1>1, <1>2, <1>3 DEF BenchInv, SubmapsInv, TypeOK
<1>6. LogInv' /\ TrialInv'
  BY <1>1, <1>2, <1>3 DEF BenchInv, LogInv, TrialInv, Testing
<1>7. QED
  BY <1>4, <1>5, <1>6 DEF BenchInv

\* A trial begins from the true pose.
LEMMA DisturbKeepsInv ==
  ASSUME BenchInv, Disturb
  PROVE  BenchInv'
<1> DEFINE row == [disturbance |-> Disturbance(trial), result |-> "open",
                   error |-> 0]
<1>1. /\ pc = "disturb" /\ pc' = "register" /\ ~Loading
      /\ logFile' = IF logOpen THEN Append(logFile, row) ELSE logFile
      /\ poses' = [poses EXCEPT ![ids.reading] = Perturbed(Disturbance(trial))]
      /\ UNCHANGED <<rviz, ok, ids, original, finished, trial, logOpen>>
      /\ trial \in 1..NumTrials /\ NumTrials \in Nat
      /\ logFile \in Seq(Row) /\ (logOpen => Len(logFile) = trial - 1)
      /\ (~logOpen => logFile = <<>>)
  BY LoopsRun
  DEF BenchInv, LogInv, Disturb, WriteLog, Loading, Testing, inputVars
<1>2. Disturbance(trial) \in [1..4 -> Int]
  BY <1>1, DisturbanceInLists
<1>3. row \in Row
  BY <1>2 DEF Row
<1>4. ASSUME logOpen
      PROVE  /\ Len(logFile') = trial /\ logFile' \in Seq(Row)
             /\ \A k \in 1..Len(logFile) : logFile'[k] = logFile[k]
             /\ logFile'[trial] = row
             /\ 1..Len(logFile') = 1..Len(logFile) \cup {trial}
  BY <1>1, <1>3, <1>4
<1>5. /\ poses \in [DOMAIN poses -> Pose]
      /\ ids.reading \in DOMAIN poses /\ ids.reference \in DOMAIN poses
      /\ ids.reference # ids.reading
      /\ Perturbed(Disturbance(trial)) \in Pose
  BY <1>1, <1>2, PerturbedType DEF BenchInv, SubmapsInv
<1>6. /\ poses' \in [DOMAIN poses -> Pose] /\ DOMAIN poses' = DOMAIN poses
      /\ poses'[ids.reading] = Perturbed(Disturbance(trial))
      /\ poses'[ids.reference] = poses[ids.reference]
  BY <1>1, <1>5
<1>7. SubmapsInv'
  BY <1>1, <1>6 DEF BenchInv, SubmapsInv, Loading, TrueReadingPose
<1>8. TypeOK'
  BY <1>1, <1>6 DEF BenchInv, TypeOK
<1>9. CASE ~logOpen
  <2>1. logFile' = <<>>
    BY <1>1, <1>9
  <2>2. LogInv'
    <3>1. logFile' \in Seq(Row) /\ \A k \in 1..Len(logFile') : FALSE
      BY <2>1
    <3>2. QED
      BY <1>1, <1>9, <2>1, <3>1 DEF LogInv, Testing, NumTrials, Body
  <2>3. TrialInv'
    BY <1>1, <1>6 DEF TrialInv, Perturbed
  <2>4. QED
    BY <1>7, <1>8, <2>2, <2>3 DEF BenchInv
<1>10. CASE logOpen
  <2>1. \A k \in 1..Len(logFile) : logFile[k].result # "open"
    BY <1>1 DEF BenchInv, LogInv
  <2> HIDE DEF row
  <2>2. row.disturbance = Disturbance(trial)
    BY DEF row
  <2>3. ASSUME NEW k \in 1..Len(logFile')
        PROVE  /\ logFile'[k].disturbance = Disturbance(k)
               /\ logFile'[k].result = "open" => k = Len(logFile')
    <3>1. CASE k \in 1..Len(logFile)
      BY <1>4, <1>10, <2>1, <3>1 DEF BenchInv, LogInv
    <3>2. CASE k = trial
      BY <1>4, <1>10, <2>2, <3>2
    <3>3. QED
      BY <1>4, <1>10, <3>1, <3>2
  <2>4. LogInv'
    BY <1>1, <1>4, <1>10, <2>3 DEF LogInv, Disturbance, Body, Testing
  <2>5. TrialInv'
    BY <1>1, <1>6 DEF TrialInv, Perturbed
  <2>6. QED
    BY <1>7, <1>8, <2>4, <2>5 DEF BenchInv
<1>11. QED
  BY <1>9, <1>10

\* Filling in the result of the last row leaves the rows before it alone.
LEMMA ClosedRow ==
  ASSUME logOpen, logFile \in Seq(Row), Len(logFile) \in Nat \ {0},
         NEW result \in {"error", "X"}, NEW error \in Int,
         CloseRow(result, error)
  PROVE  LET n == Len(logFile)
         IN  /\ logFile' \in Seq(Row) /\ Len(logFile') = n
             /\ \A k \in 1..n : logFile'[k].disturbance = logFile[k].disturbance
             /\ \A k \in 1..n : k # n => logFile'[k] = logFile[k]
             /\ logFile'[n].result = result /\ logFile'[n].error = error
<1> DEFINE n == Len(logFile)
           closed == [logFile[n] EXCEPT !.result = result, !.error = error]
<1>1. n \in 1..n /\ logFile[n] \in Row
  OBVIOUS
<1>2. /\ closed \in Row /\ closed.disturbance = logFile[n].disturbance
      /\ closed.result = result /\ closed.error = error
  BY <1>1 DEF Row
<1>3. logFile' = [logFile EXCEPT ![n] = closed]
  BY DEF CloseRow, WriteLog
<1> HIDE DEF closed
<1>4. logFile' \in Seq(Row) /\ Len(logFile') = n
  BY <1>1, <1>2, <1>3
<1>5. logFile'[n] = closed /\ \A k \in 1..n : k # n => logFile'[k] = logFile[k]
  BY <1>1, <1>3
<1>6. QED
  BY <1>2, <1>4, <1>5

\* What both ends of a registration leave behind.
LEMMA RegisteredKeepsInv ==
  ASSUME BenchInv, pc = "register", pc' = "next",
         UNCHANGED <<rviz, ok, ids, original, finished, trial>>,
         NEW result \in {"error", "X"}, NEW error \in Int,
         CloseRow(result, error),
         NEW pose \in Pose,
         poses' = [poses EXCEPT ![ids.reading] = pose],
         IF result = "X" THEN pose = Perturbed(Disturbance(trial))
                         ELSE error = RemainingError(pose)
  PROVE  BenchInv'
<1>1. /\ ~Loading /\ Testing /\ NumTrials \in Nat
      /\ trial \in 1..NumTrials /\ (logOpen => Len(logFile) = trial)
      /\ logFile \in Seq(Row) /\ (~logOpen => logFile = <<>>)
      /\ logOpen \in BOOLEAN
  BY LoopsRun DEF BenchInv, TypeOK, LogInv, Loading, Testing
<1>2. ASSUME logOpen
      PROVE  /\ logFile' \in Seq(Row) /\ Len(logFile') = trial
             /\ \A k \in 1..trial :
                  logFile'[k].disturbance = logFile[k].disturbance
             /\ \A k \in 1..trial : k # trial => logFile'[k] = logFile[k]
             /\ logFile'[trial].result = result
             /\ logFile'[trial].error = error
  BY <1>1, <1>2, ClosedRow
<1>u. logOpen' = logOpen /\ (~logOpen => logFile' = <<>>)
  BY <1>1 DEF CloseRow, WriteLog
<1>3. /\ poses \in [DOMAIN poses -> Pose]
      /\ ids.reading \in DOMAIN poses /\ ids.reference \in DOMAIN poses
      /\ ids.reference # ids.reading
  BY <1>1 DEF BenchInv, SubmapsInv
<1>4. /\ poses' \in [DOMAIN poses -> Pose] /\ DOMAIN poses' = DOMAIN poses
      /\ poses'[ids.reading] = pose
      /\ poses'[ids.reference] = poses[ids.reference]
  BY <1>3
<1>5. SubmapsInv'
  BY <1>1, <1>4 DEF BenchInv, SubmapsInv, Loading, TrueReadingPose
<1>6. TypeOK'
  BY <1>1, <1>4, <1>u DEF BenchInv, TypeOK
<1>7. CASE ~logOpen
  <2>1. LogInv'
    <3>1. logFile' \in Seq(Row) /\ \A k \in 1..Len(logFile') : FALSE
      BY <1>7, <1>u
    <3>2. QED
      BY <1>1, <1>7, <1>u, <3>1 DEF LogInv, Testing, NumTrials, Body
  <2>2. TrialInv'
    BY <1>7, <1>u DEF TrialInv
  <2>3. QED
    BY <1>5, <1>6, <2>1, <2>2 DEF BenchInv
<1>8. CASE logOpen
  <2>1. ASSUME NEW k \in 1..trial
        PROVE  /\ logFile'[k].disturbance = Disturbance(k)
               /\ logFile'[k].result # "open"
    <3>1. /\ logFile[k].disturbance = Disturbance(k)
          /\ logFile[k].result = "open" => k = trial
      BY <1>1, <1>8, <2>1 DEF BenchInv, LogInv
    <3>2. QED
      BY <1>2, <1>8, <2>1, <3>1
  <2>2. LogInv'
    BY <1>1, <1>2, <1>8, <1>u, <2>1 DEF LogInv, Disturbance, Body, Testing
  <2>3. TrialInv'
    BY <1>2, <1>4, <1>8
    DEF TrialInv, Perturbed, RemainingError, Disturbance, Body
  <2>4. QED
    BY <1>5, <1>6, <2>2, <2>3 DEF BenchInv
<1>9. QED
  BY <1>7, <1>8

LEMMA SuccessKeepsInv ==
  ASSUME BenchInv, NEW solution \in Solutions, RegistrationSucceeds(solution)
  PROVE  BenchInv'
<1>1. pc = "register" /\ ~Loading
  BY DEF RegistrationSucceeds, Loading
<1>2. original.reading \in Pose /\ solution \in Pose
  BY <1>1, BenchAssumption DEF BenchInv, SubmapsInv
<1>3. RemainingError(solution) \in Int
  BY <1>2 DEF RemainingError, Pose
<1>4. QED
  BY <1>1, <1>2, <1>3, RegisteredKeepsInv DEF RegistrationSucceeds, inputVars

LEMMA FailureKeepsInv ==
  ASSUME BenchInv, RegistrationFails
  PROVE  BenchInv'
<1>1. pc = "register" /\ ~Loading
  BY DEF RegistrationFails, Loading
<1>2. /\ poses \in [DOMAIN poses -> Pose] /\ ids.reading \in DOMAIN poses
      /\ poses[ids.reading] = Perturbed(Disturbance(trial))
  BY <1>1 DEF BenchInv, SubmapsInv, TrialInv
<1>3. poses' = [poses EXCEPT ![ids.reading] = poses[ids.reading]]
  BY <1>2 DEF RegistrationFails
<1>4. poses[ids.reading] \in Pose
  BY <1>2
<1>5. /\ pc' = "next" /\ CloseRow("X", 0)
      /\ UNCHANGED <<rviz, ok, ids, original, finished, trial>>
  BY DEF RegistrationFails, inputVars
<1> DEFINE result == "X"
           error == 0
           pose == poses[ids.reading]
<1>6. /\ result \in {"error", "X"} /\ error \in Int /\ CloseRow(result, error)
      /\ pose \in Pose /\ poses' = [poses EXCEPT ![ids.reading] = pose]
      /\ result = "X" /\ pose = Perturbed(Disturbance(trial))
  BY <1>2, <1>3, <1>4, <1>5
<1> HIDE DEF result, error, pose
<1>7. QED
  BY <1>1, <1>5, <1>6, RegisteredKeepsInv

\* The next trial, or the end of the loops.
LEMMA NextTrialKeepsInv ==
  ASSUME BenchInv, NextTrial
  PROVE  BenchInv'
<1>1. /\ pc = "next" /\ ~Loading /\ Testing /\ NumTrials \in Nat
      /\ trial \in 1..NumTrials /\ (logOpen => Len(logFile) = trial)
      /\ UNCHANGED <<rviz, ok, ids, poses, original, finished, logOpen, logFile>>
  BY LoopsRun
  DEF BenchInv, LogInv, NextTrial, Loading, Testing, inputVars, logVars
<1>2. \/ trial < NumTrials /\ pc' = "disturb" /\ trial' = trial + 1
      \/ (~ok \/ trial = NumTrials) /\ pc' = "spin" /\ trial' = trial
  BY <1>1 DEF NextTrial
<1>3. SubmapsInv'
  BY <1>1, <1>2 DEF BenchInv, SubmapsInv, Loading, TrueReadingPose
<1>4. TypeOK'
  BY <1>1, <1>2 DEF BenchInv, TypeOK
<1>5. LogInv'
  <2>1. ASSUME NEW k \in 1..Len(logFile)
        PROVE  /\ logFile[k].disturbance = Disturbance(k)
               /\ logFile[k].result # "open"
    BY <1>1 DEF BenchInv, LogInv
  <2>2. logFile \in Seq(Row)
    BY DEF BenchInv, LogInv
  <2>3. ASSUME NEW k \in 1..Len(logFile')
        PROVE  /\ logFile'[k].disturbance = Disturbance(k)'
               /\ logFile'[k].result # "open"
    BY <1>1, <2>1 DEF Disturbance, Body
  <2>4. /\ Testing' => trial' \in 1..NumTrials
        /\ logOpen' =>
             Len(logFile') = IF pc' = "disturb" THEN trial' - 1 ELSE trial'
        /\ ~logOpen' => logFile' = <<>>
        /\ pc' \in {"spin", "exit"} => trial' = NumTrials \/ ~ok'
        /\ pc' \notin {"wait_rviz", "finish"}
    BY <1>1, <1>2 DEF Testing, BenchInv, LogInv
  <2>5. QED
    BY <1>1, <2>2, <2>3, <2>4 DEF LogInv, NumTrials, Body
<1>6. TrialInv'
  BY <1>2 DEF TrialInv
<1>7. QED
  BY <1>3, <1>4, <1>5, <1>6 DEF BenchInv

\* The steps that only move main, or that come from outside, and stutters.
LEMMA OtherStepsKeepInv ==
  ASSUME BenchInv,
         \/ Configure \/ FileUnreadable \/ LoadFails \/ WaitForRviz \/ Exit
         \/ RvizSubscribes \/ RvizUnsubscribes \/ CtrlC \/ UNCHANGED vars
  PROVE  BenchInv'
<1>1. /\ UNCHANGED <<ids, poses, original, finished, trial, logOpen, logFile>>
      /\ (rviz' = rviz \/ rviz' \in BOOLEAN) /\ (ok' = ok \/ ok' = FALSE)
  BY DEF Configure, FileUnreadable, LoadFails, WaitForRviz, Exit,
         RvizSubscribes, RvizUnsubscribes, CtrlC, vars, inputVars, logVars
<1>2. \/ pc' = pc
      \/ Loading /\ pc' \in {"load", "rejected", "crashed"}
      \/ pc = "wait_rviz" /\ pc' = "finish"
      \/ pc = "spin" /\ pc' = "exit"
  BY DEF Configure, FileUnreadable, LoadFails, WaitForRviz, Exit,
         RvizSubscribes, RvizUnsubscribes, CtrlC, vars, Loading
<1>3. Loading' = Loading /\ TrueReadingPose' = TrueReadingPose
  BY <1>1, <1>2 DEF Loading, TrueReadingPose
<1>4. TypeOK'
  BY <1>1, <1>2, <1>3 DEF BenchInv, TypeOK, Loading
<1>5. SubmapsInv'
  BY <1>1, <1>3 DEF BenchInv, SubmapsInv
<1>6. LogInv'
  <2>1. \A k : Disturbance(k)' = Disturbance(k)
    BY DEF Disturbance, Body
  <2>2. (pc' = "register" <=> pc = "register") /\ (Testing' <=> Testing)
    BY <1>2 DEF Testing, Loading
  <2>3. /\ logFile \in Seq(Row)
        /\ \A k \in 1..Len(logFile) :
             /\ logFile[k].disturbance = Disturbance(k)
             /\ logFile[k].result = "open" => k = Len(logFile) /\ pc = "register"
    BY DEF BenchInv, LogInv
  <2>4. /\ logFile' \in Seq(Row)
        /\ \A k \in 1..Len(logFile') :
             /\ logFile'[k].disturbance = Disturbance(k)'
             /\ logFile'[k].result = "open" =>
                  k = Len(logFile') /\ pc' = "register"
    BY <1>1, <2>1, <2>2, <2>3
  <2>5. pc' \in {"wait_rviz", "finish"} => trial' = 0 /\ ~logOpen'
    BY <1>1, <1>2 DEF BenchInv, LogInv, Loading
  <2>6. /\ Testing' => trial' \in 1..NumTrials
        /\ ~logOpen' => logFile' = <<>>
        /\ logOpen' =>
             Len(logFile') = IF pc' = "disturb" THEN trial' - 1 ELSE trial'
        /\ pc' \in {"spin", "exit"} => trial' = NumTrials \/ ~ok'
    BY <1>1, <1>2, <2>2 DEF BenchInv, LogInv, Loading, Testing
  <2>7. QED
    BY <2>4, <2>5, <2>6 DEF LogInv, NumTrials, Body
<1>7. TrialInv'
  BY <1>1, <1>2
  DEF BenchInv, TrialInv, Loading, Perturbed, Disturbance, Body, RemainingError
<1>8. QED
  BY <1>4, <1>5, <1>6, <1>7 DEF BenchInv

LEMMA BenchInvariant == Spec => []BenchInv
<1>1. Init => BenchInv
  <2> SUFFICES ASSUME Init
               PROVE  BenchInv
    OBVIOUS
  <2>1. NumTrials \in Nat
    BY LoopsRun
  <2>2. TypeOK
    <3>1. rviz \in BOOLEAN /\ ok \in BOOLEAN /\ logOpen \in BOOLEAN
      BY Zenon DEF Init
    <3>2. trial \in 0..NumTrials
      BY <2>1 DEF Init
    <3>3. QED
      BY <3>1, <3>2 DEF Init, TypeOK
  <2>3. SubmapsInv
    BY DEF Init, SubmapsInv, Loading
  <2>4. LogInv
    BY DEF Init, LogInv, Testing
  <2>5. TrialInv
    BY DEF Init, TrialInv
  <2>6. QED
    BY <2>2, <2>3, <2>4, <2>5 DEF BenchInv
<1>2. BenchInv /\ [Next]_vars => BenchInv'
  BY LoadKeepsInv, FinishKeepsInv, DisturbKeepsInv, SuccessKeepsInv,
     FailureKeepsInv, NextTrialKeepsInv, OtherStepsKeepInv
  DEF Next, Main
<1>3. QED
  BY <1>1, <1>2, PTL DEF Spec

-------------------------------------------------------------------------------
(* What the bench promises *)

\* Every variable has its type, the number of the trial and the ids of the two
\* submaps among them (registration_test_bench.cpp:172-211).
THEOREM BenchTypeCorrect == Spec => []TypeOK
<1>1. BenchInv => TypeOK
  BY DEF BenchInv
<1>2. QED
  BY <1>1, BenchInvariant, PTL

\* Every trial starts from the true pose and its own disturbance, for every file
\* of submaps, all lists and whatever ceres returned before
\* (registration_test_bench.cpp:308-319).
THEOREM TrialsStartAfresh == Spec => []TrialsAreIndependent
<1>1. ASSUME BenchInv, pc = "register"
      PROVE  /\ poses[ids.reading] = Perturbed(Disturbance(trial))
             /\ original.reading = TrueReadingPose
             /\ poses[ids.reference] = Submaps[ids.reference]
  BY <1>1 DEF BenchInv, TrialInv, SubmapsInv, Loading
<1>2. BenchInv => TrialsAreIndependent
  BY <1>1 DEF TrialsAreIndependent, Perturbed
<1>3. QED
  BY <1>2, BenchInvariant, PTL

\* A log file that is open has a row for each trial begun, in the order of the loops, and
\* only the last can be incomplete, whatever the solver returns and whenever
\* Ctrl-C is pressed (registration_test_bench.cpp:382-402).
THEOREM RowsAreClosed == Spec => []LogIsComplete
<1>1. BenchInv => LogIsComplete
  <2> SUFFICES ASSUME BenchInv
               PROVE  LogIsComplete
    OBVIOUS
  <2>1. DOMAIN logFile = 1..Len(logFile)
    BY DEF BenchInv, LogInv
  <2>2. QED
    BY <2>1 DEF TypeOK, Testing, BenchInv, LogInv, LogIsComplete
<1>2. QED
  BY <1>1, BenchInvariant, PTL

\* The error in a row is that of the pose the submap was left with, and a failed
\* registration leaves it at its disturbed pose, also when the two submaps under
\* test are one of the file (registration_test_bench.cpp:359-387).
THEOREM RowsAreTrue == Spec => []RowsDescribeSubmap
<1>1. ASSUME BenchInv, pc = "next", logOpen
      PROVE  LET row == logFile[Len(logFile)]
             IN  poses[ids.reading].position - TrueReadingPose.position
                   = IF row.result = "X" THEN row.disturbance[1] ELSE row.error
  <2>1. /\ Len(logFile) = trial /\ trial \in 1..NumTrials
        /\ NumTrials \in Nat /\ logFile \in Seq(Row)
    BY <1>1, LoopsRun DEF BenchInv, LogInv, Testing
  <2>2. logFile[trial].disturbance = Disturbance(trial)
    BY <1>1, <2>1 DEF BenchInv, LogInv
  <2>3. /\ original.reading = TrueReadingPose
        /\ original.reading.position \in Int
    BY <1>1 DEF BenchInv, SubmapsInv, Loading, Pose
  <2>4. Disturbance(trial)[1] \in Int
    BY <2>1, DisturbanceInLists
  <2>5. CASE logFile[trial].result = "X"
    <3>1. poses[ids.reading].position
            = original.reading.position + Disturbance(trial)[1]
      BY <1>1, <2>5 DEF BenchInv, TrialInv, Perturbed
    <3>2. QED
      BY <2>1, <2>2, <2>3, <2>4, <2>5, <3>1
  <2>6. CASE logFile[trial].result # "X"
    <3>1. logFile[trial].error
            = poses[ids.reading].position - original.reading.position
      BY <1>1, <2>6 DEF BenchInv, TrialInv, RemainingError
    <3>2. QED
      BY <2>1, <2>3, <2>6, <3>1
  <2>7. QED
    BY <2>5, <2>6
<1>2. BenchInv => RowsDescribeSubmap
  BY <1>1 DEF RowsDescribeSubmap
<1>3. QED
  BY <1>2, BenchInvariant, PTL

-------------------------------------------------------------------------------
(* The loops reach every combination *)

\* Quotient and remainder are what a number was put together from.
LEMMA DivMod ==
  ASSUME NEW q \in Nat, NEW m \in Nat \ {0}, NEW r \in 0..m-1
  PROVE  (q * m + r) \div m = q /\ ((q * m + r) % m) = r
<1> DEFINE n == q * m + r
           x == n \div m
           y == n % m
<1>1. n \in Nat /\ q * m \in Nat
  OBVIOUS
<1>2. n = m * x + y /\ y \in 0..m-1 /\ x \in Int
  BY <1>1
<1>3. m * (q - x) = y - r
  <2>1. q * m = m * q /\ m * (q - x) = m * q - m * x
    BY <1>2
  <2>2. QED
    BY <1>2, <2>1
<1>4. q - x < 1
  <2>1. SUFFICES ASSUME q - x >= 1 PROVE FALSE
    BY <1>2
  <2>2. m * (q - x) >= m
    BY <1>2, <2>1
  <2>3. QED
    BY <1>2, <1>3, <2>2
<1>5. q - x > -1
  <2>1. SUFFICES ASSUME q - x <= -1 PROVE FALSE
    BY <1>2
  <2>2. m * (q - x) <= -m
    BY <1>2, <2>1
  <2>3. QED
    BY <1>2, <1>3, <2>2
<1>6. q = x
  BY <1>2, <1>4, <1>5
<1>7. y = r
  BY <1>2, <1>3, <1>6
<1>8. QED
  BY <1>6, <1>7

\* An index into an inner loop and one into the loop around it make one index
\* into both.
LEMMA IndexOfBoth ==
  ASSUME NEW a \in Nat, NEW b \in Nat, NEW i \in 0..a-1, NEW j \in 0..b-1
  PROVE  i * b + j \in 0..(a * b)-1
<1>1. i * b \in Nat /\ (a - 1) * b = a * b - b /\ i * b <= (a - 1) * b
  OBVIOUS
<1>2. QED
  BY <1>1

\* Splitting an index of four nested loops into the four it was made of.
LEMMA SplitIndex ==
  ASSUME NEW L \in [1..4 -> Nat \ {0}], NEW f \in [1..4 -> Nat],
         \A m \in 1..4 : f[m] < L[m]
  PROVE  \E n \in 0..(L[1] * (L[2] * L[3] * L[4]))-1 :
           /\ ((n \div (L[2] * L[3] * L[4])) % L[1]) = f[1]
           /\ ((n \div (L[3] * L[4])) % L[2]) = f[2]
           /\ ((n \div L[4]) % L[3]) = f[3]
           /\ ((n \div 1) % L[4]) = f[4]
<1> DEFINE a == L[1]
           b == L[2]
           c == L[3]
           d == L[4]
           i == f[1]
           j == f[2]
           k == f[3]
           l == f[4]
<1>0. /\ a \in Nat \ {0} /\ b \in Nat \ {0} /\ c \in Nat \ {0}
      /\ d \in Nat \ {0}
      /\ i \in 0..a-1 /\ j \in 0..b-1 /\ k \in 0..c-1 /\ l \in 0..d-1
      /\ i \in Nat
  OBVIOUS
<1>w. SUFFICES \E n \in 0..(a * (b * c * d))-1 :
                 /\ ((n \div (b * c * d)) % a) = i
                 /\ ((n \div (c * d)) % b) = j
                 /\ ((n \div d) % c) = k
                 /\ ((n \div 1) % d) = l
  OBVIOUS
<1> HIDE DEF a, b, c, d, i, j, k, l
<1> USE <1>0
<1> DEFINE cd == c * d
           bcd == b * cd
           r3 == k * d + l
           r2 == j * cd + r3
           n == i * bcd + r2
<1>1. cd \in Nat \ {0} /\ bcd \in Nat \ {0} /\ b * c * d = bcd
  <2>1. cd \in Nat \ {0}
    OBVIOUS
  <2>2. b * c * d = b * (c * d)
    OBVIOUS
  <2> HIDE DEF cd
  <2>3. bcd \in Nat \ {0}
    BY <2>1
  <2>4. QED
    BY <2>1, <2>2, <2>3 DEF cd
<1>2. r3 \in 0..cd-1
  BY IndexOfBoth
<1> HIDE DEF cd, r3
<1>3. r2 \in 0..bcd-1
  BY <1>1, <1>2, IndexOfBoth
<1> HIDE DEF bcd, r2
<1>4. n \in 0..(a * bcd)-1
  BY <1>1, <1>3, IndexOfBoth
<1>5. ((n \div bcd) % a) = i
  <2>1. n \div bcd = i
    BY <1>1, <1>3, DivMod, Zenon
  <2>2. i = 0 * a + i /\ i \in 0..a-1
    OBVIOUS
  <2>3. QED
    BY <2>1, <2>2, DivMod
<1>6. i * b + j \in Nat
  OBVIOUS
<1>7. n = (i * b + j) * cd + r3
  <2>1. i * (b * cd) = (i * b) * cd /\ (i * b + j) * cd = (i * b) * cd + j * cd
    BY <1>1
  <2>2. i * b \in Nat /\ (i * b) * cd \in Nat /\ j * cd \in Nat
    BY <1>1
  <2>3. QED
    BY <1>2, <2>1, <2>2 DEF bcd, r2
<1>8. ((n \div cd) % b) = j
  <2> DEFINE p == i * b + j
  <2>1. p \in Nat /\ n = p * cd + r3
    BY <1>6, <1>7
  <2> HIDE DEF p, n
  <2>2. n \div cd = p
    BY <1>1, <1>2, <2>1, DivMod
  <2>3. n \div cd = i * b + j
    BY <2>2 DEF p
  <2>4. ((i * b + j) % b) = j
    BY DivMod, Zenon
  <2>5. QED
    BY <2>3, <2>4
<1> DEFINE q == (i * b + j) * c + k
<1>9. q \in Nat
  BY <1>6
<1>10. n = q * d + l
  <2> DEFINE p == i * b + j
  <2> HIDE DEF p
  <2>1. p \in Nat
    BY <1>6 DEF p
  <2>2. p * (c * d) = (p * c) * d /\ (p * c + k) * d = (p * c) * d + k * d
    BY <2>1
  <2>3. p * c \in Nat /\ (p * c) * d \in Nat /\ k * d \in Nat
    BY <2>1
  <2>4. n = p * (c * d) + (k * d + l) /\ q = p * c + k
    BY <1>7 DEF p, cd, r3
  <2>5. QED
    BY <2>2, <2>3, <2>4
<1> HIDE DEF n
<1>11. ((n \div d) % c) = k
  <2>1. n \div d = (i * b + j) * c + k
    <3> HIDE DEF q
    <3>1. n \div d = q
      BY <1>9, <1>10, DivMod
    <3>2. QED
      BY <3>1 DEF q
  <2> DEFINE p == i * b + j
  <2>2. p \in Nat /\ n \div d = p * c + k
    BY <1>6, <2>1
  <2> HIDE DEF p, q
  <2>3. c \in Nat \ {0} /\ k \in 0..c-1
    OBVIOUS
  <2>4. ((p * c + k) % c) = k
    BY ONLY <2>2, <2>3, DivMod
  <2>5. QED
    BY <2>2, <2>4
<1>12. ((n \div 1) % d) = l
  <2>1. n \div 1 = n
    BY <1>1, <1>4
  <2> HIDE DEF q
  <2>2. ((q * d + l) % d) = l
    BY <1>9, DivMod
  <2>3. QED
    BY <1>10, <2>1, <2>2, Zenon
<1>13. QED
  BY <1>1, <1>4, <1>5, <1>8, <1>11, <1>12 DEF cd

\* One of the trials has the disturbance that is made of given entries.
LEMMA TrialOfChoice ==
  ASSUME NEW choice \in Choices
  PROVE  \E k \in 1..NumTrials :
           Disturbance(k) = [d \in 1..4 |-> Ranges[d][choice[d]]]
<1> DEFINE L == [d \in 1..4 |-> Len(Ranges[d])]
           f == [d \in 1..4 |-> choice[d] - 1]
<1>1. ASSUME NEW d \in 1..4
      PROVE  /\ Len(Ranges[d]) \in Nat /\ choice[d] \in Int
             /\ 1 <= choice[d] /\ choice[d] <= Len(Ranges[d])
  <2>1. Ranges[d] \in Seq(Int) /\ choice[d] \in DOMAIN Ranges[d]
    BY BenchAssumption DEF Choices
  <2>2. QED
    BY <2>1
<1>2. L \in [1..4 -> Nat \ {0}] /\ f \in [1..4 -> Nat]
  <2>1. \A d \in 1..4 : Len(Ranges[d]) \in Nat \ {0} /\ choice[d] - 1 \in Nat
    <3>1. TAKE d \in 1..4
    <3>2. QED
      BY <1>1
  <2>2. QED
    BY <2>1
<1>3. /\ Body[1] = L[2] * L[3] * L[4] /\ Body[2] = L[3] * L[4]
      /\ Body[3] = L[4] /\ Body[4] = 1
      /\ NumTrials = L[1] * (L[2] * L[3] * L[4])
  BY DEF Body, NumTrials
<1>4. \A d \in 1..4 : L[d] = Len(Ranges[d]) /\ f[d] = choice[d] - 1
  OBVIOUS
<1> HIDE DEF L, f
<1>5. \A d \in 1..4 : f[d] < L[d] /\ f[d] + 1 = choice[d]
  <2>1. TAKE d \in 1..4
  <2>2. L[d] = Len(Ranges[d]) /\ f[d] = choice[d] - 1
    BY <1>4
  <2>3. /\ Len(Ranges[d]) \in Nat /\ choice[d] \in Int
        /\ choice[d] <= Len(Ranges[d])
    BY <1>1
  <2>4. QED
    BY ONLY <2>2, <2>3
<1>6. PICK n \in 0..(L[1] * (L[2] * L[3] * L[4]))-1 :
        /\ ((n \div (L[2] * L[3] * L[4])) % L[1]) = f[1]
        /\ ((n \div (L[3] * L[4])) % L[2]) = f[2]
        /\ ((n \div L[4]) % L[3]) = f[3]
        /\ ((n \div 1) % L[4]) = f[4]
  BY <1>2, <1>5, SplitIndex
<1>7. n + 1 \in 1..NumTrials /\ (n + 1) - 1 = n
  BY <1>3, <1>6, LoopsRun
<1>8. \A d \in 1..4 : d = 1 \/ d = 2 \/ d = 3 \/ d = 4
  OBVIOUS
<1>9. \A d \in 1..4 : ((((n + 1) - 1) \div Body[d]) % L[d]) = f[d]
  BY <1>3, <1>6, <1>7, <1>8
<1>10. \A d \in 1..4 :
        ((((n + 1) - 1) \div Body[d]) % Len(Ranges[d])) + 1 = choice[d]
  BY <1>4, <1>5, <1>9
<1>11. Disturbance(n + 1) = [d \in 1..4 |-> Ranges[d][choice[d]]]
  BY <1>10, Zenon DEF Disturbance
<1>12. QED
  BY <1>7, <1>11

\* When the loops end without Ctrl-C, every combination of the entries of the
\* lists has its row, however long the lists are
\* (registration_test_bench.cpp:298-306).
THEOREM EveryCombinationIsTried == Spec => []EveryCombinationTried
<1>1. ASSUME BenchInv, pc \in {"spin", "exit"}, ok, NEW choice \in Choices
      PROVE  \E k \in 1..trial :
               LET combination == [d \in 1..4 |-> Ranges[d][choice[d]]]
               IN  /\ Disturbance(k) = combination
                   /\ logOpen => logFile[k].disturbance = combination
  <2>1. trial = NumTrials /\ (logOpen => Len(logFile) = trial)
    BY <1>1 DEF BenchInv, LogInv
  <2>2. \A k \in 1..trial :
          logOpen => logFile[k].disturbance = Disturbance(k)
    BY <2>1, <1>1 DEF BenchInv, LogInv
  <2>3. QED
    BY <2>1, <2>2, <1>1, TrialOfChoice
<1>2. BenchInv => EveryCombinationTried
  BY <1>1 DEF EveryCombinationTried
<1>3. QED
  BY <1>2, BenchInvariant, PTL
===============================================================================
