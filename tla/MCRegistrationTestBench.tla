----------------------- MODULE MCRegistrationTestBench -----------------------
(* Constants for TLC: two submaps and an id of none, six disturbances, and *)
(* solutions at the true pose, at a disturbed one and elsewhere.           *)
EXTENDS RegistrationTestBench, TLC

MCSubmaps ==
  0 :> [position |-> 10, yaw |-> 0] @@ 1 :> [position |-> 20, yaw |-> 1]
MCIds == {0, 1, 7}
MCRanges == << <<-1, 0, 2>>, <<0, 1>>, <<0>>, <<0>> >>
MCSolutions == {[position |-> 20, yaw |-> 1], [position |-> 11, yaw |-> 0]}
===============================================================================
