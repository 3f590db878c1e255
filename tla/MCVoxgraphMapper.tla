--------------------------- MODULE MCVoxgraphMapper ---------------------------
(***************************************************************************)
(* The mapper node for TLC: the sets of services that the configurations   *)
(* choose from.                                                            *)
(***************************************************************************)
EXTENDS VoxgraphMapper

NoService == {}
FinishMap == {"finish_map"}
BothServices == {"finish_map", "optimize_pose_graph"}
===============================================================================
