--------------------------- MODULE MCVoxgraphSubmap ---------------------------
(***************************************************************************)
(* The submaps for TLC.                                                    *)
(***************************************************************************)
EXTENDS VoxgraphSubmap

Around == -2..2
NoShift == {}
OneBlock == {-1, 1}
===============================================================================
