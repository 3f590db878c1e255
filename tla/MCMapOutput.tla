----------------------------- MODULE MCMapOutput -----------------------------
(* The outputs for TLC, with the finish_map service. *)
EXTENDS MapOutput

FinishMap == {"finish_map"}
===============================================================================
