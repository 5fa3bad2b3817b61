---------------------------- MODULE MCTrafficViewer ----------------------------
(* TrafficViewer for TLC: exchanges are interchangeable, nothing orders them.  *)
EXTENDS TrafficViewer, TLC

Symmetry == Permutations(Req)
================================================================================
