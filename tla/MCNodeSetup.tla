---------------------------- MODULE MCNodeSetup ----------------------------
(* Instances of NodeSetup for TLC: a cluster of two nodes, and of one. *)
EXTENDS NodeSetup

TwoNodes == {"n1", "n2"}
OneNode  == {"n1"}

Range(n) == IF n = "n1" THEN "range1" ELSE "range2"
RangesOf == [n \in Nodes |-> Range(n)]
=============================================================================
