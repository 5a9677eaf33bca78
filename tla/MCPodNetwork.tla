---------------------------- MODULE MCPodNetwork ----------------------------
(* Instances of PodNetwork for TLC: the second of two sandboxes replaces the *)
(* first one of its pod, or belongs to another pod.                         *)
EXTENDS PodNetwork

OneOrTwoPods ==
  {[c \in Sandboxes |-> "a"], [c \in Sandboxes |-> IF c = 1 THEN "a" ELSE "b"]}
=============================================================================
