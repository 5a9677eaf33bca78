----------------------------- MODULE MCCNIPlugin -----------------------------
(* Instances of CNIPlugin for TLC: two sandboxes of one pod. *)
EXTENDS CNIPlugin

SamePod == {[c \in Sandboxes |-> "a"]}
=============================================================================
