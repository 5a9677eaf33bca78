-------------------------- MODULE MCVSwitchControl --------------------------
(* Instances of VSwitchControl for TLC. *)
EXTENDS VSwitchControl, TLC

\* A node whose two addresses and pod CIDR are set, one that lost its internal
\* address, and one the control plane has not given a pod CIDR yet.
Full    == [internalIP |-> "ip1", externalIP |-> "ip2", podCIDR |-> "c1"]
Moved   == [internalIP |-> "", externalIP |-> "ip2", podCIDR |-> "c1"]
Pending == [internalIP |-> "ip1", externalIP |-> "", podCIDR |-> ""]

TwoInputs   == {Full, Moved}
AllInputs   == {Full, Moved, Pending}
OneInput    == {Full}

NodeSymmetry == Permutations(Nodes)
=============================================================================
