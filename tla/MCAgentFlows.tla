---------------------------- MODULE MCAgentFlows ----------------------------
(* Instances of AgentFlows for TLC.  This node has the range {gw, a1}, the   *)
(* other range is {b1}.                                                     *)
EXTENDS AgentFlows

Mine    == {"gw", "a1"}
Theirs  == {"b1"}
Cluster == Mine \cup Theirs
Ranges  == {Mine, Theirs}

Of(n, cidr, ip, ids) == [node : {n}, cidr : {cidr}, overlayIP : {ip}, tunnelID : ids]

Own == Of("self", Mine, "x", {0})

\* Two nodes that may hold the same range, one after the other or both; the
\* second one may also claim ours.
Shared ==
  Own \cup Of("n1", Theirs, "y", {0, 100}) \cup Of("n2", Theirs, "z", {0, 100})
      \cup Of("n2", Mine, "z", {100})
=============================================================================
