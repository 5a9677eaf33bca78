------------------------------ MODULE TunnelIDs ------------------------------
(***************************************************************************)
(* What the tunnel ID allocator promises, without its API calls: a         *)
(* registry in which a config enters without an ID, gets at some instant   *)
(* one that nobody holds at that instant, keeps it, and gives it back when *)
(* it leaves.                                                              *)
(***************************************************************************)
EXTENDS Integers

CONSTANTS Nodes, Pool

VARIABLE ids      \* per node: Absent, 0 while there is no ID, or the ID

Absent == -1

Register(n) ==
  /\ ids[n] = Absent
  /\ ids' = [ids EXCEPT ![n] = 0]

Allocate(n, id) ==
  /\ ids[n] = 0
  /\ \A m \in Nodes : ids[m] # id
  /\ ids' = [ids EXCEPT ![n] = id]

Release(n) ==
  /\ ids[n] # Absent
  /\ ids' = [ids EXCEPT ![n] = Absent]

Init == ids = [n \in Nodes |-> Absent]

Next ==
  \E n \in Nodes :
    \/ Register(n)
    \/ \E id \in Pool : Allocate(n, id)
    \/ Release(n)

Spec == Init /\ [][Next]_ids
=============================================================================
