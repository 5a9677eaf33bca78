------------------------------ MODULE CNIPlugin ------------------------------
(***************************************************************************)
(* kube-ovs-cni: cmdAdd wires a pod sandbox to the bridge, cmdDel undoes   *)
(* it.  Each invocation is a process of its own; the ones for different    *)
(* sandboxes run side by side, and every command they run (netlink,        *)
(* ovs-vsctl, the IPAM plugin) is one step that may fail.  What they leave *)
(* behind is in three places that know nothing of each other: the          *)
(* sandbox's network namespace, the OVS database and the IPAM store.       *)
(*                                                                         *)
(* The configuration is the one the agent installs: IPAM is host-local and *)
(* ipMasq is off.  Its isGateway does not reach NetConf.IsGW (the struct   *)
(* tag lacks a quote), so cmdAdd leaves the bridge's address alone.        *)
(***************************************************************************)
EXTENDS Integers, FiniteSets

CONSTANTS
  Sandboxes,     \* pod sandboxes, numbered as they are created; each has its own
                 \*   container ID and netns
  Assignments,   \* functions from sandboxes to their pods (namespace and name)
  IPs,           \* the pod CIDR's addresses
  MaxFaults,     \* bound: commands that fail
  MaxRepeats     \* bound: DELs of a sandbox whose DEL has succeeded already

ASSUME PluginAssumption ==
  /\ MaxFaults \in Nat /\ MaxRepeats \in Nat
  /\ Sandboxes \subseteq Nat
  /\ \A f \in Assignments : DOMAIN f = Sandboxes

VARIABLES
  podOf,         \* the pod of every sandbox, one of the assignments
  netns,         \* per sandbox: "none", "alive" or "gone"
  goal,          \* per sandbox, the kubelet's view: "new", "add", "up", "down",
                 \*   "released"
  call,          \* per sandbox, the running invocation
  veth,          \* sandboxes whose interface (and its host end) exists
  ports,         \* sandboxes that have a port in the OVS database
  lease,         \* IPAM store: who holds an address
  faults, repeats

vars == <<podOf, netns, goal, call, veth, ports, lease, faults, repeats>>

resources == <<netns, veth, ports, lease>>

Free == -1           \* the holder of an address that is not leased

Leased(c) == {a \in IPs : lease[a] = c}

\* The invocation for c goes on at step pc.
Goto(c, pc) ==
  /\ call' = [call EXCEPT ![c] = pc]
  /\ UNCHANGED goal

\* The invocation for c ends, and the kubelet takes note.
Return(c, g) ==
  /\ call' = [call EXCEPT ![c] = "none"]
  /\ goal' = [goal EXCEPT ![c] = g]

\* An address is released by container ID, if there is one.
ExecDel(c) == lease' = [a \in IPs |-> IF lease[a] = c THEN Free ELSE lease[a]]

-----------------------------------------------------------------------------
(* cmdAdd                                                                   *)

SetupVeth(c) ==
  /\ call[c] = "setupVeth"
  /\ veth' = veth \cup {c}
  /\ Goto(c, "addPort")
  /\ UNCHANGED <<netns, ports, lease, podOf, faults, repeats>>

\* The port carries netns, pod namespace and pod name as external IDs.
AddPort(c) ==
  /\ call[c] = "addPort"
  /\ ports' = ports \cup {c}
  /\ Goto(c, "ipamAdd")
  /\ UNCHANGED <<netns, veth, lease, podOf, faults, repeats>>

\* The host end is set up and the IPAM plugin asked for an address.  It has
\* none to give when all are leased: cmdAdd fails.
IpamAdd(c) ==
  /\ call[c] = "ipamAdd"
  /\ \/ \E a \in IPs :
          /\ lease[a] = Free
          /\ lease' = [lease EXCEPT ![a] = c]
          /\ Goto(c, "configure")
     \/ /\ \A a \in IPs : lease[a] # Free
        /\ Return(c, "down")
        /\ UNCHANGED lease
  /\ UNCHANGED <<netns, veth, ports, podOf, faults, repeats>>

\* The container's interface is given the address; the invocation succeeds.
ConfigureIface(c) ==
  /\ call[c] = "configure"
  /\ Return(c, "up")
  /\ UNCHANGED <<resources, podOf, faults, repeats>>

\* The deferred release of an invocation that fails after IPAM; the port and
\* the interface stay.
ReleaseOnFailure(c) ==
  /\ call[c] = "undo"
  /\ ExecDel(c)
  /\ Return(c, "down")
  /\ UNCHANGED <<netns, veth, ports, podOf, faults, repeats>>

-----------------------------------------------------------------------------
(* cmdDel                                                                   *)

\* Mutant: the netns is left out of the query.
MatchingByPod(c) == {p \in ports : podOf[p] = podOf[c]}

\* ports of a netns, pod namespace and pod name
Matching(c) == {p \in ports : p = c /\ podOf[p] = podOf[c]}

\* findPort returns an error when there is no such port, and cmdDel with it.
FindPort(c) ==
  /\ call[c] = "findPort"
  /\ IF Matching(c) = {} THEN Return(c, "down") ELSE Goto(c, "delPort")
  /\ UNCHANGED <<resources, podOf, faults, repeats>>

\* del-port --if-exists of the first match
DelPort(c) ==
  /\ call[c] = "delPort"
  /\ \E p \in Matching(c) : ports' = ports \ {p}
  /\ Goto(c, "ipamDel")
  /\ UNCHANGED <<netns, veth, lease, podOf, faults, repeats>>

\* Mutant: without a netns there is nothing to do.
IpamDelWithNetns(c) ==
  /\ \/ call[c] = "ipamDel" /\ Goto(c, "delLink") /\ ExecDel(c)
     \/ call[c] = "ipamDelOnly" /\ Return(c, "released") /\ UNCHANGED lease
  /\ UNCHANGED <<netns, veth, ports, podOf, faults, repeats>>

\* Without a netns argument this is the first step and the last one.
IpamDel(c) ==
  /\ \/ call[c] = "ipamDel" /\ Goto(c, "delLink")
     \/ call[c] = "ipamDelOnly" /\ Return(c, "released")
  /\ ExecDel(c)
  /\ UNCHANGED <<netns, veth, ports, podOf, faults, repeats>>

\* A missing interface is fine, a missing netns is an error.
DelLink(c) ==
  /\ call[c] = "delLink"
  /\ veth' = veth \ {c}
  /\ Return(c, IF netns[c] = "alive" THEN "released" ELSE "down")
  /\ UNCHANGED <<netns, ports, lease, podOf, faults, repeats>>

-----------------------------------------------------------------------------
(* A command fails.  ExecDel's error is ignored in the deferred function.   *)

\* Mutant: the deferred release is not tied to cmdAdd.
FaultUndoes(c) ==
  /\ call[c] # "none" /\ faults < MaxFaults
  /\ faults' = faults + 1
  /\ Goto(c, "undo")
  /\ UNCHANGED <<resources, podOf, repeats>>

Fault(c) ==
  /\ call[c] # "none" /\ faults < MaxFaults
  /\ faults' = faults + 1
  /\ IF call[c] = "configure" THEN Goto(c, "undo") ELSE Return(c, "down")
  /\ UNCHANGED <<resources, podOf, repeats>>

\* Mutant: the port is looked for without a netns as well.
FirstDelStepNoSkip(c) == "findPort"

\* cmdDel begins with the port if it is given a netns, which it is while there
\* is one.
FirstDelStep(c) == IF netns[c] = "alive" THEN "findPort" ELSE "ipamDelOnly"

-----------------------------------------------------------------------------
(* The kubelet and the container runtime                                    *)

\* A new sandbox, and ADD for it
Create(c) ==
  /\ goal[c] = "new" /\ \A d \in Sandboxes : d < c => goal[d] # "new"
  /\ netns' = [netns EXCEPT ![c] = "alive"]
  /\ goal' = [goal EXCEPT ![c] = "add"]
  /\ call' = [call EXCEPT ![c] = "setupVeth"]
  /\ UNCHANGED <<veth, ports, lease, podOf, faults, repeats>>

TearDown(c) ==
  /\ goal[c] = "up"
  /\ goal' = [goal EXCEPT ![c] = "down"]
  /\ UNCHANGED <<call, resources, podOf, faults, repeats>>

\* DEL.  The kubelet repeats it until it succeeds, and may do so afterwards.
StartDel(c) ==
  /\ call[c] = "none"
  /\ \/ goal[c] = "down" /\ UNCHANGED repeats
     \/ goal[c] = "released" /\ repeats < MaxRepeats /\ repeats' = repeats + 1
  /\ goal' = [goal EXCEPT ![c] = "down"]
  /\ call' = [call EXCEPT ![c] = FirstDelStep(c)]
  /\ UNCHANGED <<resources, podOf, faults>>

\* The sandbox is stopped or dies, also with its node.  Its interfaces go with
\* it; cmdAdd keeps the namespace open while it runs.
StopSandbox(c) ==
  /\ netns[c] = "alive" /\ goal[c] # "add"
  /\ netns' = [netns EXCEPT ![c] = "gone"]
  /\ veth' = veth \ {c}
  /\ goal' = [goal EXCEPT ![c] = IF @ = "up" THEN "down" ELSE @]
  /\ UNCHANGED <<call, ports, lease, podOf, faults, repeats>>

-----------------------------------------------------------------------------
Init ==
  /\ podOf \in Assignments
  /\ netns = [c \in Sandboxes |-> "none"] /\ goal = [c \in Sandboxes |-> "new"]
  /\ call = [c \in Sandboxes |-> "none"]
  /\ veth = {} /\ ports = {} /\ lease = [a \in IPs |-> Free]
  /\ faults = 0 /\ repeats = 0

CmdAdd(c) ==
  SetupVeth(c) \/ AddPort(c) \/ IpamAdd(c) \/ ConfigureIface(c) \/ ReleaseOnFailure(c)

CmdDel(c) == FindPort(c) \/ DelPort(c) \/ IpamDel(c) \/ DelLink(c)

Kubelet(c) == Create(c) \/ TearDown(c) \/ StartDel(c) \/ StopSandbox(c)

Next == \E c \in Sandboxes : CmdAdd(c) \/ CmdDel(c) \/ Fault(c) \/ Kubelet(c)

Spec == Init /\ [][Next]_vars

\* Invocations end, the kubelet repeats a DEL that failed, and a sandbox that
\* is to go is stopped at last.
Fairness ==
  \A c \in Sandboxes :
    /\ WF_vars(CmdAdd(c) \/ CmdDel(c))
    /\ WF_vars(StartDel(c) /\ goal[c] = "down")
    /\ WF_vars(StopSandbox(c) /\ goal[c] = "down")

FairSpec == Spec /\ Fairness

-----------------------------------------------------------------------------
(* Properties                                                               *)

AddSteps == {"setupVeth", "addPort", "ipamAdd", "configure", "undo"}
DelSteps == {"findPort", "delPort", "ipamDel", "ipamDelOnly", "delLink"}

\* Type invariant: the steps of cmdAdd and cmdDel and what they work on.
TypeOK ==
  /\ podOf \in Assignments
  /\ netns \in [Sandboxes -> {"none", "alive", "gone"}]
  /\ goal \in [Sandboxes -> {"new", "add", "up", "down", "released"}]
  /\ call \in [Sandboxes -> AddSteps \cup DelSteps \cup {"none"}]
  /\ veth \in SUBSET Sandboxes /\ ports \in SUBSET Sandboxes
  /\ lease \in [IPs -> Sandboxes \cup {Free}]
  /\ faults \in Nat /\ repeats \in Nat
  /\ \A c \in Sandboxes :
       /\ call[c] \in AddSteps => goal[c] = "add"
       /\ call[c] \in DelSteps => goal[c] = "down"

\* A sandbox whose cmdAdd succeeded has its interface, its port and one
\* address until it is torn down, whatever the invocations for the other
\* sandboxes do or leave undone, those of the same pod included.
RunningIsWired ==
  \A c \in Sandboxes :
    goal[c] = "up" =>
      c \in veth /\ c \in ports /\ Cardinality(Leased(c)) = 1

\* After a cmdDel that succeeded the sandbox holds no address and no interface,
\* also when the one before it failed half way or the sandbox was gone.
ReleasedIsClean ==
  \A c \in Sandboxes : goal[c] = "released" => Leased(c) = {} /\ c \notin veth

\* The address of a sandbox that is torn down comes back to the pool although
\* findPort fails every DEL that repeats one which failed after delPort.
LeasesReturned ==
  \A c \in Sandboxes : goal[c] = "down" ~> Leased(c) = {}

\* After a cmdDel that succeeded the sandbox has no port: if there is no netns,
\* the port can be assumed to be deleted.
ReleasedHasNoPort ==
  \A c \in Sandboxes : goal[c] = "released" => c \notin ports

=============================================================================
