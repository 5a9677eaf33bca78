----------------------------- MODULE PodNetwork -----------------------------
(***************************************************************************)
(* A node's pods from the CNI plugin to the switch: CNIPlugin, extended by *)
(* the kubelet's pod status and the agent's pod handlers, which turn a     *)
(* pod's address and the port they find by its name into two flows.        *)
(*                                                                         *)
(*   cmdAdd --> port in the OVS database ---------------+                  *)
(*   cmdAdd --> address --> pod status --> pod event --> syncPod --> flows *)
(*                                                                         *)
(* The two ways are independent: an event may be handled when the port     *)
(* with the pod's name is that of another sandbox, or gone, and flows of   *)
(* pods that left are never removed.                                       *)
(***************************************************************************)
EXTENDS CNIPlugin, Sequences

CONSTANTS
  MaxBacklog             \* bound: no event is taken while more messages wait

Pods == UNION {{f[c] : c \in Sandboxes} : f \in Assignments}

ASSUME NetworkAssumption ==
  /\ MaxBacklog \in Nat
  /\ "none" \notin IPs
  /\ IsFiniteSet(Pods)

VARIABLES
  status,        \* per pod, status.podIP
  up,            \* is the agent running, and does it have its channel?
  cut,           \* or is it running without?
  podQ,          \* pod events waiting for openflow
  podc,          \* its pod handler
  queue,         \* flow messages on their way to the switch
  rewrites,      \* table L2Rewrites: per address, the output port
  reported       \* history: the addresses each pod has reported

agent   == <<up, cut, podQ, podc, queue>>
network == <<status, agent, rewrites, reported>>
podVars == <<vars, network>>

NoIP   == "none"
NoPort == -1

Running(p) == {c \in Sandboxes : podOf[c] = p /\ goal[c] = "up"}

-----------------------------------------------------------------------------
(* The kubelet                                                              *)

\* A pod has one sandbox at a time: the next one is made when the last one is
\* to go, though not before it is gone.
CreateNext(c) ==
  /\ \A d \in Sandboxes : podOf[d] = podOf[c] => goal[d] \notin {"add", "up"}
  /\ Create(c)
  /\ UNCHANGED network

\* The pod's status gets the address of its sandbox, or loses it.
ReportStatus(p) ==
  LET ips == UNION {Leased(c) : c \in Running(p)} IN
    /\ \E a \in IF ips = {} THEN {NoIP} ELSE ips :
         /\ status[p] # a
         /\ status' = [status EXCEPT ![p] = a]
         /\ podQ' = IF up /\ a # NoIP THEN Append(podQ, [pod |-> p, ip |-> a]) ELSE podQ
         /\ reported' = IF a # NoIP THEN reported \cup {[pod |-> p, ip |-> a]} ELSE reported
    /\ UNCHANGED <<vars, up, cut, podc, queue, rewrites>>

-----------------------------------------------------------------------------
(* The agent                                                                *)

Idle == [pc |-> "idle"]

Orders(S) == {s \in [1..Cardinality(S) -> S] : \A i, j \in DOMAIN s : s[i] = s[j] => i = j}

\* The pods in any order.  syncPod has nothing to do for a pod without an address
\* of this node's range, and its events are left out.
Listed ==
  Orders({[pod |-> p, ip |-> status[p]] : p \in {q \in Pods : status[q] # NoIP}})

StartAgent ==
  /\ ~up /\ ~cut
  /\ up' = TRUE
  /\ podQ' \in Listed
  /\ UNCHANGED <<vars, status, reported, cut, podc, queue, rewrites>>

\* Once a minute all pods again.  Bound: the last time has been worked off.
Resync ==
  /\ up /\ podQ = <<>> /\ podc = Idle /\ queue = <<>>
  /\ podQ' \in Listed
  /\ UNCHANGED <<vars, status, reported, up, cut, podc, queue, rewrites>>

\* Mutant: findPort does not look at the names.
SyncPodAnyPort ==
  /\ up /\ podc = Idle /\ podQ # <<>> /\ Len(queue) <= MaxBacklog
  /\ LET e == Head(podQ) IN
       \/ \E c \in ports : podc' = [pc |-> "flows", ip |-> e.ip, port |-> c]
       \/ ports = {} /\ podc' = Idle
  /\ podQ' = Tail(podQ)
  /\ UNCHANGED <<vars, status, reported, up, cut, queue, rewrites>>

\* syncPod up to findPort, which takes any port that carries the pod's name
SyncPod ==
  /\ up /\ podc = Idle /\ podQ # <<>> /\ Len(queue) <= MaxBacklog
  /\ LET e == Head(podQ)  found == {c \in ports : podOf[c] = e.pod} IN
       \/ \E c \in found : podc' = [pc |-> "flows", ip |-> e.ip, port |-> c]
       \/ found = {} /\ podc' = Idle
  /\ podQ' = Tail(podQ)
  /\ UNCHANGED <<vars, status, reported, up, cut, queue, rewrites>>

\* Mutant: an address that has its flow is skipped.
SendPodFlowsOnce ==
  /\ up /\ podc # Idle
  /\ queue' = IF rewrites[podc.ip] # NoPort THEN queue
                ELSE Append(queue, [ip |-> podc.ip, port |-> podc.port])
  /\ podc' = Idle
  /\ UNCHANGED <<vars, status, reported, up, cut, podQ, rewrites>>

\* The port's MAC address and number are read, unless it is gone by now, and
\* its flows are sent.
SendPodFlows ==
  /\ up /\ podc # Idle
  /\ queue' = IF podc.port \notin ports THEN queue
                ELSE Append(queue, [ip |-> podc.ip, port |-> podc.port])
  /\ podc' = Idle
  /\ UNCHANGED <<vars, status, reported, up, cut, podQ, rewrites>>

\* A flow replaces the one for the same protocol and address.
ApplyFlow ==
  /\ up /\ queue # <<>>
  /\ LET f == Head(queue) IN rewrites' = [rewrites EXCEPT ![f.ip] = f.port]
  /\ queue' = Tail(queue)
  /\ UNCHANGED <<vars, status, reported, up, cut, podQ, podc>>

NoRewrites == [a \in IPs |-> NoPort]

Stop == up' = FALSE /\ podQ' = <<>> /\ podc' = Idle /\ queue' = <<>>

\* Failures share the bound of CNIPlugin's: an ovs-vsctl command of the handler
\* fails and the event is over; the agent crashes; the connection with its hello
\* is lost, on which the channel breaks (FlowChannel); the switch restarts,
\* which loses its tables as well.  An agent without its channel goes on, but
\* nothing it does has an effect: all its pod handlers change is the switch.
AgentFault ==
  /\ faults < MaxFaults
  /\ faults' = faults + 1
  /\ \/ up /\ podc # Idle /\ podc' = Idle /\ UNCHANGED <<up, cut, podQ, queue, rewrites>>
     \/ up /\ Stop /\ UNCHANGED <<cut, rewrites>>
     \/ up /\ Stop /\ cut' = TRUE /\ UNCHANGED rewrites
     \/ rewrites' = NoRewrites /\ Stop /\ cut' = (up \/ cut)
  /\ UNCHANGED <<resources, podOf, goal, call, repeats, status, reported>>

\* Only a restart gives it its channel back.  The bound does not count it.
RestartAgent ==
  /\ cut /\ cut' = FALSE
  /\ UNCHANGED <<vars, status, reported, up, podQ, podc, queue, rewrites>>

-----------------------------------------------------------------------------
\* Without the bridge, which the agent makes, no cmdAdd succeeds: the agent runs
\* before the first pod.
PodInit ==
  /\ Init
  /\ status = [p \in Pods |-> NoIP]
  /\ up = TRUE /\ cut = FALSE /\ podQ = <<>> /\ podc = Idle /\ queue = <<>>
  /\ rewrites = NoRewrites /\ reported = {}

CNIStep(c) ==
  /\ CmdAdd(c) \/ CmdDel(c) \/ Fault(c) \/ TearDown(c) \/ StartDel(c) \/ StopSandbox(c)
  /\ UNCHANGED network

AgentStep == StartAgent \/ Resync \/ SyncPod \/ SendPodFlows \/ ApplyFlow

PodNext ==
  \/ \E c \in Sandboxes : CreateNext(c) \/ CNIStep(c)
  \/ \E p \in Pods : ReportStatus(p)
  \/ AgentStep
  \/ AgentFault \/ RestartAgent

PodSpec == PodInit /\ [][PodNext]_podVars

\* As in CNIPlugin; the kubelet reports, the agent runs and resyncs, and the
\* channel delivers.
PodFairness ==
  /\ \A c \in Sandboxes :
       /\ WF_podVars((CmdAdd(c) \/ CmdDel(c)) /\ UNCHANGED network)
       /\ WF_podVars(StartDel(c) /\ goal[c] = "down" /\ UNCHANGED network)
       /\ WF_podVars(StopSandbox(c) /\ goal[c] = "down" /\ UNCHANGED network)
  /\ \A p \in Pods : WF_podVars(ReportStatus(p))
  /\ WF_podVars(StartAgent) /\ WF_podVars(Resync) /\ WF_podVars(SyncPod \/ SendPodFlows)
  /\ WF_podVars(ApplyFlow)

PodFairSpec == PodSpec /\ PodFairness

-----------------------------------------------------------------------------
(* Properties                                                               *)

PodEvent == [pod : Pods, ip : IPs]
FlowMod  == [ip : IPs, port : Sandboxes]

\* Type invariant: CNIPlugin's, and the pods' status, events and flows.
PodTypeOK ==
  /\ TypeOK
  /\ status \in [Pods -> IPs \cup {NoIP}]
  /\ up \in BOOLEAN /\ cut \in BOOLEAN /\ podQ \in Seq(PodEvent) /\ queue \in Seq(FlowMod)
  /\ podc \in {Idle} \cup [pc : {"flows"}, ip : IPs, port : Sandboxes]
  /\ rewrites \in [IPs -> Sandboxes \cup {NoPort}] /\ reported \subseteq PodEvent

\* Packets for an address only ever go to a port of a pod that has had this
\* address, although the port is looked up by name long after the event was
\* sent, addresses pass from pod to pod and the agent starts over in between.
FlowsMatchPods ==
  \A a \in IPs :
    rewrites[a] # NoPort => [pod |-> podOf[rewrites[a]], ip |-> a] \in reported

\* A running sandbox is reachable in the end, as long as the agent has its
\* channel: the packets for its address go to its port, although flows are never
\* removed, events are handled late, and its address or its pod's name belonged
\* to other sandboxes before.  The exception are pods that a DEL without a netns
\* has left with a second port.
PodReachable ==
  \A c \in Sandboxes :
    <>[](~cut /\ goal[c] = "up" /\ (\A d \in ports : podOf[d] = podOf[c] => d = c)
           => \A a \in Leased(c) : rewrites[a] = c)

=============================================================================
