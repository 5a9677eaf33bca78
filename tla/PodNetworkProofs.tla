-------------------------- MODULE PodNetworkProofs --------------------------
(***************************************************************************)
(* CNIPlugin's invariant in the composition: the agent only reads what the *)
(* plugin writes, so a step of PodNetwork is one of CNIPlugin or leaves    *)
(* the plugin's state alone but for the count of failures.                 *)
(***************************************************************************)
EXTENDS PodNetwork, CNIPluginProofs

\* types of what PodNetwork adds
NetworkTypeOK ==
  /\ status \in [Pods -> IPs \cup {NoIP}]
  /\ up \in BOOLEAN /\ cut \in BOOLEAN /\ podQ \in Seq(PodEvent) /\ queue \in Seq(FlowMod)
  /\ podc \in {Idle} \cup [pc : {"flows"}, ip : IPs, port : Sandboxes]
  /\ rewrites \in [IPs -> Sandboxes \cup {NoPort}] /\ reported \subseteq PodEvent

\* the inductive invariant
PodInv == PluginInv /\ NetworkTypeOK

\* The informer lists the pods as a sequence of events.
LEMMA ListedType ==
  ASSUME NetworkTypeOK, NEW q \in Listed
  PROVE  q \in Seq(PodEvent)
<1> DEFINE P == {p \in Pods : status[p] # NoIP}
           S == {[pod |-> p, ip |-> status[p]] : p \in P}
           f == [p \in P |-> [pod |-> p, ip |-> status[p]]]
<1>1. IsFiniteSet(P)
  BY NetworkAssumption, FS_Subset
<1>2. f \in Surjection(P, S)
  BY DEF Surjection
<1>3. Cardinality(S) \in Nat
  <2> HIDE DEF f, S, P
  <2>1. IsFiniteSet(S)
    BY <1>1, <1>2, FS_Surjection
  <2> QED BY <2>1, FS_CardinalityType
<1>4. S \subseteq PodEvent
  BY DEF NetworkTypeOK, PodEvent
<1>5. q \in [1..Cardinality(S) -> S]
  BY DEF Listed, Orders
<1> HIDE DEF S
<1> QED BY <1>3, <1>4, <1>5

LEMMA PodInitInv == PodInit => PodInv
<1> SUFFICES ASSUME PodInit PROVE PodInv
  OBVIOUS
<1>1. PluginInv
  BY InitInv DEF PodInit
<1>2. NetworkTypeOK
  <2>1. up \in BOOLEAN /\ cut \in BOOLEAN
    BY Zenon DEF PodInit
  <2> QED BY <2>1 DEF PodInit, NetworkTypeOK, NoRewrites
<1> QED BY <1>1, <1>2 DEF PodInv

\* steps of the kubelet and of the plugin
LEMMA CNIStepInv ==
  ASSUME PodInv, NEW c \in Sandboxes, CreateNext(c) \/ CNIStep(c)
  PROVE  PodInv'
<1>1. UNCHANGED network
  BY DEF CreateNext, CNIStep
<1>2. NetworkTypeOK'
  BY <1>1 DEF PodInv, NetworkTypeOK, network, agent
<1>3. CmdAdd(c) \/ CmdDel(c) \/ Fault(c) \/ Kubelet(c)
  BY DEF CreateNext, CNIStep, Kubelet
<1>4. PluginInv'
  BY <1>3, StepInv DEF PodInv
<1> QED BY <1>2, <1>4 DEF PodInv

\* steps that leave the plugin's state alone
LEMMA NetworkStepInv ==
  ASSUME PodInv, UNCHANGED vars, NetworkTypeOK'
  PROVE  PodInv'
<1>1. faults' \in Nat /\ repeats' \in Nat
  BY DEF PodInv, PluginInv, TypeOK, vars
<1>2. UNCHANGED <<resources, podOf, goal, call>>
  BY DEF vars, resources
<1>3. PluginInv'
  BY <1>1, <1>2, StutterInv DEF PodInv
<1> QED BY <1>3 DEF PodInv

LEMMA ReportStatusInv ==
  ASSUME PodInv, NEW p \in Pods, ReportStatus(p)
  PROVE  PodInv'
<1>1. PICK a \in IPs \cup {NoIP} :
        /\ status' = [status EXCEPT ![p] = a]
        /\ podQ' = IF up /\ a # NoIP THEN Append(podQ, [pod |-> p, ip |-> a]) ELSE podQ
        /\ reported' = IF a # NoIP THEN reported \cup {[pod |-> p, ip |-> a]} ELSE reported
  BY DEF ReportStatus, Leased
<1>2. status' \in [Pods -> IPs \cup {NoIP}]
  BY <1>1 DEF PodInv, NetworkTypeOK
<1>3. podQ' \in Seq(PodEvent)
  <2>1. CASE a \in IPs
    <3>1. [pod |-> p, ip |-> a] \in PodEvent
      BY <2>1 DEF PodEvent
    <3> QED BY <1>1, <3>1 DEF PodInv, NetworkTypeOK
  <2>2. CASE a = NoIP
    BY <1>1, <2>2 DEF PodInv, NetworkTypeOK
  <2> QED BY <2>1, <2>2
<1>4. UNCHANGED <<vars, up, cut, podc, queue, rewrites>>
  BY DEF ReportStatus
<1>5. reported' \subseteq PodEvent
  BY <1>1 DEF PodInv, NetworkTypeOK, PodEvent
<1>6. NetworkTypeOK'
  BY <1>2, <1>3, <1>4, <1>5 DEF PodInv, NetworkTypeOK
<1> QED BY <1>4, <1>6, NetworkStepInv

LEMMA AgentStepInv ==
  ASSUME PodInv, AgentStep
  PROVE  PodInv'
<1>0. NetworkTypeOK
  BY DEF PodInv
<1>1. CASE StartAgent
  <2>1. podQ' \in Seq(PodEvent)
    BY <1>0, <1>1, ListedType DEF StartAgent
  <2>2. NetworkTypeOK'
    BY <1>0, <1>1, <2>1 DEF StartAgent, NetworkTypeOK
  <2> QED BY <1>1, <2>2, NetworkStepInv DEF StartAgent
<1>2. CASE Resync
  <2>1. podQ' \in Seq(PodEvent)
    BY <1>0, <1>2, ListedType DEF Resync
  <2>2. NetworkTypeOK'
    BY <1>0, <1>2, <2>1 DEF Resync, NetworkTypeOK
  <2> QED BY <1>2, <2>2, NetworkStepInv DEF Resync
<1>3. CASE SyncPod
  <2>1. Head(podQ) \in PodEvent /\ podQ' \in Seq(PodEvent)
    BY <1>0, <1>3 DEF SyncPod, NetworkTypeOK
  <2>2. ports \subseteq Sandboxes
    BY DEF PodInv, PluginInv, TypeOK
  <2>3. podc' \in {Idle} \cup [pc : {"flows"}, ip : IPs, port : Sandboxes]
    BY <1>3, <2>1, <2>2 DEF SyncPod, PodEvent
  <2>4. NetworkTypeOK'
    BY <1>0, <1>3, <2>1, <2>3 DEF SyncPod, NetworkTypeOK
  <2> QED BY <1>3, <2>4, NetworkStepInv DEF SyncPod
<1>4. CASE SendPodFlows
  <2>1. [ip |-> podc.ip, port |-> podc.port] \in FlowMod
    BY <1>0, <1>4 DEF SendPodFlows, NetworkTypeOK, FlowMod
  <2>2. queue' \in Seq(FlowMod)
    BY <1>0, <1>4, <2>1 DEF SendPodFlows, NetworkTypeOK
  <2>3. NetworkTypeOK'
    BY <1>0, <1>4, <2>2 DEF SendPodFlows, NetworkTypeOK
  <2> QED BY <1>4, <2>3, NetworkStepInv DEF SendPodFlows
<1>5. CASE ApplyFlow
  <2>1. Head(queue) \in FlowMod /\ queue' \in Seq(FlowMod)
    BY <1>0, <1>5 DEF ApplyFlow, NetworkTypeOK
  <2>2. rewrites' \in [IPs -> Sandboxes \cup {NoPort}]
    BY <1>0, <1>5, <2>1 DEF ApplyFlow, NetworkTypeOK, FlowMod
  <2>3. NetworkTypeOK'
    BY <1>0, <1>5, <2>1, <2>2 DEF ApplyFlow, NetworkTypeOK
  <2> QED BY <1>5, <2>3, NetworkStepInv DEF ApplyFlow
<1> QED BY <1>1, <1>2, <1>3, <1>4, <1>5 DEF AgentStep

LEMMA AgentFaultInv ==
  ASSUME PodInv, AgentFault
  PROVE  PodInv'
<1>1. faults' \in Nat /\ repeats' \in Nat
  BY DEF AgentFault, PodInv, PluginInv, TypeOK
<1>2. PluginInv'
  BY <1>1, StutterInv DEF AgentFault, PodInv
<1>3. NetworkTypeOK /\ UNCHANGED <<status, reported>>
  BY DEF AgentFault, PodInv
<1>4. cut' \in BOOLEAN
  <2>1. CASE cut' = (up \/ cut)
    BY <2>1, Zenon
  <2>2. CASE cut' # (up \/ cut)
    BY <1>3, <2>2 DEF AgentFault, NetworkTypeOK
  <2> QED BY <2>1, <2>2
<1>5. CASE podc' = Idle /\ UNCHANGED <<up, podQ, queue, rewrites>>
  BY <1>2, <1>3, <1>4, <1>5 DEF NetworkTypeOK, PodInv
<1>6. CASE Stop
  <2>1. up' \in BOOLEAN
    BY <1>6, Zenon DEF Stop
  <2>2. podQ' \in Seq(PodEvent) /\ queue' \in Seq(FlowMod)
    BY <1>6 DEF Stop
  <2>3. rewrites' \in [IPs -> Sandboxes \cup {NoPort}]
    BY <1>3 DEF AgentFault, NetworkTypeOK, NoRewrites
  <2> QED BY <1>2, <1>3, <1>4, <1>6, <2>1, <2>2, <2>3 DEF Stop, NetworkTypeOK, PodInv
<1> QED BY <1>5, <1>6 DEF AgentFault

LEMMA RestartAgentInv ==
  ASSUME PodInv, RestartAgent
  PROVE  PodInv'
<1>1. cut' \in BOOLEAN
  BY Zenon DEF RestartAgent
<1>2. NetworkTypeOK'
  BY <1>1 DEF RestartAgent, PodInv, NetworkTypeOK
<1> QED BY <1>2, NetworkStepInv DEF RestartAgent

LEMMA PodNextInv == PodInv /\ [PodNext]_podVars => PodInv'
<1> SUFFICES ASSUME PodInv, [PodNext]_podVars PROVE PodInv'
  OBVIOUS
<1>1. CASE PodNext
  BY <1>1, CNIStepInv, ReportStatusInv, AgentStepInv, AgentFaultInv, RestartAgentInv
  DEF PodNext
<1>2. CASE UNCHANGED podVars
  <2>1. NetworkTypeOK'
    BY <1>2 DEF podVars, network, agent, PodInv, NetworkTypeOK
  <2> QED BY <1>2, <2>1, NetworkStepInv DEF podVars
<1> QED BY <1>1, <1>2

LEMMA PodInvariant == PodSpec => []PodInv
BY PodInitInv, PodNextInv, PTL DEF PodSpec

\* The node's pods, events and flows keep their types.
THEOREM PodTypeCorrect == PodSpec => []PodTypeOK
<1>1. PodInv => PodTypeOK
  BY DEF PodInv, PluginInv, NetworkTypeOK, PodTypeOK
<1> QED BY <1>1, PodInvariant, PTL

\* RunningIsWired and ReleasedIsClean hold of the composition with the kubelet's
\* status, the agent and its failures as well.
THEOREM PodNetworkSafe == PodSpec => [](RunningIsWired /\ ReleasedIsClean)
<1>1. PodInv => RunningIsWired /\ ReleasedIsClean
  BY PluginInvImplies DEF PodInv
<1> QED BY <1>1, PodInvariant, PTL

-----------------------------------------------------------------------------
(* Whose packets a port gets.  From the report of an address to the flow for *)
(* it there is always a report behind what the agent carries on: reports are *)
(* history, so a later one takes nothing back, and the pod of a sandbox is   *)
(* fixed, so that a port found by a name stays one of that pod.              *)

\* an event, and a flow, of a pod that has had the address
IsReported(e)   == e \in reported
FlowReported(f) == [pod |-> podOf[f.port], ip |-> f.ip] \in reported

\* the chain of reports from the status to the table
FlowInv ==
  /\ \A p \in Pods : status[p] # NoIP => [pod |-> p, ip |-> status[p]] \in reported
  /\ \A i \in 1..Len(podQ) : IsReported(podQ[i])
  /\ podc # Idle => FlowReported(podc)
  /\ \A i \in 1..Len(queue) : FlowReported(queue[i])
  /\ FlowsMatchPods

\* What the informer lists has been reported.
LEMMA ListedReported ==
  ASSUME NetworkTypeOK, FlowInv, NEW q \in Listed, NEW i \in 1..Len(q)
  PROVE  q[i] \in reported
<1> DEFINE S == {[pod |-> p, ip |-> status[p]] : p \in {r \in Pods : status[r] # NoIP}}
<1>1. S \subseteq reported
  BY DEF FlowInv
<1>2. q \in [1..Cardinality(S) -> S]
  BY DEF Listed, Orders
<1>3. DOMAIN q = 1..Len(q)
  <2>1. q \in Seq(PodEvent)
    BY ListedType
  <2> QED BY <2>1
<1> HIDE DEF S
<1>4. DOMAIN q = 1..Cardinality(S) /\ (\A k \in 1..Cardinality(S) : q[k] \in S)
  BY <1>2, Zenon
<1>5. q[i] \in S
  BY <1>3, <1>4, Zenon
<1> QED BY <1>1, <1>5

\* No step of the plugin or the kubelet moves a sandbox to another pod.
LEMMA PodOfFixed ==
  ASSUME NEW c \in Sandboxes, CreateNext(c) \/ CNIStep(c)
  PROVE  UNCHANGED podOf
<1>1. CmdAdd(c) => UNCHANGED podOf
  BY DEF CmdAdd, SetupVeth, AddPort, IpamAdd, ConfigureIface, ReleaseOnFailure
<1>2. CmdDel(c) => UNCHANGED podOf
  BY DEF CmdDel, FindPort, DelPort, IpamDel, DelLink
<1>3. Fault(c) \/ TearDown(c) \/ StartDel(c) \/ StopSandbox(c) => UNCHANGED podOf
  BY DEF Fault, TearDown, StartDel, StopSandbox
<1>4. Create(c) => UNCHANGED podOf
  BY DEF Create
<1> QED BY <1>1, <1>2, <1>3, <1>4 DEF CreateNext, CNIStep

LEMMA FlowInit == PodInit => FlowInv
<1> SUFFICES ASSUME PodInit PROVE FlowInv
  OBVIOUS
<1>1. FlowsMatchPods
  BY DEF PodInit, NoRewrites, FlowsMatchPods
<1>2. \A p \in Pods : status[p] = NoIP
  BY DEF PodInit
<1>3. podQ = <<>> /\ queue = <<>> /\ podc = Idle
  BY DEF PodInit
<1> QED BY <1>1, <1>2, <1>3 DEF FlowInv

LEMMA FlowStutter ==
  ASSUME FlowInv, UNCHANGED podOf, UNCHANGED network
  PROVE  FlowInv'
BY DEF FlowInv, FlowsMatchPods, IsReported, FlowReported, network, agent

LEMMA ReportStatusFlow ==
  ASSUME PodInv, FlowInv, NEW p \in Pods, ReportStatus(p)
  PROVE  FlowInv'
<1>1. PICK a \in IPs \cup {NoIP} :
        /\ status' = [status EXCEPT ![p] = a]
        /\ podQ' = IF up /\ a # NoIP THEN Append(podQ, [pod |-> p, ip |-> a]) ELSE podQ
        /\ reported' = IF a # NoIP THEN reported \cup {[pod |-> p, ip |-> a]} ELSE reported
  BY DEF ReportStatus, Leased
<1>2. UNCHANGED <<podOf, podc, queue, rewrites>>
  BY DEF ReportStatus, vars
<1>3. NetworkTypeOK
  BY DEF PodInv
<1>4. \A q \in Pods : status'[q] # NoIP => [pod |-> q, ip |-> status'[q]] \in reported'
  BY <1>1, <1>3 DEF NetworkTypeOK, FlowInv
<1>5. \A i \in 1..Len(podQ') : podQ'[i] \in reported'
  <2>1. CASE up /\ a # NoIP
    <3>1. podQ' = Append(podQ, [pod |-> p, ip |-> a])
      BY <1>1, <2>1
    <3> QED BY <1>1, <1>3, <3>1 DEF NetworkTypeOK, FlowInv, IsReported
  <2>2. CASE ~(up /\ a # NoIP)
    BY <1>1, <2>2 DEF FlowInv, IsReported
  <2> QED BY <2>1, <2>2
<1>6. reported \subseteq reported'
  BY <1>1
<1>7. FlowsMatchPods'
  BY <1>2, <1>6 DEF FlowInv, FlowsMatchPods
<1>8. (podc # Idle => FlowReported(podc))' /\ (\A i \in 1..Len(queue) : FlowReported(queue[i]))'
  BY <1>2, <1>6 DEF FlowInv, FlowReported
<1> QED BY <1>4, <1>5, <1>7, <1>8 DEF FlowInv, IsReported

LEMMA AgentStepFlow ==
  ASSUME PodInv, FlowInv, AgentStep
  PROVE  FlowInv'
<1>0. NetworkTypeOK
  BY DEF PodInv
<1>1. UNCHANGED <<podOf, status, reported>>
  BY DEF AgentStep, StartAgent, Resync, SyncPod, SendPodFlows, ApplyFlow, vars
<1>2. CASE StartAgent \/ Resync
  <2>1. \A i \in 1..Len(podQ') : podQ'[i] \in reported
    BY <1>0, <1>2, ListedReported DEF StartAgent, Resync
  <2>2. UNCHANGED <<podc, queue, rewrites>>
    BY <1>2 DEF StartAgent, Resync
  <2> QED BY <1>1, <2>1, <2>2 DEF FlowInv, FlowsMatchPods, IsReported, FlowReported
<1>3. CASE SyncPod
  <2>1. Head(podQ) \in reported
    BY <1>0, <1>3 DEF SyncPod, NetworkTypeOK, FlowInv, IsReported
  <2>2. \A i \in 1..Len(podQ') : podQ'[i] \in reported
    BY <1>0, <1>3 DEF SyncPod, NetworkTypeOK, FlowInv, IsReported
  <2>3. Head(podQ) \in PodEvent
    BY <1>0, <1>3 DEF SyncPod, NetworkTypeOK
  <2>4. podc' # Idle => [pod |-> podOf[podc'.port], ip |-> podc'.ip] \in reported
    <3>1. SUFFICES ASSUME podc' # Idle
                   PROVE  [pod |-> podOf[podc'.port], ip |-> podc'.ip] \in reported
      OBVIOUS
    <3>2. PICK c \in ports : /\ podOf[c] = Head(podQ).pod
                             /\ podc' = [pc |-> "flows", ip |-> Head(podQ).ip, port |-> c]
      BY <1>3, <3>1 DEF SyncPod
    <3>3. [pod |-> podOf[podc'.port], ip |-> podc'.ip] = Head(podQ)
      BY <2>3, <3>2 DEF PodEvent
    <3> QED BY <2>1, <3>3
  <2>5. UNCHANGED <<queue, rewrites>>
    BY <1>3 DEF SyncPod
  <2> QED BY <1>1, <2>2, <2>4, <2>5 DEF FlowInv, FlowsMatchPods, IsReported, FlowReported
<1>4. CASE SendPodFlows
  <2>1. podc # Idle /\ FlowReported(podc)
    BY <1>4 DEF SendPodFlows, FlowInv
  <2> DEFINE f == [ip |-> podc.ip, port |-> podc.port]
  <2>2. [pod |-> podOf[f.port], ip |-> f.ip] \in reported
    BY <2>1 DEF FlowReported
  <2>3. queue' = queue \/ queue' = Append(queue, f)
    BY <1>4 DEF SendPodFlows
  <2>4. \A i \in 1..Len(queue') : [pod |-> podOf[queue'[i].port], ip |-> queue'[i].ip] \in reported
    <3> HIDE DEF f
    <3> QED BY <1>0, <2>2, <2>3 DEF NetworkTypeOK, FlowInv, FlowReported
  <2>5. podc' = Idle /\ UNCHANGED <<podQ, rewrites>>
    BY <1>4 DEF SendPodFlows
  <2> QED BY <1>1, <2>4, <2>5 DEF FlowInv, FlowsMatchPods, IsReported, FlowReported
<1>5. CASE ApplyFlow
  <2>1. PICK f \in FlowMod : /\ f = Head(queue) /\ f = queue[1] /\ 1 \in 1..Len(queue)
                             /\ rewrites' = [rewrites EXCEPT ![f.ip] = f.port]
    <3>1. Head(queue) \in FlowMod /\ Head(queue) = queue[1] /\ 1 \in 1..Len(queue)
      BY <1>0, <1>5 DEF ApplyFlow, NetworkTypeOK
    <3>2. rewrites' = [rewrites EXCEPT ![Head(queue).ip] = Head(queue).port]
      BY <1>5 DEF ApplyFlow
    <3> QED BY <3>1, <3>2, Zenon
  <2>2. [pod |-> podOf[f.port], ip |-> f.ip] \in reported
    BY <2>1 DEF FlowInv, FlowReported
  <2>3. FlowsMatchPods'
    BY <1>0, <1>1, <2>1, <2>2 DEF FlowInv, FlowsMatchPods, NetworkTypeOK, FlowMod
  <2>4. \A i \in 1..Len(queue') : [pod |-> podOf[queue'[i].port], ip |-> queue'[i].ip] \in reported
    BY <1>0, <1>5 DEF ApplyFlow, NetworkTypeOK, FlowInv, FlowReported
  <2>5. UNCHANGED <<podQ, podc>>
    BY <1>5 DEF ApplyFlow
  <2> QED BY <1>1, <2>3, <2>4, <2>5 DEF FlowInv, IsReported, FlowReported
<1> QED BY <1>2, <1>3, <1>4, <1>5 DEF AgentStep

LEMMA AgentFaultFlow ==
  ASSUME PodInv, FlowInv, AgentFault
  PROVE  FlowInv'
<1>1. UNCHANGED <<podOf, status, reported>>
  BY DEF AgentFault
<1>2. /\ podQ' = podQ \/ podQ' = <<>>
      /\ podc' = podc \/ podc' = Idle
      /\ queue' = queue \/ queue' = <<>>
  BY DEF AgentFault, Stop
<1>3. rewrites' = rewrites \/ rewrites' = NoRewrites
  BY DEF AgentFault
<1>4. \A i \in 1..Len(queue') : [pod |-> podOf[queue'[i].port], ip |-> queue'[i].ip] \in reported
  BY <1>2 DEF FlowInv, FlowReported
<1>5. FlowsMatchPods'
  BY <1>1, <1>3 DEF FlowInv, FlowsMatchPods, NoRewrites
<1> QED BY <1>1, <1>2, <1>4, <1>5 DEF FlowInv, IsReported, FlowReported

LEMMA RestartAgentFlow ==
  ASSUME FlowInv, RestartAgent
  PROVE  FlowInv'
BY DEF RestartAgent, FlowInv, FlowsMatchPods, IsReported, FlowReported, vars

LEMMA FlowNext == PodInv /\ FlowInv /\ [PodNext]_podVars => FlowInv'
<1> SUFFICES ASSUME PodInv, FlowInv, [PodNext]_podVars PROVE FlowInv'
  OBVIOUS
<1>1. ASSUME NEW c \in Sandboxes, CreateNext(c) \/ CNIStep(c) PROVE FlowInv'
  BY <1>1, PodOfFixed, FlowStutter DEF CreateNext, CNIStep
<1>2. CASE UNCHANGED podVars
  BY <1>2, FlowStutter DEF podVars, vars
<1> QED
  BY <1>1, <1>2, ReportStatusFlow, AgentStepFlow, AgentFaultFlow, RestartAgentFlow DEF PodNext

\* The packets for an address only ever go to a port of a pod that has had this
\* address (syncPod finds the port by name, long after the event was sent).
THEOREM FlowsAlwaysMatchPods == PodSpec => []FlowsMatchPods
<1>1. FlowInv => FlowsMatchPods
  BY DEF FlowInv
<1> QED BY <1>1, FlowInit, FlowNext, PodInvariant, PTL DEF PodSpec

=============================================================================
