----------------------------- MODULE NodeSetup -----------------------------
(***************************************************************************)
(* How a cluster comes up: main of the agent on every node, from the CNI   *)
(* configuration over the wait for the node's VSwitchConfig to the running *)
(* agent, and the one kube-ovs-controller that has to be scheduled         *)
(* somewhere before there are any VSwitchConfigs.                          *)
(*                                                                         *)
(*   The agent waits for its VSwitchConfig, which the controller writes;   *)
(*   the controller waits for a node that is ready;                        *)
(*   a node is ready once it has a CNI configuration, which the agent      *)
(*   installs.                                                             *)
(*                                                                         *)
(* Every command of main is one step.  A step that fails ends the process; *)
(* the kubelet starts it again, and it runs into what is there already.    *)
(* What the set-up has established on a host is a set of facts.  Those of  *)
(* the OVS database and the CNI configuration survive a reboot, those of   *)
(* the kernel do not.                                                      *)
(***************************************************************************)
EXTENDS Integers, Sequences

CONSTANTS
  Nodes,
  PodCIDRs,              \* the pod range of every node
  Settings,              \* the cluster and service CIDRs of a controller
  MaxFaults,             \* bound: commands and API calls of the agents that fail
  MaxReboots,            \* bound: reboots of hosts
  MaxMoves               \* bound: controllers that are replaced

ASSUME SetupAssumption ==
  /\ DOMAIN PodCIDRs = Nodes /\ Settings # {}
  /\ "none" \notin Nodes \cup Settings
  /\ \A n \in Nodes : PodCIDRs[n] # "none"
  /\ MaxFaults \in Nat /\ MaxReboots \in Nat /\ MaxMoves \in Nat

VARIABLES
  podCIDR,       \* per node, spec.podCIDR of the node object
  cniConf,       \* per node, the range in the installed CNI configuration
  configs,       \* per node, its VSwitchConfig
  controller,    \* the node the controller runs on, and its settings
  agent,         \* per node, where main of the agent is
  step,          \* per node, the set-up commands this process has run
  config,        \* per node, the VSwitchConfig this process has read
  host,          \* per node, the facts that hold there
  faults, reboots, moves

process == <<agent, step, config>>
bounds  == <<faults, reboots, moves>>
vars == <<podCIDR, cniConf, configs, controller, process, host, bounds>>

None == "none"

NoConfig == [podCIDR |-> None, settings |-> None]

Pending == [node |-> None, settings |-> None]

-----------------------------------------------------------------------------
(* What the commands establish and what they need                           *)

Fact(what) == [what |-> what, podCIDR |-> None, settings |-> None]

\* one that depends on ranges of the VSwitchConfig
RangeFact(what, cidr, settings) ==
  [what |-> what, podCIDR |-> cidr, settings |-> settings]

\* the gateway's address, the first of the pod range, with the cluster's mask
GatewayAddr(c) == RangeFact("gateway", c.podCIDR, c.settings)

\* modprobe and the two files
ModulesAndSysctls ==
  << Fact("br_netfilter"), Fact("bridge-nf-call-iptables"), Fact("ip_forward") >>

\* AppendUnique of two rules of FORWARD and three of POSTROUTING
BridgeForwarding(c) ==
  << Fact("-o host-local ACCEPT"), Fact("-i host-local ACCEPT"),
     RangeFact("-s podCIDR ! -o host-local MASQUERADE", c.podCIDR, None),
     RangeFact("! -d clusterCIDR MASQUERADE", None, c.settings),
     RangeFact("! -d serviceCIDR MASQUERADE", None, c.settings) >>

\* the commands from setupBridgeIfNotExists to setupBridgeForwarding
SetupSteps(c) ==
  << Fact("bridge"), Fact("bridge up"), Fact("host-local"), Fact("host-local up"),
     GatewayAddr(c), Fact("controller"), Fact("secure") >>
    \o ModulesAndSysctls \o BridgeForwarding(c)

\* A command fails when what it works on is missing.
Needs(f) ==
  CASE f.what \in {"bridge up", "host-local", "controller", "secure"} -> {Fact("bridge")}
    [] f.what \in {"host-local up", "gateway"} -> {Fact("host-local")}
    [] f.what = "bridge-nf-call-iptables" -> {Fact("br_netfilter")}
    [] OTHER -> {}

\* what the OVS database keeps
Persistent == {Fact("bridge"), Fact("host-local"), Fact("controller"), Fact("secure")}

-----------------------------------------------------------------------------
(* main of the agent                                                        *)

At(n, a) == agent[n] = a

\* The process on n goes on at a.
Goto(n, a) == agent' = [agent EXCEPT ![n] = a]

\* os.Exit, or a crash
Exit(n) ==
  /\ Goto(n, "down")
  /\ step' = [step EXCEPT ![n] = 0]
  /\ config' = [config EXCEPT ![n] = NoConfig]

\* The container is started, or started again.
StartAgent(n) ==
  /\ At(n, "down")
  /\ Goto(n, "node")
  /\ UNCHANGED <<podCIDR, cniConf, configs, controller, step, config, host, bounds>>

\* The agent's own node, which must have a pod range
GetNode(n) ==
  /\ At(n, "node")
  /\ IF podCIDR[n] = None THEN Exit(n) ELSE Goto(n, "conf") /\ UNCHANGED <<step, config>>
  /\ UNCHANGED <<podCIDR, cniConf, configs, controller, host, bounds>>

\* Mutant: the configuration is installed only when the agent is about to run.
InstallCNIConfLate(n) ==
  /\ At(n, "conf")
  /\ Goto(n, "poll")
  /\ cniConf' = [cniConf EXCEPT ![n] = IF configs[n] = NoConfig THEN @ ELSE podCIDR[n]]
  /\ UNCHANGED <<podCIDR, configs, controller, step, config, host, bounds>>

InstallCNIConf(n) ==
  /\ At(n, "conf")
  /\ cniConf' = [cniConf EXCEPT ![n] = podCIDR[n]]
  /\ Goto(n, "poll")
  /\ UNCHANGED <<podCIDR, configs, controller, step, config, host, bounds>>

\* Mutant: after a minute the agent goes on without a config.
WaitForVSwitchConfigOrNot(n) ==
  /\ \/ At(n, "poll") /\ configs[n] = NoConfig /\ Goto(n, "sleep") /\ UNCHANGED config
     \/ /\ At(n, "poll") /\ configs[n] # NoConfig
        /\ config' = [config EXCEPT ![n] = configs[n]]
        /\ Goto(n, "setup")
     \/ At(n, "sleep") /\ (Goto(n, "poll") \/ Goto(n, "setup")) /\ UNCHANGED config
  /\ UNCHANGED <<podCIDR, cniConf, configs, controller, step, host, bounds>>

\* waitForVSwitchConfig: the config is asked for every five seconds, and after
\* a minute without one the agent exits.
WaitForVSwitchConfig(n) ==
  /\ \/ /\ At(n, "poll") /\ configs[n] # NoConfig
        /\ config' = [config EXCEPT ![n] = configs[n]]
        /\ Goto(n, "setup")
        /\ UNCHANGED step
     \/ /\ At(n, "poll") /\ configs[n] = NoConfig
        /\ Goto(n, "sleep")
        /\ UNCHANGED <<step, config>>
     \/ At(n, "sleep") /\ Goto(n, "poll") /\ UNCHANGED <<step, config>>
     \/ At(n, "sleep") /\ Exit(n)
  /\ UNCHANGED <<podCIDR, cniConf, configs, controller, host, bounds>>

\* Mutant: nothing is done about a bridge that is there already.
SetupStepIfNoBridge(n) ==
  /\ At(n, "setup") /\ step[n] < Len(SetupSteps(config[n]))
  /\ LET f == SetupSteps(config[n])[step[n] + 1] IN
       IF step[n] = 0 /\ f \in host[n]
         THEN /\ step' = [step EXCEPT ![n] = 4]
              /\ UNCHANGED <<agent, config, host>>
         ELSE IF Needs(f) \subseteq host[n]
         THEN /\ host' = [host EXCEPT ![n] = @ \cup {f}]
              /\ step' = [step EXCEPT ![n] = @ + 1]
              /\ UNCHANGED <<agent, config>>
         ELSE Exit(n) /\ UNCHANGED host
  /\ UNCHANGED <<podCIDR, cniConf, configs, controller, bounds>>

\* The next command.  All of them may find their work done (--may-exist,
\* AddrReplace, AppendUnique) and add to what is there.
SetupStep(n) ==
  /\ At(n, "setup") /\ step[n] < Len(SetupSteps(config[n]))
  /\ LET f == SetupSteps(config[n])[step[n] + 1] IN
       IF Needs(f) \subseteq host[n]
         THEN /\ host' = [host EXCEPT ![n] = @ \cup {f}]
              /\ step' = [step EXCEPT ![n] = @ + 1]
              /\ UNCHANGED <<agent, config>>
         ELSE Exit(n) /\ UNCHANGED host
  /\ UNCHANGED <<podCIDR, cniConf, configs, controller, bounds>>

\* The informers and the channel start.
RunAgent(n) ==
  /\ At(n, "setup") /\ step[n] = Len(SetupSteps(config[n]))
  /\ Goto(n, "running")
  /\ UNCHANGED <<podCIDR, cniConf, configs, controller, step, config, host, bounds>>

\* A command or an API call fails, or the agent crashes.
Fault(n) ==
  /\ ~At(n, "down") /\ faults < MaxFaults
  /\ faults' = faults + 1
  /\ Exit(n)
  /\ UNCHANGED <<podCIDR, cniConf, configs, controller, host, reboots, moves>>

-----------------------------------------------------------------------------
(* The hosts and the cluster                                                *)

Reboot(n) ==
  /\ reboots < MaxReboots
  /\ reboots' = reboots + 1
  /\ host' = [host EXCEPT ![n] = @ \cap Persistent]
  /\ Exit(n)
  /\ UNCHANGED <<podCIDR, cniConf, configs, controller, faults, moves>>

\* The control plane gives the node a pod range, once.
AssignPodCIDR(n) ==
  /\ podCIDR[n] = None
  /\ podCIDR' = [podCIDR EXCEPT ![n] = PodCIDRs[n]]
  /\ UNCHANGED <<cniConf, configs, controller, process, host, bounds>>

\* The kubelet reports a node ready when there is a CNI configuration.
Ready(n) == cniConf[n] # None

\* The controller's pod does not tolerate nodes that are not ready.
Schedule(n, s) ==
  /\ controller = Pending /\ Ready(n)
  /\ controller' = [node |-> n, settings |-> s]
  /\ UNCHANGED <<podCIDR, cniConf, configs, process, host, bounds>>

\* The pod is deleted, by an update or with its node.
Unschedule ==
  /\ controller # Pending /\ moves < MaxMoves
  /\ moves' = moves + 1
  /\ controller' = Pending
  /\ UNCHANGED <<podCIDR, cniConf, configs, process, host, faults, reboots>>

\* The controller brings the config of a node with a pod range up to date
\* (VSwitchControl).
SyncVSwitchConfig(n) ==
  LET c == [podCIDR |-> podCIDR[n], settings |-> controller.settings] IN
    /\ controller # Pending /\ podCIDR[n] # None /\ configs[n] # c
    /\ configs' = [configs EXCEPT ![n] = c]
    /\ UNCHANGED <<podCIDR, cniConf, controller, process, host, bounds>>

-----------------------------------------------------------------------------
Init ==
  /\ podCIDR = [n \in Nodes |-> None] /\ cniConf = [n \in Nodes |-> None]
  /\ configs = [n \in Nodes |-> NoConfig] /\ controller = Pending
  /\ agent = [n \in Nodes |-> "down"] /\ step = [n \in Nodes |-> 0]
  /\ config = [n \in Nodes |-> NoConfig] /\ host = [n \in Nodes |-> {}]
  /\ faults = 0 /\ reboots = 0 /\ moves = 0

Main(n) ==
  \/ StartAgent(n) \/ GetNode(n) \/ InstallCNIConf(n) \/ WaitForVSwitchConfig(n)
  \/ SetupStep(n) \/ RunAgent(n)

ControlPlane(n) ==
  AssignPodCIDR(n) \/ SyncVSwitchConfig(n) \/ \E s \in Settings : Schedule(n, s)

Next ==
  \/ \E n \in Nodes : Main(n) \/ ControlPlane(n) \/ Fault(n) \/ Reboot(n)
  \/ Unschedule

Spec == Init /\ [][Next]_vars

\* Processes run and are started again, the control plane hands out ranges and
\* schedules a pod that has a node to go to.
Fairness ==
  \A n \in Nodes :
    /\ WF_vars(Main(n))
    /\ WF_vars(AssignPodCIDR(n)) /\ WF_vars(SyncVSwitchConfig(n))
    /\ WF_vars(\E s \in Settings : Schedule(n, s))

FairSpec == Spec /\ Fairness

-----------------------------------------------------------------------------
(* What the host does with a forwarded packet                               *)

Outside == [kind |-> "outside", settings |-> None]

\* Packets by source range, destination and the interface they leave through;
\* those to the host itself are left out, as "--dst-type LOCAL" does.
Packet ==
  [src : {PodCIDRs[n] : n \in Nodes}, out : {"host-local", "uplink"},
   dst : [kind : {"cluster", "service"}, settings : Settings] \cup {Outside}]

\* POSTROUTING: does rule r masquerade p?
Masquerades(r, p) ==
  \/ /\ r.what = "-s podCIDR ! -o host-local MASQUERADE"
     /\ p.src = r.podCIDR /\ p.out # "host-local"
  \/ /\ r.what = "! -d clusterCIDR MASQUERADE"
     /\ p.dst # [kind |-> "cluster", settings |-> r.settings]
  \/ /\ r.what = "! -d serviceCIDR MASQUERADE"
     /\ p.dst # [kind |-> "service", settings |-> r.settings]

-----------------------------------------------------------------------------
(* Properties                                                               *)

PodRanges == {PodCIDRs[n] : n \in Nodes}

Config == [podCIDR : PodRanges, settings : Settings]

Facts ==
  [what : {"bridge", "bridge up", "host-local", "host-local up", "gateway", "controller",
           "secure", "br_netfilter", "bridge-nf-call-iptables", "ip_forward",
           "-o host-local ACCEPT", "-i host-local ACCEPT",
           "-s podCIDR ! -o host-local MASQUERADE", "! -d clusterCIDR MASQUERADE",
           "! -d serviceCIDR MASQUERADE"},
   podCIDR : PodRanges \cup {None}, settings : Settings \cup {None}]

\* Type invariant: the objects, the steps of main and the facts of the hosts.
TypeOK ==
  /\ podCIDR \in [Nodes -> PodRanges \cup {None}]
  /\ cniConf \in [Nodes -> PodRanges \cup {None}]
  /\ configs \in [Nodes -> Config \cup {NoConfig}]
  /\ controller \in [node : Nodes, settings : Settings] \cup {Pending}
  /\ agent \in [Nodes -> {"down", "node", "conf", "poll", "sleep", "setup", "running"}]
  /\ step \in [Nodes -> Nat]
  /\ config \in [Nodes -> Config \cup {NoConfig}]
  /\ host \in [Nodes -> SUBSET Facts]
  /\ faults \in Nat /\ reboots \in Nat /\ moves \in Nat
  /\ \A n \in Nodes : At(n, "setup") \/ At(n, "running") => config[n] \in Config

\* An agent that runs has found or made everything its VSwitchConfig asks for,
\* whatever earlier processes left half done and a reboot took away; and its
\* range is the one the CNI plugin hands out addresses from.
RunningIsSetUp ==
  \A n \in Nodes :
    At(n, "running") =>
      /\ \A i \in 1..Len(SetupSteps(config[n])) : SetupSteps(config[n])[i] \in host[n]
      /\ cniConf[n] = config[n].podCIDR

\* The agents, the controller and the kubelets do not wait for each other for
\* ever: every agent runs in the end.
NodesComeUp == \A n \in Nodes : <>[]At(n, "running")

\* Only outbound traffic is masqueraded: packets to the cluster's addresses keep
\* their source.
ClusterTrafficKeepsSource ==
  \A n \in Nodes :
    At(n, "running") =>
      \A p \in Packet :
        p.dst = [kind |-> "cluster", settings |-> config[n].settings] /\ p.out = "host-local"
          => \A r \in host[n] : ~Masquerades(r, p)

=============================================================================
