----------------------------- MODULE AgentFlows -----------------------------
(***************************************************************************)
(* The node agent's data plane: how VSwitchConfigs become flows of the     *)
(* node's bridge, and where the bridge sends a packet.                     *)
(*                                                                         *)
(* Two listeners run side by side: the openflow controller and vxlanPorts  *)
(* both get every VSwitchConfig.  A flow takes one of two ways to the      *)
(* switch: through the OpenFlow channel, which is in order but delivers    *)
(* nothing more once it has lost the connection with the hello             *)
(* (FlowChannel), or at once by ovs-ofctl.                                 *)
(*                                                                         *)
(* An address range is the set of its addresses.  The pods' flows, which   *)
(* only fill the last table, are in PodNetwork.  The controllers that      *)
(* write the configs and the switch are the environment.                   *)
(***************************************************************************)
EXTENDS Integers, Sequences, FiniteSets

CONSTANTS
  Nodes, Self,            \* the nodes, and the one this agent runs on
  PodCIDR, ClusterCIDR,   \* this node's range and the cluster's
  CIDRs,                  \* the ranges the nodes' configs may carry
  GatewayIP,
  OverlayIPs, TunnelIDs,
  ConfigInputs,           \* the VSwitchConfigs the controller may write
  Outside,                \* an address that is not the cluster's
  MaxChanges,             \* bound: VSwitchConfig writes
  MaxFailures,            \* bound: ovs commands that fail, crashes of the agent, lost
                          \*   connections and restarts of the switch, which empty
                          \*   its tables; not the restart of an agent without a
                          \*   proper connection
  MaxBacklog              \* bound: the handlers take an event while at most this
                          \*   many messages wait in the channel

Config == [node : Nodes, cidr : CIDRs, overlayIP : OverlayIPs, tunnelID : TunnelIDs \cup {0}]

ASSUME FlowAssumption ==
  /\ IsFiniteSet(Nodes) /\ Self \in Nodes
  /\ PodCIDR \in CIDRs /\ CIDRs \subseteq SUBSET ClusterCIDR
  /\ GatewayIP \in PodCIDR /\ Outside \notin ClusterCIDR
  /\ TunnelIDs \subseteq Nat \ {0}
  /\ ConfigInputs \subseteq {c \in Config : c.node = Self => c.cidr = PodCIDR}
  /\ MaxChanges \in Nat /\ MaxFailures \in Nat /\ MaxBacklog \in Nat

VARIABLES
  configs,       \* the VSwitchConfigs
  up,            \* is the agent running?
  ofQ, vxQ,      \* VSwitchConfig events waiting for openflow, for vxlanPorts
  ofc,           \* the handler of openflow
  vxlan0,        \* does the bridge have its vxlan port?
  queue, flows,  \* flow messages on their way, and the tables of the switch
  greeted,       \* does the switch have the connection with the hello of this process?
  versions,      \* history: every version of a config there was
  changes, failures

cluster  == <<configs, versions>>
handlers == <<ofQ, vxQ, ofc>>
switch   == <<vxlan0, flows>>
bounds   == <<changes, failures>>
vars == <<cluster, up, handlers, queue, greeted, switch, bounds>>

-----------------------------------------------------------------------------
(* Objects                                                                  *)

NoConfig == [node |-> Self, cidr |-> {}, overlayIP |-> "none", tunnelID |-> 0]

Exists(c) == c # NoConfig

Existing == {configs[n] : n \in Nodes} \ {NoConfig}

-----------------------------------------------------------------------------
(* Flows                                                                    *)

Classification == 0
LocalARP       == 10
Overlay        == 20
L3Forwarding   == 40
L2Rewrites     == 50

Any  == -1        \* a field that is not matched, or not set
None == <<"none">>

Match(proto, dst, tun) == [proto |-> proto, dst |-> dst, tun |-> tun]

Flow(table, prio, match, act) ==
  [table |-> table, prio |-> prio, match |-> match, act |-> act]

GotoTable(t)     == [tun |-> Any, goto |-> t, out |-> None]
SetTunnel(id, t) == [tun |-> id, goto |-> t, out |-> None]
Output(o)        == [tun |-> Any, goto |-> Any, out |-> o]

Host      == <<"host">>
Vxlan(ip) == <<"vxlan", ip>>

SameKey(f, g) == f.table = g.table /\ f.prio = g.prio /\ f.match = g.match

\* A flow replaces the one with its table, priority and match.
Installed(fs, f) == {g \in fs : ~SameKey(f, g)} \cup {f}

AddDataLinkFlowForGateway ==
  << Flow(Classification, 500, Match("ip", {GatewayIP}, Any), Output(Host)),
     Flow(LocalARP, 500, Match("arp", {GatewayIP}, Any), Output(Host)) >>

\* Mutant: ARP for the wider range is matched first.
DefaultARPFlowsWideFirst ==
  << Flow(Classification, 200, Match("arp", ClusterCIDR \cup {Outside}, Any),
          GotoTable(LocalARP)),
     Flow(LocalARP, 50, Match("arp", PodCIDR, Any), GotoTable(L2Rewrites)),
     Flow(LocalARP, 100, Match("arp", ClusterCIDR, Any), GotoTable(Overlay)) >>

DefaultARPFlows ==
  << Flow(Classification, 200, Match("arp", ClusterCIDR \cup {Outside}, Any),
          GotoTable(LocalARP)),
     Flow(LocalARP, 100, Match("arp", PodCIDR, Any), GotoTable(L2Rewrites)),
     Flow(LocalARP, 50, Match("arp", ClusterCIDR, Any), GotoTable(Overlay)) >>

AddDefaultFlows ==
  << Flow(Classification, 0, Match("any", ClusterCIDR \cup {Outside}, Any), Output(Host)) >>
    \o AddDataLinkFlowForGateway \o DefaultARPFlows

\* Mutant: the wider range is matched first.
ClassificationFlowsWideFirst ==
  << Flow(Classification, 100, Match("ip", PodCIDR, Any), GotoTable(L2Rewrites)),
     Flow(Classification, 300, Match("ip", ClusterCIDR, Any), GotoTable(Overlay)) >>

\* sent for every config, with the values of this node
ClassificationFlows ==
  << Flow(Classification, 300, Match("ip", PodCIDR, Any), GotoTable(L2Rewrites)),
     Flow(Classification, 100, Match("ip", ClusterCIDR, Any), GotoTable(Overlay)) >>

\* Mutant: the next table is not a later one.
OverlayFlowBack(c, proto) ==
  Flow(Overlay, 100, Match(proto, c.cidr, Any), SetTunnel(c.tunnelID, Classification))

OverlayFlow(c, proto) ==
  Flow(Overlay, 100, Match(proto, c.cidr, Any), SetTunnel(c.tunnelID, L3Forwarding))

LocalFlow(c, proto) ==
  Flow(L3Forwarding, 100, Match(proto, c.cidr, c.tunnelID), GotoTable(L2Rewrites))

\* the messages flowsForVSwitch returns
FlowsForVSwitch(c) ==
  ClassificationFlows \o
    IF c.node # Self THEN << OverlayFlow(c, "ip"), OverlayFlow(c, "arp") >>
                     ELSE << LocalFlow(c, "ip"), LocalFlow(c, "arp") >>

\* Mutant: the tunnel ID alone decides on the destination.
TunnelDstFlowByID(c, proto) ==
  Flow(L3Forwarding, 150, Match(proto, ClusterCIDR, c.tunnelID), Output(Vxlan(c.overlayIP)))

\* what it adds by ovs-ofctl meanwhile
TunnelDstFlow(c, proto) ==
  Flow(L3Forwarding, 150, Match(proto, c.cidr, c.tunnelID), Output(Vxlan(c.overlayIP)))

-----------------------------------------------------------------------------
(* The way of a packet through the tables fs, which only lead upwards       *)

Matching(fs, pkt, h) ==
  {f \in fs : /\ f.table = h.table
              /\ f.match.proto \in {"any", pkt.proto}
              /\ pkt.dst \in f.match.dst
              /\ f.match.tun \in {Any, h.tun}}

Best(fs) == CHOOSE f \in fs : \A g \in fs : g.prio <= f.prio

\* one table; a packet that matches nothing is dropped
Hop(fs, pkt, h) ==
  LET ms == Matching(fs, pkt, h)  a == Best(ms).act IN
    IF h.out # None THEN h
    ELSE IF ms = {} THEN [h EXCEPT !.out = <<"drop">>]
    ELSE [table |-> a.goto, tun |-> IF a.tun = Any THEN h.tun ELSE a.tun, out |-> a.out]

\* from Classification through at most five tables
Route(fs, pkt) ==
  LET h0 == [table |-> Classification, tun |-> pkt.tun, out |-> None]
  IN  Hop(fs, pkt, Hop(fs, pkt, Hop(fs, pkt, Hop(fs, pkt, Hop(fs, pkt, h0)))))

Packet(proto, dst, tun) == [proto |-> proto, dst |-> dst, tun |-> tun]

-----------------------------------------------------------------------------
(* The agent                                                                *)

Idle == [pc |-> "idle"]

Orders(S) == {s \in [1..Cardinality(S) -> S] : \A i, j \in DOMAIN s : s[i] = s[j] => i = j}

\* main: the hello and the default flows are queued, then the informers list.
Start ==
  /\ ~up
  /\ up' = TRUE
  /\ queue' = AddDefaultFlows /\ greeted' = TRUE
  /\ ofQ' \in Orders(Existing)
  /\ vxQ' = IF vxlan0 THEN 0 ELSE Cardinality(Existing)
  /\ UNCHANGED <<cluster, ofc, switch, bounds>>

\* Mutant: no resync period.
ResyncNever == FALSE /\ UNCHANGED vars

\* The informers resync once a minute: every object again, to every listener.
\* Bound: what the last one caused has been worked off.
Resync ==
  /\ up /\ ofQ = <<>> /\ vxQ = 0 /\ queue = <<>> /\ ofc = Idle
  /\ ofQ' \in Orders(Existing)
  /\ vxQ' = IF vxlan0 THEN 0 ELSE Cardinality(Existing)
  /\ UNCHANGED <<cluster, up, ofc, queue, greeted, switch, bounds>>

\* vxlanPorts: add-port --may-exist, whatever the config says.  Once the port
\* is there this changes nothing, and its events are left out.
AddVxLANPort ==
  /\ up /\ vxQ > 0
  /\ vxQ' = 0
  /\ vxlan0' = TRUE
  /\ UNCHANGED <<cluster, up, ofQ, ofc, queue, greeted, flows, bounds>>

\* Mutant: the messages are sent before the ovs-ofctl commands.
OnVSwitchSendsFirst ==
  /\ up /\ ofc.pc = "idle" /\ ofQ # <<>> /\ Len(queue) <= MaxBacklog
  /\ LET c == Head(ofQ) IN
       /\ ofc' = IF vxlan0 /\ c.node # Self THEN [pc |-> "ip", cfg |-> c] ELSE Idle
       /\ queue' = IF vxlan0 THEN queue \o FlowsForVSwitch(c) ELSE queue
  /\ ofQ' = Tail(ofQ)
  /\ UNCHANGED <<cluster, up, vxQ, greeted, switch, bounds>>

\* OnAddVSwitch, OnUpdateVSwitch of openflow.  Without the vxlan port there is
\* an error and the event is over; a remote config goes on to ovs-ofctl.
OnVSwitch ==
  /\ up /\ ofc.pc = "idle" /\ ofQ # <<>> /\ Len(queue) <= MaxBacklog
  /\ LET c == Head(ofQ) IN
       /\ ofc' = IF vxlan0 /\ c.node # Self THEN [pc |-> "ip", cfg |-> c] ELSE Idle
       /\ queue' = IF vxlan0 /\ c.node = Self THEN queue \o FlowsForVSwitch(c) ELSE queue
  /\ ofQ' = Tail(ofQ)
  /\ UNCHANGED <<cluster, up, vxQ, greeted, switch, bounds>>

\* The two ovs-ofctl commands; after the second one the messages are sent.
AddTunnelDstFlows ==
  /\ up /\ ofc.pc \in {"ip", "arp"}
  /\ flows' = Installed(flows, TunnelDstFlow(ofc.cfg, ofc.pc))
  /\ \/ ofc.pc = "ip" /\ ofc' = [ofc EXCEPT !.pc = "arp"] /\ UNCHANGED queue
     \/ ofc.pc = "arp" /\ ofc' = Idle /\ queue' = queue \o FlowsForVSwitch(ofc.cfg)
  /\ UNCHANGED <<cluster, up, ofQ, vxQ, greeted, vxlan0, bounds>>

Fail ==
  /\ failures < MaxFailures
  /\ failures' = failures + 1
  /\ UNCHANGED <<cluster, changes>>

\* An ovs command fails, be it the one that reads the number of the vxlan port
\* or a later one: the handler's event, or the port's, is over.
Fault ==
  /\ up /\ Fail
  /\ \/ ofc = Idle /\ ofQ # <<>> /\ ofQ' = Tail(ofQ) /\ UNCHANGED <<vxQ, ofc>>
     \/ ofc # Idle /\ ofc' = Idle /\ UNCHANGED <<ofQ, vxQ>>
     \/ vxQ > 0 /\ vxQ' = vxQ - 1 /\ UNCHANGED <<ofQ, ofc>>
  /\ UNCHANGED <<up, queue, greeted, switch>>

\* The agent stops; the bridge keeps its flows (fail-mode secure).  An agent
\* that has lost its channel only gets it back this way.
Crash ==
  /\ up
  /\ Fail \/ (~greeted /\ UNCHANGED <<cluster, bounds>>)
  /\ up' = FALSE /\ greeted' = FALSE
  /\ ofQ' = <<>> /\ vxQ' = 0 /\ ofc' = Idle /\ queue' = <<>>
  /\ UNCHANGED switch

-----------------------------------------------------------------------------
(* The switch and the cluster                                               *)

\* The next message of the channel is written.  It arrives on the connection
\* with the hello; the switch refuses every later one.
ApplyFlow ==
  /\ up /\ queue # <<>>
  /\ flows' = IF greeted THEN Installed(flows, Head(queue)) ELSE flows
  /\ queue' = Tail(queue)
  /\ UNCHANGED <<cluster, up, handlers, greeted, vxlan0, bounds>>

\* The connection is lost; the switch keeps its tables.
LoseConnection ==
  /\ up /\ greeted /\ Fail
  /\ greeted' = FALSE
  /\ UNCHANGED <<up, handlers, queue, switch>>

RestartSwitch ==
  /\ Fail
  /\ flows' = {} /\ greeted' = FALSE
  /\ UNCHANGED <<up, handlers, queue, vxlan0>>

Change ==
  /\ changes < MaxChanges
  /\ changes' = changes + 1
  /\ UNCHANGED <<up, ofc, queue, greeted, switch, failures>>

\* Both VSwitchConfig listeners of a running agent hear of c.
NotifyVSwitch(c) ==
  /\ ofQ' = IF up THEN Append(ofQ, c) ELSE ofQ
  /\ vxQ' = IF up /\ ~vxlan0 THEN vxQ + 1 ELSE vxQ

\* The controller writes the config of a node.  It gets a tunnel ID that no
\* other config holds, maybe before the informer sees it first, and keeps it.
\* This node keeps its range.  Another one may come back with a new range, and
\* its range may be held twice, by a node that left and whose config was not
\* removed.
WriteConfig(c) ==
  /\ Change
  /\ c # configs[c.node]
  /\ configs[c.node].tunnelID # 0 => c.tunnelID = configs[c.node].tunnelID
  /\ c.tunnelID # 0 =>
       \A n \in Nodes \ {c.node} : configs[n].tunnelID # c.tunnelID
  /\ configs' = [configs EXCEPT ![c.node] = c]
  /\ versions' = versions \cup {c}
  /\ NotifyVSwitch(c)

\* OnDeleteVSwitch does nothing, neither in openflow nor in vxlanPorts.
DeleteConfig(n) ==
  /\ Change
  /\ n # Self /\ Exists(configs[n])
  /\ configs' = [configs EXCEPT ![n] = NoConfig]
  /\ UNCHANGED <<versions, ofQ, vxQ>>

-----------------------------------------------------------------------------
\* The agent waits for the config of its node before it does anything else.
Init ==
  /\ \E c \in {d \in ConfigInputs : d.node = Self} :
       /\ configs = [n \in Nodes |-> IF n = Self THEN c ELSE NoConfig]
       /\ versions = {c}
  /\ up = FALSE /\ ofQ = <<>> /\ vxQ = 0 /\ ofc = Idle
  /\ vxlan0 = FALSE /\ queue = <<>> /\ greeted = FALSE /\ flows = {}
  /\ changes = 0 /\ failures = 0

Agent ==
  \/ Start \/ Resync
  \/ AddVxLANPort
  \/ OnVSwitch \/ AddTunnelDstFlows

Environment ==
  \/ \E c \in ConfigInputs : WriteConfig(c)
  \/ \E n \in Nodes : DeleteConfig(n)
  \/ LoseConnection \/ RestartSwitch \/ Crash \/ Fault

Next == Agent \/ ApplyFlow \/ Environment

Spec == Init /\ [][Next]_vars

\* The agent's goroutines run, its resync timer fires, the channel delivers.
Fairness ==
  /\ WF_vars(Start) /\ WF_vars(Resync) /\ WF_vars(AddVxLANPort)
  /\ WF_vars(OnVSwitch \/ AddTunnelDstFlows) /\ WF_vars(ApplyFlow)

FairSpec == Spec /\ Fairness

-----------------------------------------------------------------------------
(* Properties                                                               *)

Tables == {Classification, LocalARP, Overlay, L3Forwarding, L2Rewrites}

Priorities == {0, 50, 100, 150, 200, 300, 500}

MatchType ==
  [proto : {"any", "ip", "arp"}, dst : SUBSET (ClusterCIDR \cup {Outside}),
   tun : TunnelIDs \cup {0, Any}]

ActionType ==
  [tun : TunnelIDs \cup {0, Any},
   goto : {Any, LocalARP, Overlay, L3Forwarding, L2Rewrites},
   out : {None, Host} \cup {Vxlan(ip) : ip \in OverlayIPs}]

FlowType == [table : Tables, prio : Priorities, match : MatchType, act : ActionType]

\* Type invariant: objects, events, handlers and flows of the agent, and in no
\* table two flows with the same priority and match.
TypeOK ==
  /\ configs \in [Nodes -> Config \cup {NoConfig}] /\ versions \subseteq Config
  /\ up \in BOOLEAN /\ vxlan0 \in BOOLEAN /\ greeted \in BOOLEAN
  /\ ofQ \in Seq(Config) /\ vxQ \in Nat
  /\ ofc \in [pc : {"idle"}] \cup [pc : {"ip", "arp"}, cfg : Config]
  /\ queue \in Seq(FlowType) /\ flows \subseteq FlowType
  /\ changes \in Nat /\ failures \in Nat
  /\ \A f, g \in flows : SameKey(f, g) => f = g

\* The two ways to the switch are ordered: a flow that sends a range into a
\* tunnel only shows up when the flow with the tunnel's destination is there,
\* whatever versions, crashes, failed commands, lost connections and lost tables
\* came before.
TunnelNeverDangles ==
  \A f \in flows :
    f.table = Overlay =>
      \E g \in flows :
        /\ g.table = L3Forwarding /\ g.prio = 150
        /\ g.match = [f.match EXCEPT !.tun = f.act.tun]

\* The tunnel ID and the destination a packet leaves with come from one
\* version of one VSwitchConfig that covers its address, although flows of
\* deleted configs stay behind and tunnel IDs and ranges are given out again.
TunnelsMatchConfigs ==
  \A proto \in {"ip", "arp"}, a \in ClusterCIDR :
    LET h == Route(flows, Packet(proto, a, 0)) IN
      h.out[1] = "vxlan" =>
        \E v \in versions :
          v.node # Self /\ a \in v.cidr /\ v.tunnelID = h.tun /\ h.out = Vxlan(v.overlayIP)

\* A packet for this node's range never leaves through a tunnel, be it from a
\* local pod or from another node, even while the config of a node that left
\* claims the same range, and while the tables are built up anew.
LocalStaysLocal ==
  \A proto \in {"ip", "arp"}, a \in PodCIDR, id \in TunnelIDs \cup {0} :
    Route(flows, Packet(proto, a, id)).out[1] # "vxlan"

\* the pods' table, or a tunnel
Delivered(fs, proto, a) ==
  LET h == Route(fs, Packet(proto, a, 0)) IN h.table = L2Rewrites \/ h.out[1] = "vxlan"

\* A packet that gets to the pods or into a tunnel would still do so after any
\* step: flows are added one by one, in the order of their dependence, and no
\* new version of a config, restart of the agent or lost connection interrupts
\* the traffic.  Only a switch that loses its tables does.
NeverInterrupted ==
  [][flows' \in {flows, {}} \/
       \A proto \in {"ip", "arp"}, a \in ClusterCIDR \ {GatewayIP} :
         Delivered(flows, proto, a) => Delivered(flows', proto, a)]_vars

\* Packets for the pods of this node reach the table with the pods' flows in
\* the end, those from other nodes too, as long as the agent has its channel:
\* the flows that a broken channel swallowed or the switch lost come with the
\* next process.
LocalReachable ==
  <>[](greeted =>
         \A proto \in {"ip", "arp"}, a \in PodCIDR \ {GatewayIP}, id \in TunnelIDs \cup {0} :
           Route(flows, Packet(proto, a, id)).table = L2Rewrites)

\* Packets for the range of another node end up in the tunnel its VSwitchConfig
\* describes, as long as the agent has its channel, although openflow may see
\* the config before vxlanPorts has made the port, commands fail, and the agent
\* before this one may have stopped anywhere.
RemoteReachable ==
  \A n \in Nodes \ {Self} :
    <>[](/\ greeted /\ Exists(configs[n]) /\ configs[n].cidr \cap PodCIDR = {}
         /\ \A m \in Nodes \ {n} : configs[m].cidr # configs[n].cidr
         => \A proto \in {"ip", "arp"}, a \in configs[n].cidr :
              LET h == Route(flows, Packet(proto, a, 0)) IN
                h.tun = configs[n].tunnelID /\ h.out = Vxlan(configs[n].overlayIP))

=============================================================================
