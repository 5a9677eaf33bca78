-------------------------- MODULE AgentFlowsProofs --------------------------
(***************************************************************************)
(* The agent's safety for any number of nodes, ranges, tunnel IDs, writes  *)
(* and failures.                                                           *)
(*                                                                         *)
(* IndInv follows a flow from the config to the table.  What openflow      *)
(* queues is Led: a flow into a tunnel is only sent once the flow with the *)
(* tunnel's destination is in the table, and a table never loses a match.  *)
(* When the switch does, the channel is broken and what is queued never    *)
(* arrives, which is why greeted is in LedPlain.  What outputs to a tunnel *)
(* is the destination flow of one version of one config.                   *)
(*                                                                         *)
(* LocalInv is about this node's range: in the queue and in the tables the *)
(* flow of the narrow range is there before that of the wide one.          *)
(*                                                                         *)
(* A packet's way is five times the lemma about one table.                 *)
(***************************************************************************)
EXTENDS AgentFlows, FiniteSetTheorems, TLAPS

\* The destination a flow into a tunnel leads to is in its table.
HasDst(f) ==
  \E g \in flows :
    /\ g.table = L3Forwarding /\ g.prio = 150
    /\ g.match = [f.match EXCEPT !.tun = f.act.tun]

Led(f) == f.table = Overlay => HasDst(f)

\* flows that lead to another table or to the host
Plain == {f \in FlowType : f.act.out \in {None, Host}}

\* those of them that are not in the table of the tunnels
Harmless == {f \in Plain : f.table # Overlay}

Remote == {v \in versions : v.node # Self}

TunnelFlows ==
  {f \in FlowType : \E v \in Remote, proto \in {"ip", "arp"} : f = TunnelDstFlow(v, proto)}

\* what may wait in the channel
LedPlain == {f \in Plain : greeted => Led(f)}

\* the inductive invariant
IndInv ==
  /\ TypeOK
  /\ ofQ \in Seq(versions)
  /\ \A n \in Nodes : configs[n] \in versions \cup {NoConfig}
  /\ queue \in Seq(LedPlain)
  /\ \A f \in flows : f \in Plain \cup TunnelFlows /\ Led(f)
  /\ ofc # Idle =>
       /\ up
       /\ ofc.cfg \in Remote
       /\ ofc.pc = "arp" /\ greeted => HasDst(OverlayFlow(ofc.cfg, "ip"))

-----------------------------------------------------------------------------
(* The flows have their type                                                *)

LEMMA MatchTyped ==
  ASSUME NEW proto \in {"any", "ip", "arp"}, NEW dst, NEW tun \in TunnelIDs \cup {0, Any},
         dst \subseteq ClusterCIDR \cup {Outside}
  PROVE  Match(proto, dst, tun) \in MatchType
BY DEF Match, MatchType

LEMMA ActionTyped ==
  /\ \A t \in {LocalARP, Overlay, L3Forwarding, L2Rewrites} :
       /\ GotoTable(t) \in ActionType
       /\ \A id \in TunnelIDs \cup {0} : SetTunnel(id, t) \in ActionType
  /\ Output(Host) \in ActionType
  /\ \A ip \in OverlayIPs : Output(Vxlan(ip)) \in ActionType
BY DEF GotoTable, SetTunnel, Output, ActionType

LEMMA FlowTyped ==
  ASSUME NEW t \in Tables, NEW p \in Priorities, NEW m \in MatchType, NEW a \in ActionType
  PROVE  Flow(t, p, m, a) \in FlowType
BY DEF Flow, FlowType

LEMMA HarmlessFlow ==
  ASSUME NEW t, NEW p, NEW m, NEW a, Flow(t, p, m, a) \in FlowType,
         t \in {Classification, LocalARP, L3Forwarding},
         \/ a = Output(Host)
         \/ \E u \in {LocalARP, Overlay, L3Forwarding, L2Rewrites} : a = GotoTable(u)
  PROVE  Flow(t, p, m, a) \in Harmless
BY DEF Harmless, Plain, Flow, Output, GotoTable, Classification, LocalARP, L3Forwarding, Overlay

\* short sequences
LEMMA ShortSeq ==
  ASSUME NEW S, NEW f \in S, NEW g \in S, NEW h \in S
  PROVE  <<f>> \in Seq(S) /\ <<f, g>> \in Seq(S) /\ <<f, g, h>> \in Seq(S)
OBVIOUS

LEMMA Concatenated ==
  ASSUME NEW S, NEW s \in Seq(S), NEW t \in Seq(S)
  PROVE  s \o t \in Seq(S)
OBVIOUS

LEMMA SeqMonotone ==
  ASSUME NEW S, NEW T, S \subseteq T, NEW s \in Seq(S)
  PROVE  s \in Seq(T)
OBVIOUS

\* The default flows lead neither into a tunnel nor to its table.
LEMMA DefaultFlowsTyped == AddDefaultFlows \in Seq(Harmless)
<1>0. /\ Classification \in Tables /\ LocalARP \in Tables
      /\ {0, 50, 100, 200, 500} \subseteq Priorities
  BY DEF Tables, Priorities
<1>1. /\ Match("any", ClusterCIDR \cup {Outside}, Any) \in MatchType
      /\ Match("ip", {GatewayIP}, Any) \in MatchType
      /\ Match("arp", {GatewayIP}, Any) \in MatchType
      /\ Match("arp", ClusterCIDR \cup {Outside}, Any) \in MatchType
      /\ Match("arp", PodCIDR, Any) \in MatchType
      /\ Match("arp", ClusterCIDR, Any) \in MatchType
  BY FlowAssumption, MatchTyped
<1>2. /\ Flow(Classification, 0, Match("any", ClusterCIDR \cup {Outside}, Any), Output(Host))
           \in FlowType
      /\ Flow(Classification, 500, Match("ip", {GatewayIP}, Any), Output(Host)) \in FlowType
      /\ Flow(LocalARP, 500, Match("arp", {GatewayIP}, Any), Output(Host)) \in FlowType
  BY <1>0, <1>1, FlowTyped, ActionTyped
<1>3. /\ Flow(Classification, 200, Match("arp", ClusterCIDR \cup {Outside}, Any),
              GotoTable(LocalARP)) \in FlowType
      /\ Flow(LocalARP, 100, Match("arp", PodCIDR, Any), GotoTable(L2Rewrites)) \in FlowType
      /\ Flow(LocalARP, 50, Match("arp", ClusterCIDR, Any), GotoTable(Overlay)) \in FlowType
  BY <1>0, <1>1, FlowTyped, ActionTyped
<1>4. AddDataLinkFlowForGateway \in Seq(Harmless)
  BY <1>2, HarmlessFlow, ShortSeq DEF AddDataLinkFlowForGateway
<1>5. DefaultARPFlows \in Seq(Harmless)
  BY <1>3, HarmlessFlow, ShortSeq DEF DefaultARPFlows
<1>6. << Flow(Classification, 0, Match("any", ClusterCIDR \cup {Outside}, Any), Output(Host)) >>
        \in Seq(Harmless)
  BY <1>2, HarmlessFlow, ShortSeq
<1> QED BY <1>4, <1>5, <1>6, Concatenated DEF AddDefaultFlows

LEMMA ConfigFields ==
  ASSUME NEW c \in Config
  PROVE  /\ c.cidr \in CIDRs /\ c.cidr \subseteq ClusterCIDR \cup {Outside}
         /\ c.tunnelID \in TunnelIDs \cup {0} /\ c.tunnelID # Any
         /\ c.overlayIP \in OverlayIPs
BY FlowAssumption DEF Config, Any

\* what flowsForVSwitch adds, and what it returns
LEMMA ConfigFlowsTyped ==
  ASSUME NEW c \in Config
  PROVE  /\ \A proto \in {"ip", "arp"} :
              /\ TunnelDstFlow(c, proto) \in FlowType
              /\ OverlayFlow(c, proto) \in Plain
         /\ c.node = Self => FlowsForVSwitch(c) \in Seq(Harmless)
         /\ c.node # Self =>
              FlowsForVSwitch(c) \in
                Seq(Harmless \cup {OverlayFlow(c, "ip"), OverlayFlow(c, "arp")})
<1>0. /\ Classification \in Tables /\ Overlay \in Tables /\ L3Forwarding \in Tables
      /\ {100, 150, 300} \subseteq Priorities
  BY DEF Tables, Priorities
<1>1. ASSUME NEW proto \in {"ip", "arp"}
      PROVE  /\ TunnelDstFlow(c, proto) \in FlowType
             /\ OverlayFlow(c, proto) \in FlowType
             /\ LocalFlow(c, proto) \in FlowType
  <2>1. Match(proto, c.cidr, Any) \in MatchType /\ Match(proto, c.cidr, c.tunnelID) \in MatchType
    BY ConfigFields, MatchTyped
  <2> QED
    BY <1>0, <2>1, ConfigFields, FlowTyped, ActionTyped DEF TunnelDstFlow, OverlayFlow, LocalFlow
<1>2. ASSUME NEW proto \in {"ip", "arp"}
      PROVE  OverlayFlow(c, proto) \in Plain /\ LocalFlow(c, proto) \in Harmless
  BY <1>1, HarmlessFlow DEF Plain, OverlayFlow, LocalFlow, Flow, SetTunnel
<1>3. ClassificationFlows \in Seq(Harmless)
  <2>1. Match("ip", PodCIDR, Any) \in MatchType /\ Match("ip", ClusterCIDR, Any) \in MatchType
    BY FlowAssumption, MatchTyped
  <2>2. /\ Flow(Classification, 300, Match("ip", PodCIDR, Any), GotoTable(L2Rewrites)) \in FlowType
        /\ Flow(Classification, 100, Match("ip", ClusterCIDR, Any), GotoTable(Overlay)) \in FlowType
    BY <1>0, <2>1, FlowTyped, ActionTyped
  <2> QED BY <2>2, HarmlessFlow, ShortSeq DEF ClassificationFlows
<1>4. CASE c.node = Self
  <2>1. << LocalFlow(c, "ip"), LocalFlow(c, "arp") >> \in Seq(Harmless)
    BY <1>2, ShortSeq
  <2> QED BY <1>1, <1>2, <1>3, <1>4, <2>1, Concatenated DEF FlowsForVSwitch
<1>5. CASE c.node # Self
  <2> DEFINE S == Harmless \cup {OverlayFlow(c, "ip"), OverlayFlow(c, "arp")}
  <2>1. << OverlayFlow(c, "ip"), OverlayFlow(c, "arp") >> \in Seq(S)
    BY ShortSeq
  <2>2. ClassificationFlows \in Seq(S)
    BY <1>3, SeqMonotone
  <2> HIDE DEF S
  <2>3. FlowsForVSwitch(c) \in Seq(S)
    BY <1>5, <2>1, <2>2, Concatenated DEF FlowsForVSwitch
  <2> QED BY <1>1, <1>2, <1>5, <2>3 DEF S
<1> QED BY <1>4, <1>5

LEMMA VSwitchFlowsTyped == ASSUME NEW c \in Config PROVE FlowsForVSwitch(c) \in Seq(FlowType)
<1> DEFINE S == Harmless \cup {OverlayFlow(c, "ip"), OverlayFlow(c, "arp")}
<1>1. Harmless \subseteq FlowType /\ S \subseteq FlowType
  BY ConfigFlowsTyped DEF Harmless, Plain
<1>2. FlowsForVSwitch(c) \in Seq(Harmless) \/ FlowsForVSwitch(c) \in Seq(S)
  BY ConfigFlowsTyped
<1> HIDE DEF S
<1> QED BY <1>1, <1>2, SeqMonotone

-----------------------------------------------------------------------------
(* The tables                                                               *)

\* Adding a flow keeps the matches that are there and brings no flow but itself.
LEMMA InstalledKeeps ==
  ASSUME flows \subseteq FlowType, NEW f \in FlowType, flows' = Installed(flows, f),
         \A g, h \in flows : SameKey(g, h) => g = h
  PROVE  /\ flows' \subseteq FlowType
         /\ \A g, h \in flows' : SameKey(g, h) => g = h
         /\ f \in flows'
         /\ \A g \in flows' : g = f \/ g \in flows
         /\ \A g : HasDst(g) => HasDst(g)'
<1>1. \A g \in flows : \E h \in flows' : SameKey(g, h)
  BY DEF Installed, SameKey
<1>2. ASSUME NEW g, HasDst(g) PROVE HasDst(g)'
  <2>1. PICK d \in flows : /\ d.table = L3Forwarding /\ d.prio = 150
                           /\ d.match = [g.match EXCEPT !.tun = g.act.tun]
    BY <1>2 DEF HasDst
  <2>2. PICK h \in flows' : SameKey(d, h)
    BY <1>1
  <2> QED BY <2>1, <2>2 DEF HasDst, SameKey
<1> QED BY <1>2 DEF Installed, SameKey

\* What is Led stays Led while matches are kept.
LEMMA LedKept ==
  ASSUME \A g : HasDst(g) => HasDst(g)', greeted' = greeted
  PROVE  (\A f : Led(f) => Led(f)') /\ LedPlain \subseteq LedPlain'
BY DEF Led, LedPlain, Plain

LEMMA HarmlessIsLed == Harmless \subseteq LedPlain
BY DEF Harmless, LedPlain, Led

-----------------------------------------------------------------------------
(* The invariant                                                            *)

\* The informers list the configs as a sequence of versions.
LEMMA ListedConfigs ==
  ASSUME IndInv
  PROVE  /\ Cardinality(Existing) \in Nat
         /\ Existing \subseteq versions
         /\ \A q \in Orders(Existing) : q \in Seq(versions) /\ q \in Seq(Config)
<1> DEFINE S == {configs[n] : n \in Nodes}
<1>1. configs \in Surjection(Nodes, S)
  BY DEF IndInv, TypeOK, Surjection
<1>2. IsFiniteSet(S)
  <2> HIDE DEF S
  <2> QED BY <1>1, FlowAssumption, FS_Surjection
<1>3. Cardinality(Existing) \in Nat
  BY <1>2, FS_Subset, FS_CardinalityType DEF Existing
<1>4. Existing \subseteq versions /\ versions \subseteq Config
  BY DEF IndInv, TypeOK, Existing
<1>5. ASSUME NEW q \in Orders(Existing) PROVE q \in Seq(versions) /\ q \in Seq(Config)
  BY <1>3, <1>4 DEF Orders
<1> QED BY <1>3, <1>4, <1>5

LEMMA InitInv == Init => IndInv
<1> SUFFICES ASSUME Init PROVE IndInv
  OBVIOUS
<1>1. PICK c \in ConfigInputs : /\ configs = [n \in Nodes |-> IF n = Self THEN c ELSE NoConfig]
                                /\ versions = {c}
  BY DEF Init
<1>2. c \in Config
  BY FlowAssumption
<1>3. TypeOK
  <2>1. configs \in [Nodes -> Config \cup {NoConfig}] /\ versions \subseteq Config
    BY <1>1, <1>2
  <2>2. up \in BOOLEAN /\ vxlan0 \in BOOLEAN /\ greeted \in BOOLEAN
    BY Zenon DEF Init
  <2>3. /\ ofQ \in Seq(Config) /\ queue \in Seq(FlowType) /\ flows \subseteq FlowType
        /\ \A f, g \in flows : SameKey(f, g) => f = g
    BY DEF Init
  <2>4. ofc \in [pc : {"idle"}]
    BY DEF Init, Idle
  <2>5. vxQ \in Nat /\ changes \in Nat /\ failures \in Nat
    BY DEF Init
  <2> QED BY <2>1, <2>2, <2>3, <2>4, <2>5 DEF TypeOK
<1>4. ofQ \in Seq(versions) /\ queue \in Seq(LedPlain)
  BY DEF Init
<1> QED BY <1>1, <1>3, <1>4 DEF Init, IndInv

\* Events and messages are lost or stay, the tables stay.  A handler at work
\* keeps its channel or loses it.
LEMMA QuietInv ==
  ASSUME IndInv, UNCHANGED <<cluster, switch>>, greeted' \in BOOLEAN,
         up' \in BOOLEAN, vxQ' \in Nat, changes' \in Nat, failures' \in Nat,
         ofQ' \in Seq(versions), queue' \in Seq(LedPlain'), ofc' \in {ofc, Idle},
         ofc' # Idle => up' /\ (greeted' => greeted)
  PROVE  IndInv'
<1>1. versions \subseteq Config /\ LedPlain' \subseteq FlowType
  BY DEF IndInv, TypeOK, LedPlain, Plain
<1>2. ofQ' \in Seq(Config) /\ queue' \in Seq(FlowType)
  BY <1>1, SeqMonotone
<1>3. TypeOK'
  BY <1>2 DEF IndInv, TypeOK, Idle, cluster, switch
<1>4. \A f : HasDst(f)' = HasDst(f) /\ Led(f)' = Led(f)
  BY DEF Led, HasDst, switch
<1>5. TunnelFlows' = TunnelFlows /\ Remote' = Remote /\ Plain' = Plain
  BY DEF TunnelFlows, Remote, Plain, cluster
<1>6. \A f \in flows' : f \in (Plain \cup TunnelFlows)' /\ Led(f)'
  BY <1>4, <1>5 DEF IndInv, switch
<1>7. ofc' # Idle =>
        /\ ofc'.cfg \in Remote'
        /\ ofc'.pc = "arp" /\ greeted' => HasDst(OverlayFlow(ofc.cfg, "ip"))'
  BY <1>4, <1>5 DEF IndInv
<1> QED BY <1>3, <1>6, <1>7 DEF IndInv, cluster

\* What was fit to be sent still is when the channel is what it was, or gone.
LEMMA QuietLed ==
  ASSUME flows' = flows, greeted' => greeted
  PROVE  LedPlain \subseteq LedPlain'
BY DEF LedPlain, Plain, Led, HasDst

LEMMA StartInv == ASSUME IndInv, Start PROVE IndInv'
<1>1. queue' \in Seq(LedPlain')
  <2>1. Harmless \subseteq LedPlain'
    BY DEF Harmless, LedPlain, Plain, Led
  <2> QED BY <2>1, DefaultFlowsTyped, SeqMonotone DEF Start
<1>2. ofQ' \in Seq(versions) /\ vxQ' \in Nat
  BY ListedConfigs DEF Start
<1>3. up' \in BOOLEAN /\ greeted' \in BOOLEAN
  BY Zenon DEF Start
<1>4. changes' \in Nat /\ failures' \in Nat /\ UNCHANGED <<cluster, switch>>
  BY DEF Start, bounds, IndInv, TypeOK
<1>5. ofc' = ofc /\ ofc' = Idle
  BY DEF Start, IndInv
<1> QED BY <1>1, <1>2, <1>3, <1>4, <1>5, QuietInv

LEMMA ResyncInv == ASSUME IndInv, Resync PROVE IndInv'
<1>1. ofQ' \in Seq(versions) /\ vxQ' \in Nat
  BY ListedConfigs DEF Resync
<1>2. /\ up' \in BOOLEAN /\ greeted' \in BOOLEAN /\ changes' \in Nat /\ failures' \in Nat
      /\ ofc' = ofc /\ ofc' = Idle /\ greeted' = greeted
      /\ UNCHANGED <<cluster, switch>>
  BY DEF Resync, bounds, IndInv, TypeOK
<1>3. queue' \in Seq(LedPlain')
  BY <1>2, QuietLed, SeqMonotone DEF Resync, IndInv, switch
<1> QED BY <1>1, <1>2, <1>3, QuietInv

\* Without the port, or for the own config, the handler is idle again.
LEMMA OnVSwitchInv == ASSUME IndInv, OnVSwitch PROVE IndInv'
<1> DEFINE c == Head(ofQ)
<1>1. c \in versions /\ versions \subseteq Config /\ Tail(ofQ) \in Seq(versions)
  BY DEF IndInv, TypeOK, OnVSwitch
<1>2. ofQ' \in Seq(versions) /\ ofQ' \in Seq(Config)
  BY <1>1, SeqMonotone DEF OnVSwitch
<1>3. queue' \in Seq(LedPlain)
  <2>1. CASE vxlan0 /\ c.node = Self
    <3>1. FlowsForVSwitch(c) \in Seq(LedPlain)
      BY <1>1, <2>1, ConfigFlowsTyped, HarmlessIsLed, SeqMonotone
    <3> QED BY <2>1, <3>1, Concatenated DEF OnVSwitch, IndInv
  <2>2. CASE ~(vxlan0 /\ c.node = Self)
    BY <2>2 DEF OnVSwitch, IndInv
  <2> QED BY <2>1, <2>2
<1>4. /\ up' \in BOOLEAN /\ vxQ' \in Nat /\ changes' \in Nat /\ failures' \in Nat
      /\ greeted' \in BOOLEAN /\ UNCHANGED <<cluster, switch, greeted>> /\ up'
  BY DEF OnVSwitch, bounds, IndInv, TypeOK
<1>7. queue' \in Seq(LedPlain')
  BY <1>3, <1>4, QuietLed, SeqMonotone DEF switch
<1>5. CASE ~(vxlan0 /\ c.node # Self)
  BY <1>2, <1>4, <1>5, <1>7, QuietInv DEF OnVSwitch
<1>6. CASE vxlan0 /\ c.node # Self
  <2>1. ofc' = [pc |-> "ip", cfg |-> c]
    BY <1>6 DEF OnVSwitch
  <2>2. queue' \in Seq(FlowType)
    BY <1>3, SeqMonotone DEF LedPlain, Plain
  <2>3. TypeOK'
    BY <1>1, <1>2, <1>4, <2>1, <2>2 DEF IndInv, TypeOK, cluster, switch
  <2>4. \A f : Led(f)' = Led(f)
    BY <1>4 DEF Led, HasDst, switch
  <2>5. TunnelFlows' = TunnelFlows /\ Remote' = Remote /\ Plain' = Plain
    BY <1>4 DEF TunnelFlows, Remote, Plain, cluster
  <2>7. \A f \in flows' : f \in (Plain \cup TunnelFlows)' /\ Led(f)'
    BY <1>4, <2>4, <2>5 DEF IndInv, switch
  <2>8. ofc'.cfg \in Remote' /\ ofc'.pc # "arp"
    BY <1>1, <1>4, <1>6, <2>1 DEF Remote, cluster
  <2> QED BY <1>2, <1>4, <1>7, <2>3, <2>7, <2>8 DEF IndInv, cluster
<1> QED BY <1>5, <1>6

LEMMA AddVxLANPortInv == ASSUME IndInv, AddVxLANPort PROVE IndInv'
<1>1. TypeOK'
  <2>1. vxlan0' \in BOOLEAN
    BY Zenon DEF AddVxLANPort
  <2> QED BY <2>1 DEF AddVxLANPort, cluster, bounds, IndInv, TypeOK
<1>2. LedPlain' = LedPlain /\ \A f : HasDst(f)' = HasDst(f) /\ Led(f)' = Led(f)
  BY DEF AddVxLANPort, LedPlain, Plain, Led, HasDst
<1>3. TunnelFlows' = TunnelFlows /\ Remote' = Remote /\ Plain' = Plain
  BY DEF AddVxLANPort, TunnelFlows, Remote, Plain, cluster
<1>4. queue' \in Seq(LedPlain')
  BY <1>2 DEF AddVxLANPort, IndInv
<1>5. \A f \in flows' : f \in (Plain \cup TunnelFlows)' /\ Led(f)'
  BY <1>2, <1>3 DEF AddVxLANPort, IndInv
<1> QED BY <1>1, <1>2, <1>3, <1>4, <1>5 DEF AddVxLANPort, IndInv, cluster

LEMMA FaultInv == ASSUME IndInv, Fault PROVE IndInv'
<1>1. vxQ' \in Nat /\ changes' \in Nat /\ failures' \in Nat
  BY DEF Fault, Fail, IndInv, TypeOK
<1>2. /\ ofc' \in {ofc, Idle} /\ UNCHANGED <<cluster, switch, greeted>>
      /\ up' \in BOOLEAN /\ greeted' \in BOOLEAN /\ up'
  BY DEF Fault, Fail, IndInv, TypeOK
<1>3. ofQ' \in Seq(versions) /\ queue' \in Seq(LedPlain)
  <2>1. ofQ \in Seq(versions) /\ (ofQ # <<>> => Tail(ofQ) \in Seq(versions))
    BY DEF IndInv
  <2> QED BY <2>1 DEF Fault, IndInv
<1>4. queue' \in Seq(LedPlain')
  BY <1>2, <1>3, QuietLed, SeqMonotone DEF switch
<1> QED BY <1>1, <1>2, <1>3, <1>4, QuietInv

LEMMA CrashInv == ASSUME IndInv, Crash PROVE IndInv'
<1>1. vxQ' \in Nat /\ changes' \in Nat /\ failures' \in Nat
  BY DEF Crash, Fail, bounds, IndInv, TypeOK
<1>2. up' \in BOOLEAN /\ greeted' \in BOOLEAN
  BY Zenon DEF Crash
<1>3. ofc' = Idle /\ UNCHANGED <<cluster, switch>>
  BY DEF Crash, Fail
<1>4. ofQ' \in Seq(versions) /\ queue' \in Seq(LedPlain')
  BY DEF Crash
<1> QED BY <1>1, <1>2, <1>3, <1>4, QuietInv

\* What the channel swallows from now on needs nothing in the tables.
LEMMA LoseConnectionInv == ASSUME IndInv, LoseConnection PROVE IndInv'
<1>1. greeted' \in BOOLEAN /\ ~greeted'
  BY Zenon DEF LoseConnection
<1>2. /\ UNCHANGED <<cluster, switch, ofc>> /\ up' \in BOOLEAN /\ up' /\ vxQ' \in Nat
      /\ changes' \in Nat /\ failures' \in Nat /\ ofQ' \in Seq(versions)
  BY DEF LoseConnection, Fail, handlers, IndInv, TypeOK
<1>3. queue' \in Seq(LedPlain')
  BY <1>1, <1>2, QuietLed, SeqMonotone DEF LoseConnection, switch, IndInv
<1> QED BY <1>1, <1>2, <1>3, QuietInv

\* The tables are empty and nothing queued gets there any more.
LEMMA RestartSwitchInv == ASSUME IndInv, RestartSwitch PROVE IndInv'
<1>1. TypeOK'
  <2>1. greeted' \in BOOLEAN
    BY Zenon DEF RestartSwitch
  <2> QED BY <2>1 DEF RestartSwitch, Fail, cluster, handlers, IndInv, TypeOK
<1>2. ~greeted' /\ flows' = {}
  BY DEF RestartSwitch
<1>3. LedPlain \subseteq LedPlain'
  BY <1>2 DEF LedPlain, Plain
<1>4. Remote' = Remote
  BY DEF RestartSwitch, Fail, Remote, cluster
<1>5. queue' \in Seq(LedPlain')
  BY <1>3, SeqMonotone DEF RestartSwitch, IndInv
<1> QED BY <1>1, <1>2, <1>4, <1>5 DEF RestartSwitch, Fail, cluster, handlers, IndInv

\* A led or a tunnel's flow is added to the tables.
LEMMA TableKept ==
  ASSUME IndInv, UNCHANGED <<cluster, greeted>>,
         NEW f \in Plain \cup TunnelFlows, Led(f), flows' = Installed(flows, f)
  PROVE  /\ flows' \subseteq FlowType
         /\ \A g, h \in flows' : SameKey(g, h) => g = h
         /\ f \in flows'
         /\ \A g : HasDst(g) => HasDst(g)'
         /\ LedPlain \subseteq LedPlain'
         /\ Remote' = Remote
         /\ \A g \in flows' : g \in (Plain \cup TunnelFlows)' /\ Led(g)'
<1>1. f \in FlowType
  BY DEF Plain, TunnelFlows
<1>2. flows \subseteq FlowType /\ \A g, h \in flows : SameKey(g, h) => g = h
  BY DEF IndInv, TypeOK
<1>3. /\ flows' \subseteq FlowType
      /\ \A g, h \in flows' : SameKey(g, h) => g = h
      /\ f \in flows'
      /\ \A g \in flows' : g = f \/ g \in flows
      /\ \A g : HasDst(g) => HasDst(g)'
  BY <1>1, <1>2, InstalledKeeps
<1>4. (\A g : Led(g) => Led(g)') /\ LedPlain \subseteq LedPlain'
  BY <1>3, LedKept
<1>5. Remote' = Remote /\ Plain' = Plain /\ TunnelFlows' = TunnelFlows
  BY DEF Remote, Plain, TunnelFlows, cluster
<1>6. \A g \in flows' : g \in (Plain \cup TunnelFlows)' /\ Led(g)'
  BY <1>3, <1>4, <1>5 DEF IndInv
<1> QED BY <1>3, <1>4, <1>5, <1>6

\* A message on a broken channel is only taken off the queue.
LEMMA ApplyFlowInv == ASSUME IndInv, ApplyFlow PROVE IndInv'
<1> DEFINE f == Head(queue)
<1>1. f \in LedPlain /\ queue' \in Seq(LedPlain) /\ up /\ UNCHANGED <<cluster, greeted>>
  BY DEF ApplyFlow, IndInv
<1>7. CASE ~greeted
  <2>1. /\ UNCHANGED <<cluster, switch, ofc>> /\ up' \in BOOLEAN /\ up' /\ vxQ' \in Nat
        /\ changes' \in Nat /\ failures' \in Nat /\ ofQ' \in Seq(versions)
        /\ greeted' \in BOOLEAN
    BY <1>7 DEF ApplyFlow, handlers, switch, bounds, IndInv, TypeOK
  <2>2. queue' \in Seq(LedPlain')
    BY <1>1, <2>1, QuietLed, SeqMonotone DEF switch
  <2> QED BY <1>1, <2>1, <2>2, QuietInv
<1>8. CASE greeted
  <2>2. f \in Plain /\ Led(f) /\ flows' = Installed(flows, f)
    BY <1>1, <1>8 DEF LedPlain, ApplyFlow
  <2> HIDE DEF f
  <2>3. /\ flows' \subseteq FlowType
        /\ \A g, h \in flows' : SameKey(g, h) => g = h
        /\ \A g : HasDst(g) => HasDst(g)'
        /\ LedPlain \subseteq LedPlain'
        /\ Remote' = Remote
        /\ \A g \in flows' : g \in (Plain \cup TunnelFlows)' /\ Led(g)'
    BY <1>1, <2>2, TableKept
  <2>4. queue' \in Seq(FlowType) /\ queue' \in Seq(LedPlain')
    BY <1>1, <2>3, SeqMonotone DEF LedPlain, Plain
  <2>5. TypeOK'
    BY <2>3, <2>4 DEF ApplyFlow, cluster, handlers, bounds, IndInv, TypeOK
  <2>6. ofc' # Idle =>
          /\ ofc'.cfg \in Remote'
          /\ ofc'.pc = "arp" /\ greeted' => HasDst(OverlayFlow(ofc.cfg, "ip"))'
    BY <2>3 DEF ApplyFlow, handlers, IndInv
  <2> QED BY <2>3, <2>4, <2>5, <2>6 DEF ApplyFlow, cluster, handlers, IndInv
<1> QED BY <1>7, <1>8

\* The second command has been given when the messages are sent.
LEMMA AddTunnelDstFlowsInv == ASSUME IndInv, AddTunnelDstFlows PROVE IndInv'
<1>0. PICK c, p : c = ofc.cfg /\ p = ofc.pc
  OBVIOUS
<1> DEFINE f == TunnelDstFlow(c, p)
<1>1. p \in {"ip", "arp"} /\ ofc # Idle
  BY <1>0 DEF AddTunnelDstFlows, Idle
<1>2. ofc \in [pc : {"ip", "arp"}, cfg : Config] /\ c \in Config /\ c \in Remote
  BY <1>0, <1>1 DEF IndInv, TypeOK
<1>3. f \in TunnelFlows /\ Led(f)
  <2>1. f \in FlowType
    BY <1>1, <1>2, ConfigFlowsTyped
  <2>2. f.table = L3Forwarding
    BY DEF TunnelDstFlow, Flow
  <2> QED BY <1>1, <1>2, <2>1, <2>2 DEF TunnelFlows, Led, L3Forwarding, Overlay
<1>4. flows' = Installed(flows, f) /\ UNCHANGED <<cluster, greeted>>
  BY <1>0 DEF AddTunnelDstFlows
<1> HIDE DEF f
<1>5. /\ flows' \subseteq FlowType
      /\ \A g, h \in flows' : SameKey(g, h) => g = h
      /\ f \in flows'
      /\ \A g : HasDst(g) => HasDst(g)'
      /\ LedPlain \subseteq LedPlain'
      /\ Remote' = Remote
      /\ \A g \in flows' : g \in (Plain \cup TunnelFlows)' /\ Led(g)'
  BY <1>3, <1>4, TableKept
<1>6. HasDst(OverlayFlow(c, p))'
  <2>1. [OverlayFlow(c, p).match EXCEPT !.tun = OverlayFlow(c, p).act.tun] = f.match
    BY DEF OverlayFlow, TunnelDstFlow, Flow, Match, SetTunnel, f
  <2>2. f.table = L3Forwarding /\ f.prio = 150
    BY DEF TunnelDstFlow, Flow, f
  <2> QED BY <1>5, <2>1, <2>2 DEF HasDst, OverlayFlow, Flow, Match, SetTunnel
<1>7. CASE p = "ip"
  <2>1. ofc' = [ofc EXCEPT !.pc = "arp"] /\ queue' = queue
    BY <1>0, <1>7 DEF AddTunnelDstFlows
  <2>2. ofc' = [pc |-> "arp", cfg |-> c]
    BY <1>0, <1>2, <2>1
  <2>3. queue' \in Seq(LedPlain')
    BY <1>5, <2>1, SeqMonotone DEF IndInv
  <2>4. TypeOK'
    BY <1>2, <1>5, <2>1, <2>2 DEF AddTunnelDstFlows, cluster, bounds, IndInv, TypeOK
  <2>5. ofc'.cfg \in Remote' /\ HasDst(OverlayFlow(ofc.cfg, "ip"))'
    <3>1. ofc'.cfg = c
      BY <2>2
    <3>2. HasDst(OverlayFlow(c, "ip"))'
      BY <1>6, <1>7
    <3> QED BY <1>2, <1>5, <3>1, <3>2 DEF HasDst, OverlayFlow
  <2> QED BY <1>5, <2>3, <2>4, <2>5 DEF AddTunnelDstFlows, cluster, IndInv
<1>8. CASE p = "arp"
  <2>1. ofc' = Idle /\ queue' = queue \o FlowsForVSwitch(c)
    BY <1>0, <1>8 DEF AddTunnelDstFlows
  <2>2. OverlayFlow(c, "ip") \in LedPlain' /\ OverlayFlow(c, "arp") \in LedPlain'
    <3>1. greeted => HasDst(OverlayFlow(c, "ip"))'
      BY <1>0, <1>1, <1>5, <1>8 DEF IndInv
    <3>2. HasDst(OverlayFlow(c, "arp"))'
      BY <1>6, <1>8
    <3>3. OverlayFlow(c, "ip") \in Plain /\ OverlayFlow(c, "arp") \in Plain
      BY <1>2, ConfigFlowsTyped
    <3> QED BY <1>4, <3>1, <3>2, <3>3 DEF LedPlain, Led, Plain
  <2>3. FlowsForVSwitch(c) \in Seq(LedPlain')
    <3> DEFINE S == Harmless \cup {OverlayFlow(c, "ip"), OverlayFlow(c, "arp")}
    <3>1. FlowsForVSwitch(c) \in Seq(S)
      BY <1>2, ConfigFlowsTyped DEF Remote
    <3>2. S \subseteq LedPlain'
      BY <1>5, <2>2, HarmlessIsLed
    <3> HIDE DEF S
    <3> QED BY <3>1, <3>2, SeqMonotone
  <2>4. queue' \in Seq(LedPlain')
    <3>1. queue \in Seq(LedPlain')
      BY <1>5, SeqMonotone DEF IndInv
    <3> QED BY <2>1, <2>3, <3>1, Concatenated
  <2>5. queue' \in Seq(FlowType)
    BY <2>4, SeqMonotone DEF LedPlain, Plain
  <2>6. TypeOK'
    BY <1>5, <2>1, <2>5 DEF AddTunnelDstFlows, cluster, bounds, IndInv, TypeOK, Idle
  <2> QED BY <1>5, <2>1, <2>4, <2>6 DEF AddTunnelDstFlows, cluster, IndInv
<1> QED BY <1>1, <1>7, <1>8

\* versions only grow, so that what is in the tables and the queue stays right.
LEMMA WriteConfigInv == ASSUME IndInv, NEW c \in ConfigInputs, WriteConfig(c) PROVE IndInv'
<1>1. c \in Config /\ c.node \in Nodes
  BY FlowAssumption DEF Config
<1>2. /\ configs' = [configs EXCEPT ![c.node] = c] /\ versions' = versions \cup {c}
      /\ UNCHANGED <<up, ofc, queue, greeted, switch, failures>>
      /\ changes' = changes + 1
  BY DEF WriteConfig, Change
<1>3. ofQ' \in Seq(versions')
  <2>1. ofQ \in Seq(versions') /\ c \in versions'
    BY <1>2, SeqMonotone DEF IndInv
  <2> QED BY <2>1 DEF WriteConfig, NotifyVSwitch
<1>4. vxQ' \in Nat
  BY DEF WriteConfig, NotifyVSwitch, IndInv, TypeOK
<1>5. versions' \subseteq Config
  BY <1>1, <1>2 DEF IndInv, TypeOK
<1>6. ofQ' \in Seq(Config)
  BY <1>3, <1>5, SeqMonotone
<1>7. TypeOK'
  BY <1>1, <1>2, <1>4, <1>5, <1>6 DEF IndInv, TypeOK, switch
<1>8. LedPlain' = LedPlain /\ \A f : HasDst(f)' = HasDst(f) /\ Led(f)' = Led(f)
  BY <1>2 DEF LedPlain, Plain, Led, HasDst, switch
<1>9. Remote \subseteq Remote' /\ TunnelFlows \subseteq TunnelFlows' /\ Plain' = Plain
  BY <1>2 DEF Remote, TunnelFlows, Plain
<1>10. queue' \in Seq(LedPlain')
  BY <1>2, <1>8 DEF IndInv
<1>11. \A f \in flows' : f \in (Plain \cup TunnelFlows)' /\ Led(f)'
  BY <1>2, <1>8, <1>9 DEF IndInv, switch
<1>12. \A n \in Nodes : configs'[n] \in versions' \cup {NoConfig}
  BY <1>1, <1>2 DEF IndInv, TypeOK
<1>13. ofc' # Idle =>
        /\ ofc'.cfg \in Remote'
        /\ ofc'.pc = "arp" /\ greeted' => HasDst(OverlayFlow(ofc.cfg, "ip"))'
  BY <1>2, <1>8, <1>9 DEF IndInv, switch
<1> QED BY <1>2, <1>3, <1>7, <1>10, <1>11, <1>12, <1>13 DEF IndInv

LEMMA DeleteConfigInv == ASSUME IndInv, NEW n \in Nodes, DeleteConfig(n) PROVE IndInv'
<1>1. /\ configs' = [configs EXCEPT ![n] = NoConfig]
      /\ UNCHANGED <<versions, ofQ, vxQ, up, ofc, queue, greeted, switch, failures>>
      /\ changes' = changes + 1
  BY DEF DeleteConfig, Change
<1>2. TypeOK'
  BY <1>1 DEF IndInv, TypeOK, switch
<1>3. LedPlain' = LedPlain /\ \A f : HasDst(f)' = HasDst(f) /\ Led(f)' = Led(f)
  BY <1>1 DEF LedPlain, Plain, Led, HasDst, switch
<1>4. Remote' = Remote /\ TunnelFlows' = TunnelFlows /\ Plain' = Plain
  BY <1>1 DEF Remote, TunnelFlows, Plain
<1>5. queue' \in Seq(LedPlain') /\ ofQ' \in Seq(versions')
  BY <1>1, <1>3 DEF IndInv
<1>6. \A f \in flows' : f \in (Plain \cup TunnelFlows)' /\ Led(f)'
  BY <1>1, <1>3, <1>4 DEF IndInv, switch
<1>7. \A m \in Nodes : configs'[m] \in versions' \cup {NoConfig}
  BY <1>1 DEF IndInv, TypeOK
<1>8. ofc' # Idle =>
        /\ ofc'.cfg \in Remote'
        /\ ofc'.pc = "arp" /\ greeted' => HasDst(OverlayFlow(ofc.cfg, "ip"))'
  BY <1>1, <1>3, <1>4 DEF IndInv, switch
<1> QED BY <1>1, <1>2, <1>5, <1>6, <1>7, <1>8 DEF IndInv

LEMMA NextInv == IndInv /\ [Next]_vars => IndInv'
<1> SUFFICES ASSUME IndInv, [Next]_vars PROVE IndInv'
  OBVIOUS
<1>1. CASE Agent
  BY <1>1, StartInv, ResyncInv, AddVxLANPortInv, OnVSwitchInv, AddTunnelDstFlowsInv DEF Agent
<1>2. CASE ApplyFlow
  BY <1>2, ApplyFlowInv
<1>3. CASE Environment
  BY <1>3, WriteConfigInv, DeleteConfigInv, LoseConnectionInv, RestartSwitchInv, CrashInv, FaultInv
  DEF Environment
<1>4. CASE UNCHANGED vars
  <2>1. /\ UNCHANGED <<cluster, switch, up, greeted>> /\ ofc' = ofc
        /\ ofQ' \in Seq(versions) /\ queue' \in Seq(LedPlain)
        /\ ofc' # Idle => up'
    BY <1>4 DEF vars, handlers, IndInv
  <2>2. /\ up' \in BOOLEAN /\ vxQ' \in Nat /\ changes' \in Nat /\ failures' \in Nat
        /\ greeted' \in BOOLEAN
    BY <1>4 DEF vars, handlers, bounds, IndInv, TypeOK
  <2>3. queue' \in Seq(LedPlain')
    BY <2>1, QuietLed, SeqMonotone DEF switch
  <2> QED BY <2>1, <2>2, <2>3, QuietInv
<1> QED BY <1>1, <1>2, <1>3, <1>4 DEF Next

LEMMA Inductive == Spec => []IndInv
BY InitInv, NextInv, PTL DEF Spec

\* Objects, events, handlers and flows keep their types, and no table has two
\* flows with the same priority and match, whatever openflow and ovs-ofctl add.
THEOREM TypeCorrect == Spec => []TypeOK
BY Inductive, PTL DEF IndInv

\* A flow that flowsForVSwitch sends into a tunnel is never in the tables
\* without the flow addTunnelDstFlows gave by ovs-ofctl.
THEOREM TunnelsNeverDangle == Spec => []TunnelNeverDangles
<1>1. IndInv => TunnelNeverDangles
  BY DEF IndInv, TunnelNeverDangles, Led, HasDst
<1> QED BY <1>1, Inductive, PTL

-----------------------------------------------------------------------------
(* The way of a packet                                                      *)

Drop == <<"drop">>

HopType ==
  [table : Tables \cup {Any}, tun : TunnelIDs \cup {0},
   out : {None, Host, Drop} \cup {Vxlan(ip) : ip \in OverlayIPs}]

PacketType == [proto : {"ip", "arp"}, dst : ClusterCIDR, tun : TunnelIDs \cup {0}]

\* The flows' priorities are a few numbers, so one of them is the highest.
LEMMA BestExists ==
  ASSUME NEW fs, fs \subseteq FlowType, fs # {}
  PROVE  Best(fs) \in fs /\ \A g \in fs : g.prio <= Best(fs).prio
<1>1. \A f \in fs : f.prio \in {0, 50, 100, 150, 200, 300, 500}
  BY DEF FlowType, Priorities
<1>2. \E f \in fs : \A g \in fs : g.prio <= f.prio
  <2>1. CASE \E f \in fs : f.prio = 500
    BY <1>1, <2>1
  <2>2. CASE (\E f \in fs : f.prio = 300) /\ ~\E f \in fs : f.prio = 500
    BY <1>1, <2>2
  <2>3. CASE (\E f \in fs : f.prio = 200) /\ ~\E f \in fs : f.prio \in {300, 500}
    BY <1>1, <2>3
  <2>4. CASE (\E f \in fs : f.prio = 150) /\ ~\E f \in fs : f.prio \in {200, 300, 500}
    BY <1>1, <2>4
  <2>5. CASE (\E f \in fs : f.prio = 100) /\ ~\E f \in fs : f.prio \in {150, 200, 300, 500}
    BY <1>1, <2>5
  <2>6. CASE ~\E f \in fs : f.prio \in {100, 150, 200, 300, 500}
    BY <1>1, <2>6
  <2> QED BY <2>1, <2>2, <2>3, <2>4, <2>5, <2>6
<1> QED BY <1>2 DEF Best

\* A packet in a tunnel got there by the flows of one version of a config.
Accounted(pkt, h) ==
  h.out[1] = "vxlan" =>
    \E v \in Remote : pkt.dst \in v.cidr /\ v.tunnelID = h.tun /\ h.out = Vxlan(v.overlayIP)

LEMMA OutTyped ==
  /\ None[1] # "vxlan" /\ Host[1] # "vxlan" /\ Drop[1] # "vxlan"
  /\ Host # None /\ Drop # None
  /\ \A ip : Vxlan(ip) # None /\ Vxlan(ip) # Host /\ Vxlan(ip)[1] = "vxlan"
BY DEF None, Host, Drop, Vxlan

LEMMA HopAccounted ==
  ASSUME IndInv, NEW pkt \in PacketType, NEW h \in HopType, Accounted(pkt, h)
  PROVE  Hop(flows, pkt, h) \in HopType /\ Accounted(pkt, Hop(flows, pkt, h))
<1>1. CASE h.out # None
  BY <1>1 DEF Hop
<1>2. CASE h.out = None /\ Matching(flows, pkt, h) = {}
  <2>1. Hop(flows, pkt, h) = [h EXCEPT !.out = Drop]
    BY <1>2 DEF Hop, Drop
  <2>2. Hop(flows, pkt, h) \in HopType /\ Hop(flows, pkt, h).out = Drop
    BY <2>1 DEF HopType
  <2> QED BY <2>2, OutTyped DEF Accounted
<1>3. CASE h.out = None /\ Matching(flows, pkt, h) # {}
  <2>1. Matching(flows, pkt, h) \subseteq FlowType
    BY DEF Matching, IndInv, TypeOK
  <2>2. PICK f \in Matching(flows, pkt, h) : f = Best(Matching(flows, pkt, h))
    BY <1>3, <2>1, BestExists
  <2>3. Hop(flows, pkt, h) =
          [table |-> f.act.goto, tun |-> IF f.act.tun = Any THEN h.tun ELSE f.act.tun,
           out |-> f.act.out]
    BY <1>3, <2>2 DEF Hop
  <2>4. f \in FlowType /\ f.act \in ActionType /\ f \in flows
    BY <2>1 DEF FlowType, Matching
  <2>5. Hop(flows, pkt, h) \in HopType
    <3>1. f.act.goto \in Tables \cup {Any}
      BY <2>4 DEF ActionType, Tables
    <3>2. (IF f.act.tun = Any THEN h.tun ELSE f.act.tun) \in TunnelIDs \cup {0}
      BY <2>4 DEF ActionType, HopType
    <3>3. f.act.out \in {None, Host, Drop} \cup {Vxlan(ip) : ip \in OverlayIPs}
      BY <2>4 DEF ActionType
    <3> QED BY <2>3, <3>1, <3>2, <3>3 DEF HopType
  <2>6. CASE f \in Plain
    <3>1. Hop(flows, pkt, h).out \in {None, Host}
      BY <2>3, <2>6 DEF Plain
    <3> QED BY <2>5, <3>1, OutTyped DEF Accounted
  <2>7. CASE f \in TunnelFlows
    <3>1. PICK v \in Remote, proto \in {"ip", "arp"} : f = TunnelDstFlow(v, proto)
      BY <2>7 DEF TunnelFlows
    <3>2. v \in Config /\ v.tunnelID # Any
      BY ConfigFields DEF Remote, IndInv, TypeOK
    <3>3. /\ f.act.tun = Any /\ f.act.out = Vxlan(v.overlayIP)
          /\ f.match.dst = v.cidr /\ f.match.tun = v.tunnelID
      BY <3>1 DEF TunnelDstFlow, Flow, Match, Output
    <3>4. pkt.dst \in v.cidr /\ v.tunnelID = h.tun
      BY <3>2, <3>3 DEF Matching
    <3>5. Hop(flows, pkt, h).tun = h.tun /\ Hop(flows, pkt, h).out = Vxlan(v.overlayIP)
      BY <2>3, <3>3
    <3> QED BY <2>5, <3>4, <3>5 DEF Accounted
  <2> QED BY <2>4, <2>6, <2>7 DEF IndInv
<1> QED BY <1>1, <1>2, <1>3

LEMMA RouteAccounted ==
  ASSUME IndInv, NEW pkt \in PacketType
  PROVE  Accounted(pkt, Route(flows, pkt))
<1> DEFINE h0 == [table |-> Classification, tun |-> pkt.tun, out |-> None]
           h1 == Hop(flows, pkt, h0)
           h2 == Hop(flows, pkt, h1)
           h3 == Hop(flows, pkt, h2)
           h4 == Hop(flows, pkt, h3)
<1>0. h0 \in HopType /\ Accounted(pkt, h0)
  BY OutTyped DEF HopType, PacketType, Accounted, Tables
<1> HIDE DEF h0
<1>1. h1 \in HopType /\ Accounted(pkt, h1)
  BY <1>0, HopAccounted
<1> HIDE DEF h1
<1>2. h2 \in HopType /\ Accounted(pkt, h2)
  BY <1>1, HopAccounted
<1> HIDE DEF h2
<1>3. h3 \in HopType /\ Accounted(pkt, h3)
  BY <1>2, HopAccounted
<1> HIDE DEF h3
<1>4. h4 \in HopType /\ Accounted(pkt, h4)
  BY <1>3, HopAccounted
<1> HIDE DEF h4
<1>5. Accounted(pkt, Hop(flows, pkt, h4))
  BY <1>4, HopAccounted
<1> QED BY <1>5 DEF Route, h0, h1, h2, h3, h4

\* What leaves through a tunnel has ID and destination of one version of one
\* config, with any number of nodes and of stale flows in the tables.
THEOREM TunnelsAccounted == Spec => []TunnelsMatchConfigs
<1>1. IndInv => TunnelsMatchConfigs
  <2> SUFFICES ASSUME IndInv, NEW proto \in {"ip", "arp"}, NEW a \in ClusterCIDR,
                      Route(flows, Packet(proto, a, 0)).out[1] = "vxlan"
               PROVE  \E v \in versions :
                        /\ v.node # Self /\ a \in v.cidr
                        /\ v.tunnelID = Route(flows, Packet(proto, a, 0)).tun
                        /\ Route(flows, Packet(proto, a, 0)).out = Vxlan(v.overlayIP)
    BY DEF TunnelsMatchConfigs
  <2>1. Packet(proto, a, 0) \in PacketType /\ Packet(proto, a, 0).dst = a
    BY DEF Packet, PacketType
  <2>2. Accounted(Packet(proto, a, 0), Route(flows, Packet(proto, a, 0)))
    BY <2>1, RouteAccounted
  <2> QED BY <2>1, <2>2 DEF Accounted, Remote
<1> QED BY <1>1, Inductive, PTL

-----------------------------------------------------------------------------
(* Packets for this node's range: the flow of the narrow range is sent      *)
(* before that of the wide one, which it outranks.                          *)

NarrowIP  == Flow(Classification, 300, Match("ip", PodCIDR, Any), GotoTable(L2Rewrites))
WideIP    == Flow(Classification, 100, Match("ip", ClusterCIDR, Any), GotoTable(Overlay))
NarrowARP == Flow(LocalARP, 100, Match("arp", PodCIDR, Any), GotoTable(L2Rewrites))
WideARP   == Flow(LocalARP, 50, Match("arp", ClusterCIDR, Any), GotoTable(Overlay))

\* Only the wide flows lead from the first tables to that of the tunnels.
Shaped(f) ==
  /\ f.table = Classification =>
       \/ f.act.out = Host
       \/ f.act.out = None /\ f.act.goto \in {LocalARP, L2Rewrites}
       \/ f = WideIP
  /\ f.table = LocalARP =>
       \/ f.act.out = Host
       \/ f.act.out = None /\ f.act.goto = L2Rewrites
       \/ f = WideARP
  /\ f.table # L2Rewrites
  /\ f.table = Classification /\ f.prio = 300 => f = NarrowIP
  /\ f.table = LocalARP /\ f.prio = 100 => f = NarrowARP

\* In s there is a g before every w.
Leads(g, w, s) == \A i \in 1..Len(s) : s[i] = w => \E j \in 1..(i - 1) : s[j] = g

Good(s) ==
  /\ \A i \in 1..Len(s) : Shaped(s[i])
  /\ Leads(NarrowIP, WideIP, s) /\ Leads(NarrowARP, WideARP, s)

\* The g is in the tables before the w, and on its way there before the w.
Before(g, w) ==
  /\ w \in flows => g \in flows
  /\ greeted => g \in flows \/ Leads(g, w, queue)

LocalInv ==
  /\ \A i \in 1..Len(queue) : Shaped(queue[i])
  /\ \A f \in flows : Shaped(f)
  /\ Before(NarrowIP, WideIP) /\ Before(NarrowARP, WideARP)

LEMMA LeadsConcatenated ==
  ASSUME NEW g, NEW w, NEW S, NEW s \in Seq(S), NEW t \in Seq(S),
         Leads(g, w, s), Leads(g, w, t)
  PROVE  Leads(g, w, s \o t)
<1> SUFFICES ASSUME NEW i \in 1..Len(s \o t), (s \o t)[i] = w
             PROVE  \E j \in 1..(i - 1) : (s \o t)[j] = g
  BY DEF Leads
<1>1. CASE i <= Len(s)
  <2>1. s[i] = w
    BY <1>1
  <2>2. PICK j \in 1..(i - 1) : s[j] = g
    BY <1>1, <2>1 DEF Leads
  <2> QED BY <1>1, <2>2
<1>2. CASE i > Len(s)
  <2> DEFINE k == i - Len(s)
  <2>1. k \in 1..Len(t) /\ t[k] = w
    BY <1>2
  <2>2. PICK j \in 1..(k - 1) : t[j] = g
    BY <2>1 DEF Leads
  <2>3. j + Len(s) \in 1..(i - 1) /\ (s \o t)[j + Len(s)] = g
    BY <1>2, <2>2
  <2> QED BY <2>3
<1> QED BY <1>1, <1>2

LEMMA ShapedConcatenated ==
  ASSUME NEW S, NEW s \in Seq(S), NEW t \in Seq(S),
         \A i \in 1..Len(s) : Shaped(s[i]), \A i \in 1..Len(t) : Shaped(t[i])
  PROVE  \A i \in 1..Len(s \o t) : Shaped((s \o t)[i])
<1> SUFFICES ASSUME NEW i \in 1..Len(s \o t) PROVE Shaped((s \o t)[i])
  OBVIOUS
<1>1. CASE i <= Len(s)
  BY <1>1
<1>2. CASE i > Len(s)
  <2>1. i - Len(s) \in 1..Len(t) /\ (s \o t)[i] = t[i - Len(s)]
    BY <1>2
  <2> QED BY <2>1
<1> QED BY <1>1, <1>2

LEMMA GoodConcatenated ==
  ASSUME NEW S, NEW s \in Seq(S), NEW t \in Seq(S), Good(s), Good(t)
  PROVE  Good(s \o t)
BY LeadsConcatenated, ShapedConcatenated DEF Good

\* A flow of another table, or to the host, or that of the first table to the
\* ARP table, is neither narrow nor wide.
LEMMA OtherShaped ==
  ASSUME NEW t, NEW p, NEW m, NEW a,
         \/ t \in {Overlay, L3Forwarding}
         \/ t \in {Classification, LocalARP} /\ p \notin {100, 300} /\ a = Output(Host)
         \/ t = Classification /\ p = 200 /\ a = GotoTable(LocalARP)
  PROVE  Shaped(Flow(t, p, m, a)) /\ Flow(t, p, m, a) \notin {WideIP, WideARP}
<1>1. /\ Output(Host).out = Host /\ GotoTable(LocalARP).out = None
      /\ GotoTable(LocalARP).goto = LocalARP /\ GotoTable(Overlay).goto = Overlay
      /\ GotoTable(Overlay).out = None /\ Host # None
  BY OutTyped DEF Output, GotoTable
<1>2. WideIP.act = GotoTable(Overlay) /\ WideARP.act = GotoTable(Overlay)
      /\ WideIP.table = Classification /\ WideARP.table = LocalARP
  BY DEF WideIP, WideARP, Flow
<1>3. Flow(t, p, m, a).table = t /\ Flow(t, p, m, a).prio = p /\ Flow(t, p, m, a).act = a
  BY DEF Flow
<1>4. CASE t \in {Overlay, L3Forwarding}
  BY <1>2, <1>3, <1>4
     DEF Shaped, Overlay, L3Forwarding, Classification, LocalARP, L2Rewrites
<1>5. CASE t \in {Classification, LocalARP} /\ p \notin {100, 300} /\ a = Output(Host)
  BY <1>1, <1>2, <1>3, <1>5 DEF Shaped, Classification, LocalARP, L2Rewrites
<1>6. CASE t = Classification /\ p = 200 /\ a = GotoTable(LocalARP)
  BY <1>1, <1>2, <1>3, <1>6 DEF Shaped, Classification, LocalARP, L2Rewrites, Overlay
<1> QED BY <1>4, <1>5, <1>6

LEMMA RangesShaped ==
  /\ Shaped(NarrowIP) /\ Shaped(WideIP) /\ Shaped(NarrowARP) /\ Shaped(WideARP)
  /\ NarrowIP \notin {WideIP, WideARP} /\ NarrowARP \notin {WideIP, WideARP}
  /\ WideIP # WideARP
<1>1. /\ NarrowIP.table = Classification /\ NarrowIP.prio = 300
      /\ NarrowIP.act = GotoTable(L2Rewrites)
      /\ WideIP.table = Classification /\ WideIP.prio = 100
      /\ NarrowARP.table = LocalARP /\ NarrowARP.prio = 100
      /\ NarrowARP.act = GotoTable(L2Rewrites)
      /\ WideARP.table = LocalARP /\ WideARP.prio = 50
  BY DEF NarrowIP, WideIP, NarrowARP, WideARP, Flow
<1>2. GotoTable(L2Rewrites).out = None /\ GotoTable(L2Rewrites).goto = L2Rewrites
  BY DEF GotoTable
<1> QED BY <1>1, <1>2 DEF Shaped, Classification, LocalARP, L2Rewrites

LEMMA GoodShort ==
  ASSUME NEW f, NEW g, Shaped(f), Shaped(g), f \notin {WideIP, WideARP}, g \notin {WideIP, WideARP}
  PROVE  Good(<<f>>) /\ Good(<<f, g>>)
BY DEF Good, Leads

LEMMA DefaultFlowsGood == Good(AddDefaultFlows)
<1> DEFINE a == Flow(Classification, 0, Match("any", ClusterCIDR \cup {Outside}, Any), Output(Host))
           b == Flow(Classification, 500, Match("ip", {GatewayIP}, Any), Output(Host))
           c == Flow(LocalARP, 500, Match("arp", {GatewayIP}, Any), Output(Host))
           d == Flow(Classification, 200, Match("arp", ClusterCIDR \cup {Outside}, Any),
                     GotoTable(LocalARP))
           S == {a, b, c, d, NarrowARP, WideARP}
<1>1. /\ Shaped(a) /\ Shaped(b) /\ Shaped(c) /\ Shaped(d)
      /\ a \notin {WideIP, WideARP} /\ b \notin {WideIP, WideARP}
      /\ c \notin {WideIP, WideARP} /\ d \notin {WideIP, WideARP}
  BY OtherShaped
<1>2. AddDefaultFlows = <<a>> \o <<b, c>> \o <<d, NarrowARP, WideARP>>
  BY DEF AddDefaultFlows, AddDataLinkFlowForGateway, DefaultARPFlows, NarrowARP, WideARP
<1> HIDE DEF a, b, c, d
<1>3. Good(<<a>>) /\ Good(<<b, c>>)
  BY <1>1, GoodShort
<1>4. Good(<<d, NarrowARP, WideARP>>)
  <2> DEFINE s == <<d, NarrowARP, WideARP>>
  <2>1. Len(s) = 3 /\ s[1] = d /\ s[2] = NarrowARP /\ s[3] = WideARP
    OBVIOUS
  <2> HIDE DEF s
  <2> QED BY <1>1, <2>1, RangesShaped DEF Good, Leads, s
<1>5. <<a>> \in Seq(S) /\ <<b, c>> \in Seq(S) /\ <<d, NarrowARP, WideARP>> \in Seq(S)
  BY ShortSeq
<1> HIDE DEF S
<1>6. Good(<<a>> \o <<b, c>>) /\ <<a>> \o <<b, c>> \in Seq(S)
  BY <1>3, <1>5, GoodConcatenated, Concatenated
<1> QED BY <1>2, <1>4, <1>5, <1>6, GoodConcatenated

LEMMA ConfigFlowsGood ==
  ASSUME NEW c
  PROVE  Good(FlowsForVSwitch(c)) /\ \A proto : Shaped(TunnelDstFlow(c, proto))
<1>1. \A proto :
        /\ Shaped(TunnelDstFlow(c, proto))
        /\ Shaped(OverlayFlow(c, proto)) /\ OverlayFlow(c, proto) \notin {WideIP, WideARP}
        /\ Shaped(LocalFlow(c, proto)) /\ LocalFlow(c, proto) \notin {WideIP, WideARP}
  BY OtherShaped DEF TunnelDstFlow, OverlayFlow, LocalFlow
<1> DEFINE o == << OverlayFlow(c, "ip"), OverlayFlow(c, "arp") >>
           l == << LocalFlow(c, "ip"), LocalFlow(c, "arp") >>
           n == << NarrowIP, WideIP >>
           S == {OverlayFlow(c, "ip"), OverlayFlow(c, "arp"), LocalFlow(c, "ip"),
                 LocalFlow(c, "arp"), NarrowIP, WideIP}
<1>2. Good(o) /\ Good(l)
  BY <1>1, GoodShort
<1>3. Good(n)
  <2>1. Len(n) = 2 /\ n[1] = NarrowIP /\ n[2] = WideIP
    OBVIOUS
  <2> HIDE DEF n
  <2> QED BY <2>1, RangesShaped DEF Good, Leads, n
<1>4. o \in Seq(S) /\ l \in Seq(S) /\ n \in Seq(S)
  BY ShortSeq
<1>5. FlowsForVSwitch(c) = n \o o \/ FlowsForVSwitch(c) = n \o l
  BY DEF FlowsForVSwitch, ClassificationFlows, NarrowIP, WideIP
<1> HIDE DEF o, l, n, S
<1>6. Good(n \o o) /\ Good(n \o l)
  BY <1>2, <1>3, <1>4, GoodConcatenated
<1> QED BY <1>1, <1>5, <1>6

\* A narrow flow stays where it is, and no flow turns wide.
LEMMA FlowAdded ==
  ASSUME NEW f, Shaped(f), \A g \in flows : Shaped(g), flows' = Installed(flows, f)
  PROVE  /\ \A g \in flows' : Shaped(g)
         /\ f \in flows' /\ \A g \in flows' : g = f \/ g \in flows
         /\ NarrowIP \in flows => NarrowIP \in flows'
         /\ NarrowARP \in flows => NarrowARP \in flows'
<1>1. SameKey(f, NarrowIP) => f = NarrowIP
  BY DEF SameKey, Shaped, NarrowIP, Flow
<1>2. SameKey(f, NarrowARP) => f = NarrowARP
  BY DEF SameKey, Shaped, NarrowARP, Flow
<1> QED BY <1>1, <1>2 DEF Installed

\* What is appended to the queue is Good, and no wide flow shows up in the tables.
LEMMA LocalKept ==
  ASSUME LocalInv, queue \in Seq(FlowType),
         NEW t \in Seq(FlowType), Good(t), queue' \in {queue, t, queue \o t},
         greeted' => greeted \/ queue' = t,
         \A f \in flows' : Shaped(f) /\ (f \in flows \/ f \notin {WideIP, WideARP}),
         NarrowIP \in flows => NarrowIP \in flows',
         NarrowARP \in flows => NarrowARP \in flows'
  PROVE  LocalInv'
<1>1. \A i \in 1..Len(queue') : Shaped(queue'[i])
  <2>1. \A i \in 1..Len(queue \o t) : Shaped((queue \o t)[i])
    BY ShapedConcatenated DEF LocalInv, Good
  <2> QED BY <2>1 DEF LocalInv, Good
<1>2. Before(NarrowIP, WideIP)'
  <2>1. Leads(NarrowIP, WideIP, queue) => Leads(NarrowIP, WideIP, queue')
    BY LeadsConcatenated DEF Good
  <2> QED BY <2>1 DEF LocalInv, Before, Good
<1>3. Before(NarrowARP, WideARP)'
  <2>1. Leads(NarrowARP, WideARP, queue) => Leads(NarrowARP, WideARP, queue')
    BY LeadsConcatenated DEF Good
  <2> QED BY <2>1 DEF LocalInv, Before, Good
<1> QED BY <1>1, <1>2, <1>3 DEF LocalInv

\* The head of the queue goes into the tables.
LEMMA BeforeApplied ==
  ASSUME NEW g, NEW w, Before(g, w), queue \in Seq(FlowType), queue # <<>>,
         queue' = Tail(queue), Head(queue) \in flows',
         \A f \in flows' : f = Head(queue) \/ f \in flows,
         g \in flows => g \in flows', greeted, greeted' = greeted
  PROVE  Before(g, w)'
<1>1. CASE g \in flows'
  BY <1>1 DEF Before
<1>2. CASE g \notin flows'
  <2>1. w \notin flows /\ Leads(g, w, queue) /\ Head(queue) # g
    BY <1>2 DEF Before
  <2>2. Head(queue) = queue[1] /\ 1 \in 1..Len(queue) /\ 1..(1 - 1) = {}
    OBVIOUS
  <2>3. Head(queue) # w
    BY <2>1, <2>2 DEF Leads
  <2>4. Leads(g, w, queue')
    <3> SUFFICES ASSUME NEW i \in 1..Len(queue'), queue'[i] = w
                 PROVE  \E j \in 1..(i - 1) : queue'[j] = g
      BY DEF Leads
    <3>1. i + 1 \in 1..Len(queue) /\ queue[i + 1] = w
      OBVIOUS
    <3>2. PICK j \in 1..(i + 1 - 1) : queue[j] = g
      BY <2>1, <3>1 DEF Leads
    <3>3. j # 1
      BY <2>1, <2>2, <3>2
    <3>4. j - 1 \in 1..(i - 1) /\ queue'[j - 1] = g
      BY <3>2, <3>3
    <3> QED BY <3>4
  <2>5. w \notin flows'
    BY <2>1, <2>3
  <2> QED BY <2>4, <2>5 DEF Before
<1> QED BY <1>1, <1>2

LEMMA LocalApplied ==
  ASSUME IndInv, LocalInv, ApplyFlow PROVE LocalInv'
<1>1. queue \in Seq(FlowType) /\ queue # <<>> /\ queue' = Tail(queue) /\ greeted' = greeted
  BY DEF ApplyFlow, IndInv, TypeOK
<1>2. Shaped(Head(queue)) /\ \A i \in 1..Len(queue') : Shaped(queue'[i])
  <2>1. Head(queue) = queue[1] /\ 1 \in 1..Len(queue)
    BY <1>1
  <2>2. ASSUME NEW i \in 1..Len(queue') PROVE Shaped(queue'[i])
    <3>1. i + 1 \in 1..Len(queue) /\ queue'[i] = queue[i + 1]
      BY <1>1, <2>2
    <3> QED BY <3>1 DEF LocalInv
  <2> QED BY <2>1, <2>2 DEF LocalInv
<1>3. CASE ~greeted
  BY <1>1, <1>2, <1>3 DEF ApplyFlow, LocalInv, Before
<1>4. CASE greeted
  <2>1. PICK f : f = Head(queue)
    OBVIOUS
  <2>2. flows' = Installed(flows, f) /\ Shaped(f) /\ \A g \in flows : Shaped(g)
    BY <1>2, <1>4, <2>1 DEF ApplyFlow, LocalInv
  <2>3. /\ \A g \in flows' : Shaped(g)
        /\ f \in flows' /\ \A g \in flows' : g = f \/ g \in flows
        /\ NarrowIP \in flows => NarrowIP \in flows'
        /\ NarrowARP \in flows => NarrowARP \in flows'
    BY <2>2, FlowAdded
  <2>4. Before(NarrowIP, WideIP)'
    BY <1>1, <1>4, <2>1, <2>3, BeforeApplied DEF LocalInv
  <2>5. Before(NarrowARP, WideARP)'
    BY <1>1, <1>4, <2>1, <2>3, BeforeApplied DEF LocalInv
  <2> QED BY <1>2, <2>3, <2>4, <2>5 DEF LocalInv
<1> QED BY <1>3, <1>4

LEMMA LocalInit == Init => LocalInv
BY DEF Init, LocalInv, Before, Leads

LEMMA LocalNext == IndInv /\ LocalInv /\ [Next]_vars => LocalInv'
<1> SUFFICES ASSUME IndInv, LocalInv, [Next]_vars PROVE LocalInv'
  OBVIOUS
<1>0. /\ queue \in Seq(FlowType) /\ \A f \in flows : Shaped(f)
      /\ <<>> \in Seq(FlowType) /\ Good(<<>>)
  BY DEF IndInv, TypeOK, LocalInv, Good, Leads
<1>1. CASE UNCHANGED <<queue, flows>> /\ (greeted' => greeted)
  <2>1. queue' \in {queue, <<>>, queue \o <<>>}
    BY <1>1
  <2> QED BY <1>0, <1>1, <2>1, LocalKept
<1>2. CASE Start
  <2>1. AddDefaultFlows \in Seq(FlowType)
    BY DefaultFlowsTyped, SeqMonotone DEF Harmless, Plain
  <2>2. queue' = AddDefaultFlows /\ flows' = flows
    BY <1>2 DEF Start, switch
  <2> QED BY <1>0, <2>1, <2>2, DefaultFlowsGood, LocalKept
<1>3. CASE OnVSwitch
  <2>1. PICK c : c = Head(ofQ)
    OBVIOUS
  <2>2. c \in Config
    BY <1>3, <2>1 DEF OnVSwitch, IndInv, TypeOK
  <2>3. queue' \in {queue, queue \o FlowsForVSwitch(c)} /\ UNCHANGED <<flows, greeted>>
    BY <1>3, <2>1 DEF OnVSwitch, switch
  <2>4. FlowsForVSwitch(c) \in Seq(FlowType)
    BY <2>2, VSwitchFlowsTyped
  <2> QED BY <1>0, <2>3, <2>4, ConfigFlowsGood, LocalKept
<1>4. CASE AddTunnelDstFlows
  <2>1. PICK c, p : c = ofc.cfg /\ p = ofc.pc
    OBVIOUS
  <2>2. c \in Config /\ greeted' = greeted
    BY <1>4, <2>1 DEF AddTunnelDstFlows, IndInv, TypeOK
  <2>3. queue' \in {queue, queue \o FlowsForVSwitch(c)}
    BY <1>4, <2>1 DEF AddTunnelDstFlows
  <2>4. FlowsForVSwitch(c) \in Seq(FlowType)
    BY <2>2, VSwitchFlowsTyped
  <2>5. flows' = Installed(flows, TunnelDstFlow(c, p))
    BY <1>4, <2>1 DEF AddTunnelDstFlows
  <2>6. Shaped(TunnelDstFlow(c, p)) /\ TunnelDstFlow(c, p) \notin {WideIP, WideARP}
    BY OtherShaped DEF TunnelDstFlow
  <2>7. /\ \A f \in flows' : Shaped(f) /\ (f \in flows \/ f \notin {WideIP, WideARP})
        /\ NarrowIP \in flows => NarrowIP \in flows'
        /\ NarrowARP \in flows => NarrowARP \in flows'
    BY <1>0, <2>5, <2>6, FlowAdded
  <2> QED BY <1>0, <2>2, <2>3, <2>4, <2>7, ConfigFlowsGood, LocalKept
<1>5. CASE ApplyFlow
  BY <1>5, LocalApplied
<1>6. CASE Crash
  <2>1. queue' = <<>> /\ flows' = flows
    BY <1>6 DEF Crash, switch
  <2> QED BY <1>0, <2>1, LocalKept
<1>7. CASE RestartSwitch
  BY <1>7 DEF RestartSwitch, LocalInv, Before
<1>8. CASE Resync \/ AddVxLANPort \/ Fault \/ LoseConnection \/ UNCHANGED vars
  BY <1>1, <1>8 DEF Resync, AddVxLANPort, Fault, LoseConnection, vars, switch
<1>9. CASE \/ \E c \in ConfigInputs : WriteConfig(c)
           \/ \E n \in Nodes : DeleteConfig(n)
  BY <1>1, <1>9 DEF WriteConfig, DeleteConfig, Change, switch
<1> QED BY <1>2, <1>3, <1>4, <1>5, <1>6, <1>7, <1>8, <1>9 DEF Next, Agent, Environment

LEMMA LocalInductive == Spec => [](IndInv /\ LocalInv)
<1>1. Init => IndInv /\ LocalInv
  BY InitInv, LocalInit
<1>2. IndInv /\ LocalInv /\ [Next]_vars => IndInv' /\ LocalInv'
  BY NextInv, LocalNext
<1> QED BY <1>1, <1>2, PTL DEF Spec

\* a packet that has not come near the tunnels
Local(h) ==
  /\ h \in HopType
  /\ \/ h.out \in {Host, Drop}
     \/ h.out = None /\ h.table \in {Classification, LocalARP, L2Rewrites}

LEMMA HopLocal ==
  ASSUME IndInv, LocalInv, NEW pkt \in PacketType, pkt.dst \in PodCIDR,
         NEW h, Local(h)
  PROVE  Local(Hop(flows, pkt, h))
<1>0. h \in HopType /\ Hop(flows, pkt, h) \in HopType
  <2>1. Accounted(pkt, h)
    BY OutTyped DEF Local, Accounted
  <2> QED BY <2>1, HopAccounted DEF Local
<1>1. CASE h.out # None
  BY <1>1 DEF Hop
<1>2. CASE h.out = None /\ Matching(flows, pkt, h) = {}
  <2>1. Hop(flows, pkt, h) = [h EXCEPT !.out = Drop]
    BY <1>2 DEF Hop, Drop
  <2>2. Hop(flows, pkt, h).out = Drop
    BY <1>0, <2>1 DEF HopType
  <2> QED BY <1>0, <2>2 DEF Local
<1>3. CASE h.out = None /\ Matching(flows, pkt, h) # {}
  <2>1. Matching(flows, pkt, h) \subseteq FlowType
    BY DEF Matching, IndInv, TypeOK
  <2>2. PICK f \in Matching(flows, pkt, h) : /\ f = Best(Matching(flows, pkt, h))
                                     /\ \A g \in Matching(flows, pkt, h) : g.prio <= f.prio
    BY <1>3, <2>1, BestExists
  <2>3. Hop(flows, pkt, h).table = f.act.goto /\ Hop(flows, pkt, h).out = f.act.out
    BY <1>3, <2>2 DEF Hop
  <2>4. f \in flows /\ Shaped(f) /\ f.table = h.table
    BY DEF Matching, LocalInv
  <2>5. h.table \in {Classification, LocalARP}
    BY <1>3, <2>4, OutTyped DEF Local, Shaped
  <2>6. f # WideIP
    <3> SUFFICES ASSUME f = WideIP PROVE FALSE
      OBVIOUS
    <3>1. /\ WideIP.table = Classification /\ WideIP.prio = 100 /\ WideIP.match.proto = "ip"
          /\ NarrowIP.table = Classification /\ NarrowIP.prio = 300
          /\ NarrowIP.match.proto = "ip" /\ NarrowIP.match.dst = PodCIDR
          /\ NarrowIP.match.tun = Any
      BY DEF WideIP, NarrowIP, Flow, Match
    <3>2. NarrowIP \in flows
      BY <2>4 DEF LocalInv, Before
    <3>3. pkt.proto = "ip"
      BY <3>1 DEF Matching, PacketType
    <3>4. NarrowIP \in Matching(flows, pkt, h)
      BY <2>4, <3>1, <3>2, <3>3 DEF Matching
    <3> QED BY <2>2, <3>1, <3>4
  <2>7. f # WideARP
    <3> SUFFICES ASSUME f = WideARP PROVE FALSE
      OBVIOUS
    <3>1. /\ WideARP.table = LocalARP /\ WideARP.prio = 50 /\ WideARP.match.proto = "arp"
          /\ NarrowARP.table = LocalARP /\ NarrowARP.prio = 100
          /\ NarrowARP.match.proto = "arp" /\ NarrowARP.match.dst = PodCIDR
          /\ NarrowARP.match.tun = Any
      BY DEF WideARP, NarrowARP, Flow, Match
    <3>2. NarrowARP \in flows
      BY <2>4 DEF LocalInv, Before
    <3>3. pkt.proto = "arp"
      BY <3>1 DEF Matching, PacketType
    <3>4. NarrowARP \in Matching(flows, pkt, h)
      BY <2>4, <3>1, <3>2, <3>3 DEF Matching
    <3> QED BY <2>2, <3>1, <3>4
  <2>8. \/ f.act.out = Host
        \/ f.act.out = None /\ f.act.goto \in {LocalARP, L2Rewrites}
    BY <2>4, <2>5, <2>6, <2>7 DEF Shaped
  <2> QED BY <1>0, <2>3, <2>8 DEF Local
<1> QED BY <1>1, <1>2, <1>3

\* A packet for this node's range is never sent into a tunnel: the flow of the
\* narrow range is in the tables before that of the wide one leads anywhere.
THEOREM LocalPacketsStay == Spec => []LocalStaysLocal
<1>1. IndInv /\ LocalInv => LocalStaysLocal
  <2> SUFFICES ASSUME IndInv, LocalInv, NEW proto \in {"ip", "arp"}, NEW a \in PodCIDR,
                      NEW id \in TunnelIDs \cup {0}
               PROVE  Route(flows, Packet(proto, a, id)).out[1] # "vxlan"
    BY DEF LocalStaysLocal
  <2>1. PICK pkt \in PacketType : pkt = Packet(proto, a, id) /\ pkt.dst \in PodCIDR
    <3>1. a \in ClusterCIDR
      BY FlowAssumption
    <3>2. Packet(proto, a, id) \in PacketType /\ Packet(proto, a, id).dst = a
      BY <3>1 DEF Packet, PacketType
    <3> QED BY <3>2
  <2> DEFINE h0 == [table |-> Classification, tun |-> pkt.tun, out |-> None]
             h1 == Hop(flows, pkt, h0)
             h2 == Hop(flows, pkt, h1)
             h3 == Hop(flows, pkt, h2)
             h4 == Hop(flows, pkt, h3)
  <2>2. Local(h0)
    BY DEF Local, HopType, PacketType, Tables
  <2> HIDE DEF h0
  <2>3. Local(h1)
    BY <2>1, <2>2, HopLocal
  <2> HIDE DEF h1
  <2>4. Local(h2)
    BY <2>1, <2>3, HopLocal
  <2> HIDE DEF h2
  <2>5. Local(h3)
    BY <2>1, <2>4, HopLocal
  <2> HIDE DEF h3
  <2>6. Local(h4)
    BY <2>1, <2>5, HopLocal
  <2> HIDE DEF h4
  <2>7. Local(Hop(flows, pkt, h4))
    BY <2>1, <2>6, HopLocal
  <2>8. Hop(flows, pkt, h4).out[1] # "vxlan"
    BY <2>7, OutTyped DEF Local
  <2> QED BY <2>1, <2>8 DEF Route, h0, h1, h2, h3, h4
<1> QED BY <1>1, LocalInductive, PTL

-----------------------------------------------------------------------------
(* Uninterrupted traffic: the tables hold eight flows that are only ever    *)
(* replaced by themselves, flows into tunnels and destinations.  A packet   *)
(* is delivered if and only if the flows it Needs are there.                *)

DefaultFlow ==
  Flow(Classification, 0, Match("any", ClusterCIDR \cup {Outside}, Any), Output(Host))
GatewayFlow == Flow(Classification, 500, Match("ip", {GatewayIP}, Any), Output(Host))
GatewayARP  == Flow(LocalARP, 500, Match("arp", {GatewayIP}, Any), Output(Host))
ToARP ==
  Flow(Classification, 200, Match("arp", ClusterCIDR \cup {Outside}, Any), GotoTable(LocalARP))

Fixed ==
  {DefaultFlow, GatewayFlow, GatewayARP, ToARP, NarrowIP, WideIP, NarrowARP, WideARP}

IntoTunnel(f) ==
  /\ f.table = Overlay /\ f.prio = 100 /\ f.match.tun = Any
  /\ f.act.goto = L3Forwarding /\ f.act.out = None /\ f.act.tun # Any

OutOfL3(f) ==
  /\ f.table = L3Forwarding
  /\ \/ f.prio = 150 /\ f.act.out[1] = "vxlan"
     \/ f.prio = 100 /\ f.act.out = None

ExactFlows == {f \in FlowType : f \in Fixed \/ IntoTunnel(f) \/ OutOfL3(f)}

ExactInv == queue \in Seq(ExactFlows) /\ flows \subseteq ExactFlows

LEMMA FixedFields ==
  /\ /\ DefaultFlow.table = Classification /\ DefaultFlow.prio = 0
     /\ DefaultFlow.act.out = Host /\ DefaultFlow.act.goto = Any
  /\ /\ GatewayFlow.table = Classification /\ GatewayFlow.prio = 500
     /\ GatewayFlow.match.dst = {GatewayIP}
  /\ /\ GatewayARP.table = LocalARP /\ GatewayARP.prio = 500
     /\ GatewayARP.match.dst = {GatewayIP}
  /\ /\ ToARP.table = Classification /\ ToARP.prio = 200
     /\ ToARP.match.proto = "arp" /\ ToARP.match.dst = ClusterCIDR \cup {Outside}
     /\ ToARP.match.tun = Any /\ ToARP.act.out = None /\ ToARP.act.goto = LocalARP
  /\ /\ NarrowIP.table = Classification /\ NarrowIP.prio = 300
     /\ NarrowIP.match.proto = "ip" /\ NarrowIP.match.dst = PodCIDR
     /\ NarrowIP.match.tun = Any /\ NarrowIP.act.out = None /\ NarrowIP.act.goto = L2Rewrites
  /\ /\ WideIP.table = Classification /\ WideIP.prio = 100
     /\ WideIP.match.proto = "ip" /\ WideIP.match.dst = ClusterCIDR
     /\ WideIP.match.tun = Any /\ WideIP.act.out = None /\ WideIP.act.goto = Overlay
  /\ /\ NarrowARP.table = LocalARP /\ NarrowARP.prio = 100
     /\ NarrowARP.match.proto = "arp" /\ NarrowARP.match.dst = PodCIDR
     /\ NarrowARP.match.tun = Any /\ NarrowARP.act.out = None /\ NarrowARP.act.goto = L2Rewrites
  /\ /\ WideARP.table = LocalARP /\ WideARP.prio = 50
     /\ WideARP.match.proto = "arp" /\ WideARP.match.dst = ClusterCIDR
     /\ WideARP.match.tun = Any /\ WideARP.act.out = None /\ WideARP.act.goto = Overlay
<1>1. /\ Output(Host).out = Host /\ Output(Host).goto = Any
      /\ \A t : GotoTable(t).out = None /\ GotoTable(t).goto = t
  BY DEF Output, GotoTable
<1>2. \A t, p, m, a : /\ Flow(t, p, m, a).table = t /\ Flow(t, p, m, a).prio = p
                      /\ Flow(t, p, m, a).match = m /\ Flow(t, p, m, a).act = a
  BY DEF Flow
<1>3. \A q, d, t : /\ Match(q, d, t).proto = q /\ Match(q, d, t).dst = d
                   /\ Match(q, d, t).tun = t
  BY DEF Match
<1> QED
  BY <1>1, <1>2, <1>3 DEF DefaultFlow, GatewayFlow, GatewayARP, ToARP, NarrowIP, WideIP,
    NarrowARP, WideARP

LEMMA FixedExact ==
  /\ DefaultFlow \in ExactFlows /\ GatewayFlow \in ExactFlows /\ GatewayARP \in ExactFlows
  /\ ToARP \in ExactFlows /\ NarrowIP \in ExactFlows /\ WideIP \in ExactFlows
  /\ NarrowARP \in ExactFlows /\ WideARP \in ExactFlows
<1>0. /\ Classification \in Tables /\ LocalARP \in Tables
      /\ {0, 50, 100, 200, 300, 500} \subseteq Priorities
  BY DEF Tables, Priorities
<1>1. /\ \A q \in {"any", "ip", "arp"} :
           /\ Match(q, ClusterCIDR \cup {Outside}, Any) \in MatchType
           /\ Match(q, ClusterCIDR, Any) \in MatchType
           /\ Match(q, PodCIDR, Any) \in MatchType
           /\ Match(q, {GatewayIP}, Any) \in MatchType
  BY FlowAssumption, MatchTyped
<1>2. DefaultFlow \in FlowType /\ GatewayFlow \in FlowType /\ GatewayARP \in FlowType
  BY <1>0, <1>1, FlowTyped, ActionTyped DEF DefaultFlow, GatewayFlow, GatewayARP
<1>3. ToARP \in FlowType /\ NarrowIP \in FlowType /\ WideIP \in FlowType
  BY <1>0, <1>1, FlowTyped, ActionTyped DEF ToARP, NarrowIP, WideIP
<1>4. NarrowARP \in FlowType /\ WideARP \in FlowType
  BY <1>0, <1>1, FlowTyped, ActionTyped DEF NarrowARP, WideARP
<1> QED BY <1>2, <1>3, <1>4 DEF ExactFlows, Fixed

\* What goes through the channel, and what ovs-ofctl adds, is of these kinds.
LEMMA DefaultFlowsExact == AddDefaultFlows \in Seq(ExactFlows)
<1>1. AddDefaultFlows = <<DefaultFlow>> \o <<GatewayFlow, GatewayARP>>
                          \o <<ToARP, NarrowARP, WideARP>>
  BY DEF AddDefaultFlows, AddDataLinkFlowForGateway, DefaultARPFlows, DefaultFlow,
         GatewayFlow, GatewayARP, ToARP, NarrowARP, WideARP
<1>2. /\ <<DefaultFlow>> \in Seq(ExactFlows) /\ <<GatewayFlow, GatewayARP>> \in Seq(ExactFlows)
      /\ <<ToARP, NarrowARP, WideARP>> \in Seq(ExactFlows)
  BY FixedExact, ShortSeq
<1> QED BY <1>1, <1>2, Concatenated

LEMMA ConfigFlowsExact ==
  ASSUME NEW c \in Config
  PROVE  /\ FlowsForVSwitch(c) \in Seq(ExactFlows)
         /\ \A proto \in {"ip", "arp"} : TunnelDstFlow(c, proto) \in ExactFlows
<1>1. ASSUME NEW proto \in {"ip", "arp"}
      PROVE  /\ TunnelDstFlow(c, proto) \in ExactFlows
             /\ OverlayFlow(c, proto) \in ExactFlows
             /\ LocalFlow(c, proto) \in ExactFlows
  <2>0. L3Forwarding \in Tables /\ 100 \in Priorities /\ L2Rewrites \in Tables
    BY DEF Tables, Priorities
  <2>1. TunnelDstFlow(c, proto) \in FlowType /\ OverlayFlow(c, proto) \in FlowType
    BY ConfigFlowsTyped DEF Plain
  <2>2. LocalFlow(c, proto) \in FlowType
    <3>1. Match(proto, c.cidr, c.tunnelID) \in MatchType
      BY ConfigFields, MatchTyped
    <3> QED BY <2>0, <3>1, FlowTyped, ActionTyped DEF LocalFlow
  <2>3. OutOfL3(TunnelDstFlow(c, proto))
    BY OutTyped DEF TunnelDstFlow, OutOfL3, Flow, Output
  <2>4. IntoTunnel(OverlayFlow(c, proto))
    BY ConfigFields DEF OverlayFlow, IntoTunnel, Flow, Match, SetTunnel
  <2>5. OutOfL3(LocalFlow(c, proto))
    BY DEF LocalFlow, OutOfL3, Flow, GotoTable
  <2> QED BY <2>1, <2>2, <2>3, <2>4, <2>5 DEF ExactFlows
<1>2. /\ <<NarrowIP, WideIP>> \in Seq(ExactFlows)
      /\ <<OverlayFlow(c, "ip"), OverlayFlow(c, "arp")>> \in Seq(ExactFlows)
      /\ <<LocalFlow(c, "ip"), LocalFlow(c, "arp")>> \in Seq(ExactFlows)
  BY <1>1, FixedExact, ShortSeq
<1>3. FlowsForVSwitch(c) \in Seq(ExactFlows)
  BY <1>2, Concatenated DEF FlowsForVSwitch, ClassificationFlows, NarrowIP, WideIP
<1> QED BY <1>1, <1>3

LEMMA ExactNext == IndInv /\ ExactInv /\ [Next]_vars => ExactInv'
<1> SUFFICES ASSUME IndInv, ExactInv, [Next]_vars PROVE ExactInv'
  OBVIOUS
<1>1. CASE UNCHANGED <<queue, flows>>
  BY <1>1 DEF ExactInv
<1>2. CASE Start
  BY <1>2, DefaultFlowsExact DEF Start, switch, ExactInv
<1>3. CASE OnVSwitch
  <2>1. Head(ofQ) \in Config
    BY <1>3 DEF OnVSwitch, IndInv, TypeOK
  <2>2. FlowsForVSwitch(Head(ofQ)) \in Seq(ExactFlows)
    BY <2>1, ConfigFlowsExact
  <2> QED BY <1>3, <2>2, Concatenated DEF OnVSwitch, switch, ExactInv
<1>4. CASE AddTunnelDstFlows
  <2>1. ofc.cfg \in Config /\ ofc.pc \in {"ip", "arp"}
    BY <1>4 DEF AddTunnelDstFlows, IndInv, TypeOK
  <2>2. /\ FlowsForVSwitch(ofc.cfg) \in Seq(ExactFlows)
        /\ TunnelDstFlow(ofc.cfg, ofc.pc) \in ExactFlows
    BY <2>1, ConfigFlowsExact
  <2>3. flows' \subseteq ExactFlows
    BY <1>4, <2>2 DEF AddTunnelDstFlows, Installed, ExactInv
  <2>4. queue' \in Seq(ExactFlows)
    BY <1>4, <2>2, Concatenated DEF AddTunnelDstFlows, ExactInv
  <2> QED BY <2>3, <2>4 DEF ExactInv
<1>5. CASE ApplyFlow
  <2>1. Head(queue) \in ExactFlows /\ Tail(queue) \in Seq(ExactFlows)
    BY <1>5 DEF ApplyFlow, ExactInv
  <2> QED BY <1>5, <2>1 DEF ApplyFlow, Installed, ExactInv
<1>6. CASE Crash
  <2>1. queue' = <<>> /\ flows' = flows
    BY <1>6 DEF Crash, switch
  <2> QED BY <2>1 DEF ExactInv
<1>7. CASE RestartSwitch
  BY <1>7 DEF RestartSwitch, ExactInv
<1>8. CASE Resync \/ AddVxLANPort \/ Fault \/ LoseConnection \/ UNCHANGED vars
  BY <1>1, <1>8 DEF Resync, AddVxLANPort, Fault, LoseConnection, vars, switch
<1>9. CASE \/ \E c \in ConfigInputs : WriteConfig(c)
           \/ \E n \in Nodes : DeleteConfig(n)
  BY <1>1, <1>9 DEF WriteConfig, DeleteConfig, Change, switch
<1> QED
  BY <1>2, <1>3, <1>4, <1>5, <1>6, <1>7, <1>8, <1>9 DEF Next, Agent, Environment

\* Some flow leads a packet into a tunnel.
Covered(fs, proto, a) ==
  \E f \in fs : f.table = Overlay /\ f.match.proto \in {"any", proto} /\ a \in f.match.dst

\* the flows a packet needs to be delivered
Needs(fs, proto, a) ==
  IF proto = "ip"
    THEN (a \in PodCIDR /\ NarrowIP \in fs) \/ (WideIP \in fs /\ Covered(fs, proto, a))
    ELSE /\ ToARP \in fs
         /\ ((a \in PodCIDR /\ NarrowARP \in fs) \/ (WideARP \in fs /\ Covered(fs, proto, a)))

\* A fixed flow is only replaced by itself, the flow into a tunnel by one for
\* the same packets.
LEMMA NeedsKept ==
  ASSUME flows \subseteq ExactFlows, NEW f \in ExactFlows, NEW proto, NEW a,
         Needs(flows, proto, a)
  PROVE  Needs(Installed(flows, f), proto, a)
<1>1. ASSUME NEW g \in Fixed, SameKey(f, g) PROVE f = g
  <2>1. g.table \in {Classification, LocalARP} /\ f.table = g.table /\ f.prio = g.prio
    BY <1>1, FixedFields DEF Fixed, SameKey
  <2>2. f \in Fixed
    BY <2>1 DEF ExactFlows, IntoTunnel, OutOfL3, Classification, LocalARP, Overlay, L3Forwarding
  <2> QED BY <1>1, <2>1, <2>2, FixedFields DEF Fixed, Classification, LocalARP
<1>2. \A g \in Fixed : g \in flows => g \in Installed(flows, f)
  BY <1>1 DEF Installed
<1>3. Covered(flows, proto, a) => Covered(Installed(flows, f), proto, a)
  BY DEF Covered, Installed, SameKey
<1> QED BY <1>2, <1>3 DEF Needs, Fixed

\* a lookup in one table
LEMMA HopTaken ==
  ASSUME NEW fs, fs \subseteq FlowType, NEW pkt, NEW h \in HopType, h.out = None
  PROVE  \/ /\ Matching(fs, pkt, h) = {}
            /\ Hop(fs, pkt, h).out = Drop /\ Hop(fs, pkt, h).table = h.table
            /\ Hop(fs, pkt, h) \in HopType
         \/ \E f \in Matching(fs, pkt, h) :
              /\ \A g \in Matching(fs, pkt, h) : g.prio <= f.prio
              /\ Hop(fs, pkt, h).table = f.act.goto /\ Hop(fs, pkt, h).out = f.act.out
              /\ f.act.tun # Any => Hop(fs, pkt, h).tun = f.act.tun
              /\ Hop(fs, pkt, h) \in HopType
<1>1. CASE Matching(fs, pkt, h) = {}
  <2>1. Hop(fs, pkt, h) = [h EXCEPT !.out = Drop]
    BY <1>1 DEF Hop, Drop
  <2> QED BY <1>1, <2>1 DEF HopType
<1>2. CASE Matching(fs, pkt, h) # {}
  <2>1. Matching(fs, pkt, h) \subseteq FlowType
    BY DEF Matching
  <2>2. PICK f \in Matching(fs, pkt, h) : /\ f = Best(Matching(fs, pkt, h))
                                         /\ \A g \in Matching(fs, pkt, h) : g.prio <= f.prio
    BY <1>2, <2>1, BestExists
  <2>3. Hop(fs, pkt, h) =
          [table |-> f.act.goto, tun |-> IF f.act.tun = Any THEN h.tun ELSE f.act.tun,
           out |-> f.act.out]
    BY <1>2, <2>2 DEF Hop
  <2>4. f.act \in ActionType
    BY <2>1 DEF FlowType
  <2>5. Hop(fs, pkt, h) \in HopType
    <3>1. f.act.goto \in Tables \cup {Any}
      BY <2>4 DEF ActionType, Tables
    <3>2. (IF f.act.tun = Any THEN h.tun ELSE f.act.tun) \in TunnelIDs \cup {0}
      BY <2>4 DEF ActionType, HopType
    <3>3. f.act.out \in {None, Host, Drop} \cup {Vxlan(ip) : ip \in OverlayIPs}
      BY <2>4 DEF ActionType
    <3> QED BY <2>3, <3>1, <3>2, <3>3 DEF HopType
  <2> QED BY <2>2, <2>3, <2>5
<1> QED BY <1>1, <1>2

\* the packets the claim is about
Ordinary == {pkt \in PacketType : pkt.dst # GatewayIP}

\* at a table, on the way
At(h, t) == h \in HopType /\ h.table = t /\ h.out = None

\* handed to the host or dropped before the pods' table
Astray(h) == h \in HopType /\ h.out \in {Host, Drop} /\ h.table # L2Rewrites

LEMMA AtClassificationIP ==
  ASSUME NEW fs, fs \subseteq ExactFlows, NEW pkt \in Ordinary, pkt.proto = "ip",
         NEW h, At(h, Classification)
  PROVE  IF pkt.dst \in PodCIDR /\ NarrowIP \in fs THEN At(Hop(fs, pkt, h), L2Rewrites)
         ELSE IF WideIP \in fs THEN At(Hop(fs, pkt, h), Overlay)
         ELSE Astray(Hop(fs, pkt, h))
<1>0. fs \subseteq FlowType /\ h \in HopType /\ h.out = None /\ h.table = Classification
  BY DEF ExactFlows, At
<1>1. ASSUME NEW f \in Matching(fs, pkt, h)
      PROVE  f \in {DefaultFlow, NarrowIP, WideIP}
  <2>1. /\ f \in ExactFlows /\ f.table = Classification
        /\ f.match.proto \in {"any", "ip"} /\ pkt.dst \in f.match.dst
    BY <1>0 DEF Matching
  <2>2. f \in Fixed
    BY <2>1 DEF ExactFlows, IntoTunnel, OutOfL3, Classification, Overlay, L3Forwarding
  <2> QED
    BY <2>1, <2>2, FixedFields DEF Fixed, Ordinary, Classification, LocalARP
<1>2. pkt.dst \in PodCIDR /\ NarrowIP \in fs => NarrowIP \in Matching(fs, pkt, h)
  BY <1>0, FixedFields DEF Matching
<1>3. WideIP \in fs => WideIP \in Matching(fs, pkt, h)
  BY <1>0, FixedFields DEF Matching, Ordinary, PacketType
<1>4. NarrowIP \in Matching(fs, pkt, h) => pkt.dst \in PodCIDR /\ NarrowIP \in fs
  BY FixedFields DEF Matching
<1>5. WideIP \in Matching(fs, pkt, h) => WideIP \in fs
  BY DEF Matching
<1>6. CASE Matching(fs, pkt, h) = {}
  <2>1. Astray(Hop(fs, pkt, h))
    BY <1>0, <1>6, HopTaken DEF Astray, Classification, L2Rewrites
  <2> QED BY <1>2, <1>3, <1>6, <2>1
<1>7. CASE Matching(fs, pkt, h) # {}
  <2>1. PICK f \in Matching(fs, pkt, h) :
              /\ \A g \in Matching(fs, pkt, h) : g.prio <= f.prio
              /\ Hop(fs, pkt, h).table = f.act.goto /\ Hop(fs, pkt, h).out = f.act.out
              /\ Hop(fs, pkt, h) \in HopType
    BY <1>0, <1>7, HopTaken
  <2>2. CASE f = NarrowIP
    BY <1>4, <2>1, <2>2, FixedFields DEF At
  <2>3. CASE f = WideIP
    <3>1. NarrowIP \notin Matching(fs, pkt, h)
      BY <2>1, <2>3, FixedFields
    <3> QED BY <1>2, <1>5, <2>1, <2>3, <3>1, FixedFields DEF At
  <2>4. CASE f = DefaultFlow
    <3>1. NarrowIP \notin Matching(fs, pkt, h) /\ WideIP \notin Matching(fs, pkt, h)
      BY <2>1, <2>4, FixedFields
    <3> QED BY <1>2, <1>3, <2>1, <2>4, <3>1, FixedFields DEF Astray, Any, L2Rewrites
  <2> QED BY <1>1, <2>2, <2>3, <2>4
<1> QED BY <1>6, <1>7

LEMMA AtClassificationARP ==
  ASSUME NEW fs, fs \subseteq ExactFlows, NEW pkt \in Ordinary, pkt.proto = "arp",
         NEW h, At(h, Classification)
  PROVE  IF ToARP \in fs THEN At(Hop(fs, pkt, h), LocalARP) ELSE Astray(Hop(fs, pkt, h))
<1>0. fs \subseteq FlowType /\ h \in HopType /\ h.out = None /\ h.table = Classification
  BY DEF ExactFlows, At
<1>1. ASSUME NEW f \in Matching(fs, pkt, h)
      PROVE  f \in {DefaultFlow, ToARP}
  <2>1. /\ f \in ExactFlows /\ f.table = Classification
        /\ f.match.proto \in {"any", "arp"} /\ pkt.dst \in f.match.dst
    BY <1>0 DEF Matching
  <2>2. f \in Fixed
    BY <2>1 DEF ExactFlows, IntoTunnel, OutOfL3, Classification, Overlay, L3Forwarding
  <2> QED
    BY <2>1, <2>2, FixedFields DEF Fixed, Ordinary, Classification, LocalARP
<1>2. ToARP \in fs <=> ToARP \in Matching(fs, pkt, h)
  BY <1>0, FixedFields DEF Matching, Ordinary, PacketType
<1>3. CASE Matching(fs, pkt, h) = {}
  <2>1. Astray(Hop(fs, pkt, h))
    BY <1>0, <1>3, HopTaken DEF Astray, Classification, L2Rewrites
  <2> QED BY <1>2, <1>3, <2>1
<1>4. CASE Matching(fs, pkt, h) # {}
  <2>1. PICK f \in Matching(fs, pkt, h) :
              /\ \A g \in Matching(fs, pkt, h) : g.prio <= f.prio
              /\ Hop(fs, pkt, h).table = f.act.goto /\ Hop(fs, pkt, h).out = f.act.out
              /\ Hop(fs, pkt, h) \in HopType
    BY <1>0, <1>4, HopTaken
  <2>2. CASE f = ToARP
    BY <1>2, <2>1, <2>2, FixedFields DEF At
  <2>3. CASE f = DefaultFlow
    <3>1. ToARP \notin Matching(fs, pkt, h)
      BY <2>1, <2>3, FixedFields
    <3> QED BY <1>2, <2>1, <2>3, <3>1, FixedFields DEF Astray, Any, L2Rewrites
  <2> QED BY <1>1, <2>2, <2>3
<1> QED BY <1>3, <1>4

LEMMA AtLocalARP ==
  ASSUME NEW fs, fs \subseteq ExactFlows, NEW pkt \in Ordinary, pkt.proto = "arp",
         NEW h, At(h, LocalARP)
  PROVE  IF pkt.dst \in PodCIDR /\ NarrowARP \in fs THEN At(Hop(fs, pkt, h), L2Rewrites)
         ELSE IF WideARP \in fs THEN At(Hop(fs, pkt, h), Overlay)
         ELSE Astray(Hop(fs, pkt, h))
<1>0. fs \subseteq FlowType /\ h \in HopType /\ h.out = None /\ h.table = LocalARP
  BY DEF ExactFlows, At
<1>1. ASSUME NEW f \in Matching(fs, pkt, h)
      PROVE  f \in {NarrowARP, WideARP}
  <2>1. f \in ExactFlows /\ f.table = LocalARP /\ pkt.dst \in f.match.dst
    BY <1>0 DEF Matching
  <2>2. f \in Fixed
    BY <2>1 DEF ExactFlows, IntoTunnel, OutOfL3, LocalARP, Overlay, L3Forwarding
  <2> QED
    BY <2>1, <2>2, FixedFields DEF Fixed, Ordinary, Classification, LocalARP
<1>2. pkt.dst \in PodCIDR /\ NarrowARP \in fs => NarrowARP \in Matching(fs, pkt, h)
  BY <1>0, FixedFields DEF Matching
<1>3. WideARP \in fs => WideARP \in Matching(fs, pkt, h)
  BY <1>0, FixedFields DEF Matching, Ordinary, PacketType
<1>4. NarrowARP \in Matching(fs, pkt, h) => pkt.dst \in PodCIDR /\ NarrowARP \in fs
  BY FixedFields DEF Matching
<1>5. WideARP \in Matching(fs, pkt, h) => WideARP \in fs
  BY DEF Matching
<1>6. CASE Matching(fs, pkt, h) = {}
  <2>1. Astray(Hop(fs, pkt, h))
    BY <1>0, <1>6, HopTaken DEF Astray, LocalARP, L2Rewrites
  <2> QED BY <1>2, <1>3, <1>6, <2>1
<1>7. CASE Matching(fs, pkt, h) # {}
  <2>1. PICK f \in Matching(fs, pkt, h) :
              /\ \A g \in Matching(fs, pkt, h) : g.prio <= f.prio
              /\ Hop(fs, pkt, h).table = f.act.goto /\ Hop(fs, pkt, h).out = f.act.out
              /\ Hop(fs, pkt, h) \in HopType
    BY <1>0, <1>7, HopTaken
  <2>2. CASE f = NarrowARP
    BY <1>4, <2>1, <2>2, FixedFields DEF At
  <2>3. CASE f = WideARP
    <3>1. NarrowARP \notin Matching(fs, pkt, h)
      BY <2>1, <2>3, FixedFields
    <3> QED BY <1>2, <1>5, <2>1, <2>3, <3>1, FixedFields DEF At
  <2> QED BY <1>1, <2>2, <2>3
<1> QED BY <1>6, <1>7

\* The flow a packet takes into a tunnel, and the tunnel ID it gets
TakesTunnel(fs, pkt, f, id) ==
  /\ f \in fs /\ f.table = Overlay /\ f.match.proto \in {"any", pkt.proto}
  /\ pkt.dst \in f.match.dst /\ f.act.tun = id

LEMMA AtOverlay ==
  ASSUME NEW fs, fs \subseteq ExactFlows, NEW pkt \in Ordinary, NEW h, At(h, Overlay)
  PROVE  IF Covered(fs, pkt.proto, pkt.dst)
           THEN /\ At(Hop(fs, pkt, h), L3Forwarding)
                /\ \E f : TakesTunnel(fs, pkt, f, Hop(fs, pkt, h).tun)
           ELSE Astray(Hop(fs, pkt, h))
<1>0. fs \subseteq FlowType /\ h \in HopType /\ h.out = None /\ h.table = Overlay
  BY DEF ExactFlows, At
<1>1. ASSUME NEW f \in fs, f.table = Overlay PROVE IntoTunnel(f)
  <2>1. f \notin Fixed
    BY <1>1, FixedFields DEF Fixed, Classification, LocalARP, Overlay
  <2> QED BY <1>1, <2>1 DEF ExactFlows, OutOfL3, Overlay, L3Forwarding
<1>2. Covered(fs, pkt.proto, pkt.dst) <=> Matching(fs, pkt, h) # {}
  <2>1. Matching(fs, pkt, h) =
          {f \in fs : /\ f.table = Overlay /\ f.match.proto \in {"any", pkt.proto}
                      /\ pkt.dst \in f.match.dst}
    BY <1>0, <1>1 DEF Matching, IntoTunnel
  <2> QED BY <2>1 DEF Covered
<1>3. CASE Matching(fs, pkt, h) = {}
  <2>1. Astray(Hop(fs, pkt, h))
    BY <1>0, <1>3, HopTaken DEF Astray, Overlay, L2Rewrites
  <2> QED BY <1>2, <1>3, <2>1
<1>4. CASE Matching(fs, pkt, h) # {}
  <2>1. PICK f \in Matching(fs, pkt, h) :
              /\ Hop(fs, pkt, h).table = f.act.goto /\ Hop(fs, pkt, h).out = f.act.out
              /\ f.act.tun # Any => Hop(fs, pkt, h).tun = f.act.tun
              /\ Hop(fs, pkt, h) \in HopType
    BY <1>0, <1>4, HopTaken
  <2>2. /\ f \in fs /\ f.table = Overlay /\ f.match.proto \in {"any", pkt.proto}
        /\ pkt.dst \in f.match.dst
    BY <1>0 DEF Matching
  <2>3. IntoTunnel(f)
    BY <1>1, <2>2
  <2>4. At(Hop(fs, pkt, h), L3Forwarding) /\ TakesTunnel(fs, pkt, f, Hop(fs, pkt, h).tun)
    BY <2>1, <2>2, <2>3 DEF At, TakesTunnel, IntoTunnel
  <2> QED BY <1>2, <1>4, <2>4
<1> QED BY <1>3, <1>4

\* The destination outranks the flow for packets that have arrived.
LEMMA AtL3Forwarding ==
  ASSUME NEW fs, fs \subseteq ExactFlows, NEW pkt \in Ordinary, NEW h, At(h, L3Forwarding),
         NEW f, TakesTunnel(fs, pkt, f, h.tun),
         NEW d \in fs, d.table = L3Forwarding, d.prio = 150,
         d.match = [f.match EXCEPT !.tun = f.act.tun]
  PROVE  Hop(fs, pkt, h).out[1] = "vxlan" /\ Hop(fs, pkt, h).out # None
<1>0. fs \subseteq FlowType /\ h \in HopType /\ h.out = None /\ h.table = L3Forwarding
  BY DEF ExactFlows, At
<1>1. f.match \in MatchType
  BY <1>0 DEF TakesTunnel, FlowType
<1>2. d.match.proto = f.match.proto /\ d.match.dst = f.match.dst /\ d.match.tun = h.tun
  BY <1>1 DEF MatchType, TakesTunnel
<1>3. d \in Matching(fs, pkt, h)
  BY <1>0, <1>2 DEF Matching, TakesTunnel
<1>4. PICK g \in Matching(fs, pkt, h) :
            /\ \A e \in Matching(fs, pkt, h) : e.prio <= g.prio
            /\ Hop(fs, pkt, h).out = g.act.out
  BY <1>0, <1>3, HopTaken
<1>5. g \in fs /\ g.table = L3Forwarding /\ 150 <= g.prio
  BY <1>0, <1>3, <1>4 DEF Matching
<1>6. g \notin Fixed /\ ~IntoTunnel(g)
  BY <1>5, FixedFields DEF Fixed, IntoTunnel, Classification, LocalARP, Overlay, L3Forwarding
<1>7. g.act.out[1] = "vxlan"
  BY <1>5, <1>6 DEF ExactFlows, OutOfL3
<1> QED BY <1>4, <1>7, OutTyped

LEMMA AtL2Rewrites ==
  ASSUME NEW fs, fs \subseteq ExactFlows, NEW pkt, NEW h, At(h, L2Rewrites)
  PROVE  Hop(fs, pkt, h).table = L2Rewrites /\ Hop(fs, pkt, h).out # None
<1>1. \A f \in fs : f.table # L2Rewrites
  BY FixedFields DEF ExactFlows, Fixed, IntoTunnel, OutOfL3, Classification, LocalARP,
     Overlay, L3Forwarding, L2Rewrites
<1>2. Matching(fs, pkt, h) = {} /\ fs \subseteq FlowType
  BY <1>1 DEF Matching, At, ExactFlows
<1> QED BY <1>2, HopTaken, OutTyped DEF At

LEMMA HopOver ==
  ASSUME NEW fs, NEW pkt, NEW h, h.out # None
  PROVE  Hop(fs, pkt, h) = h
BY DEF Hop

Arrived(h) == h.table = L2Rewrites \/ h.out[1] = "vxlan"

\* every flow into a tunnel with its destination
AllLed(fs) ==
  \A f \in fs :
    f.table = Overlay =>
      \E d \in fs : /\ d.table = L3Forwarding /\ d.prio = 150
                    /\ d.match = [f.match EXCEPT !.tun = f.act.tun]

\* three more tables after the decision between pods, tunnels and astray
LEMMA LastHops ==
  ASSUME NEW fs, fs \subseteq ExactFlows, NEW pkt \in Ordinary, NEW h,
         NEW q, q = Hop(fs, pkt, Hop(fs, pkt, Hop(fs, pkt, h)))
  PROVE  /\ At(h, L2Rewrites) => Arrived(q) /\ Hop(fs, pkt, q) = q
         /\ At(h, Overlay) /\ Covered(fs, pkt.proto, pkt.dst) /\ AllLed(fs) =>
              Arrived(q) /\ Hop(fs, pkt, q) = q
         /\ At(h, Overlay) /\ ~Covered(fs, pkt.proto, pkt.dst) =>
              ~Arrived(q) /\ Hop(fs, pkt, q) = q
         /\ Astray(h) => ~Arrived(q) /\ Hop(fs, pkt, q) = q
<1> DEFINE h1 == Hop(fs, pkt, h)
           h2 == Hop(fs, pkt, h1)
<1>1. ASSUME h1.out # None PROVE q = h1 /\ Hop(fs, pkt, q) = q
  BY <1>1, HopOver
<1>2. ASSUME h2.out # None PROVE q = h2 /\ Hop(fs, pkt, q) = q
  BY <1>2, HopOver
<1>3. ASSUME NEW x, Astray(x) PROVE ~Arrived(x) /\ x.out # None
  BY <1>3, OutTyped DEF Astray, Arrived
<1>4. ASSUME At(h, L2Rewrites) PROVE Arrived(q) /\ Hop(fs, pkt, q) = q
  BY <1>1, <1>4, AtL2Rewrites DEF Arrived
<1>5. ASSUME At(h, Overlay), ~Covered(fs, pkt.proto, pkt.dst)
      PROVE  ~Arrived(q) /\ Hop(fs, pkt, q) = q
  <2>1. Astray(h1)
    BY <1>5, AtOverlay
  <2> HIDE DEF h1
  <2> QED BY <1>1, <1>3, <2>1
<1>6. ASSUME At(h, Overlay), Covered(fs, pkt.proto, pkt.dst), AllLed(fs)
      PROVE  Arrived(q) /\ Hop(fs, pkt, q) = q
  <2>1. PICK f : At(h1, L3Forwarding) /\ TakesTunnel(fs, pkt, f, h1.tun)
    BY <1>6, AtOverlay
  <2>2. PICK d \in fs : /\ d.table = L3Forwarding /\ d.prio = 150
                        /\ d.match = [f.match EXCEPT !.tun = f.act.tun]
    BY <1>6, <2>1 DEF AllLed, TakesTunnel
  <2> HIDE DEF h1
  <2>3. h2.out[1] = "vxlan" /\ h2.out # None
    BY <2>1, <2>2, AtL3Forwarding
  <2> QED BY <1>2, <2>3 DEF Arrived
<1>7. ASSUME Astray(h) PROVE ~Arrived(q) /\ Hop(fs, pkt, q) = q
  <2>1. h1 = h /\ ~Arrived(h) /\ h.out # None
    BY <1>3, <1>7, HopOver
  <2> HIDE DEF h1
  <2> QED BY <1>1, <2>1
<1> QED BY <1>4, <1>5, <1>6, <1>7

\* Where a packet goes only depends on the flows it needs.
LEMMA RouteNeeds ==
  ASSUME NEW fs, fs \subseteq ExactFlows, NEW pkt \in Ordinary
  PROVE  /\ Needs(fs, pkt.proto, pkt.dst) /\ AllLed(fs) => Arrived(Route(fs, pkt))
         /\ Arrived(Route(fs, pkt)) => Needs(fs, pkt.proto, pkt.dst)
<1> DEFINE h0 == [table |-> Classification, tun |-> pkt.tun, out |-> None]
           h1 == Hop(fs, pkt, h0)
           h2 == Hop(fs, pkt, h1)
           h3 == Hop(fs, pkt, h2)
           h4 == Hop(fs, pkt, h3)
           h5 == Hop(fs, pkt, h4)
<1>0. At(h0, Classification)
  BY DEF At, HopType, Ordinary, PacketType, Tables
<1>1. Route(fs, pkt) = h5
  BY DEF Route
<1>2. CASE pkt.proto = "ip"
  <2> HIDE DEF h0
  <2>1. IF pkt.dst \in PodCIDR /\ NarrowIP \in fs THEN At(h1, L2Rewrites)
        ELSE IF WideIP \in fs THEN At(h1, Overlay) ELSE Astray(h1)
    BY <1>0, <1>2, AtClassificationIP
  <2>2. h4 = Hop(fs, pkt, Hop(fs, pkt, Hop(fs, pkt, h1)))
    OBVIOUS
  <2> HIDE DEF h1
  <2>3. /\ At(h1, L2Rewrites) => Arrived(h4) /\ h5 = h4
        /\ At(h1, Overlay) /\ Covered(fs, pkt.proto, pkt.dst) /\ AllLed(fs) =>
             Arrived(h4) /\ h5 = h4
        /\ At(h1, Overlay) /\ ~Covered(fs, pkt.proto, pkt.dst) => ~Arrived(h4) /\ h5 = h4
        /\ Astray(h1) => ~Arrived(h4) /\ h5 = h4
    BY <2>2, LastHops
  <2> HIDE DEF h2, h3, h4, h5
  <2> QED BY <1>1, <1>2, <2>1, <2>3 DEF Needs
<1>3. CASE pkt.proto = "arp"
  <2> HIDE DEF h0
  <2>1. IF ToARP \in fs THEN At(h1, LocalARP) ELSE Astray(h1)
    BY <1>0, <1>3, AtClassificationARP
  <2> HIDE DEF h1
  <2>2. At(h1, LocalARP) =>
          IF pkt.dst \in PodCIDR /\ NarrowARP \in fs THEN At(h2, L2Rewrites)
          ELSE IF WideARP \in fs THEN At(h2, Overlay) ELSE Astray(h2)
    BY <1>3, AtLocalARP
  <2>3. Astray(h1) => h2 = h1
    BY HopOver, OutTyped DEF Astray
  <2>4. h5 = Hop(fs, pkt, Hop(fs, pkt, Hop(fs, pkt, h2)))
    OBVIOUS
  <2> HIDE DEF h2
  <2>5. /\ At(h2, L2Rewrites) => Arrived(h5)
        /\ At(h2, Overlay) /\ Covered(fs, pkt.proto, pkt.dst) /\ AllLed(fs) => Arrived(h5)
        /\ At(h2, Overlay) /\ ~Covered(fs, pkt.proto, pkt.dst) => ~Arrived(h5)
        /\ Astray(h2) => ~Arrived(h5)
    BY <2>4, LastHops
  <2> HIDE DEF h3, h4, h5
  <2> QED BY <1>1, <1>3, <2>1, <2>2, <2>3, <2>5 DEF Needs
<1> QED BY <1>2, <1>3 DEF Ordinary, PacketType

\* A step leaves the tables alone, adds a flow or empties them.
LEMMA TablesGrow ==
  ASSUME IndInv, ExactInv, [Next]_vars, flows' # {}
  PROVE  flows' = flows \/ \E f \in ExactFlows : flows' = Installed(flows, f)
<1>1. CASE AddTunnelDstFlows
  <2>1. ofc.cfg \in Config /\ ofc.pc \in {"ip", "arp"}
    BY <1>1 DEF AddTunnelDstFlows, IndInv, TypeOK
  <2>2. TunnelDstFlow(ofc.cfg, ofc.pc) \in ExactFlows
    BY <2>1, ConfigFlowsExact
  <2> QED BY <1>1, <2>2 DEF AddTunnelDstFlows
<1>2. CASE ApplyFlow
  <2>1. Head(queue) \in ExactFlows
    BY <1>2 DEF ApplyFlow, ExactInv
  <2> QED BY <1>2, <2>1 DEF ApplyFlow
<1>3. CASE RestartSwitch
  BY <1>3 DEF RestartSwitch
<1>4. CASE \/ Start \/ Resync \/ AddVxLANPort \/ OnVSwitch \/ Crash \/ Fault \/ UNCHANGED vars
           \/ LoseConnection
           \/ \E c \in ConfigInputs : WriteConfig(c)
           \/ \E n \in Nodes : DeleteConfig(n)
  BY <1>4 DEF Start, Resync, AddVxLANPort, OnVSwitch, Crash, Fault, LoseConnection, WriteConfig,
    DeleteConfig, Change, switch, vars
<1> QED BY <1>1, <1>2, <1>3, <1>4 DEF Next, Agent, Environment

LEMMA DeliveredIff ==
  ASSUME NEW fs, fs \subseteq ExactFlows, NEW proto \in {"ip", "arp"},
         NEW a \in ClusterCIDR \ {GatewayIP}
  PROVE  /\ Needs(fs, proto, a) /\ AllLed(fs) => Delivered(fs, proto, a)
         /\ Delivered(fs, proto, a) => Needs(fs, proto, a)
<1>1. PICK pkt \in Ordinary : pkt = Packet(proto, a, 0) /\ pkt.proto = proto /\ pkt.dst = a
  <2>1. Packet(proto, a, 0) \in PacketType /\ Packet(proto, a, 0).dst = a
        /\ Packet(proto, a, 0).proto = proto
    BY DEF Packet, PacketType
  <2> QED BY <2>1 DEF Ordinary
<1>2. Delivered(fs, proto, a) <=> Arrived(Route(fs, pkt))
  BY <1>1 DEF Delivered, Arrived
<1> QED BY <1>1, <1>2, RouteNeeds

\* Once packets for an address get to the pods' table or into a tunnel they go
\* on doing so, whatever versions of configs, resyncs, crashes, failed commands
\* and lost connections follow; only the switch can end it, with its tables.
THEOREM TrafficNeverInterrupted == Spec => NeverInterrupted
<1> DEFINE Kept == \A proto \in {"ip", "arp"}, a \in ClusterCIDR \ {GatewayIP} :
                     Delivered(flows, proto, a) => Delivered(flows', proto, a)
<1>1. Init => ExactInv
  BY DEF Init, ExactInv
<1>2. IndInv /\ ExactInv /\ [Next]_vars => ExactInv'
  BY ExactNext
<1>3. ASSUME IndInv, IndInv', ExactInv, ExactInv', [Next]_vars
      PROVE  [flows' \in {flows, {}} \/ Kept]_vars
  <2> SUFFICES ASSUME flows' # {}, NEW proto \in {"ip", "arp"}, NEW a \in ClusterCIDR \ {GatewayIP},
                      Delivered(flows, proto, a), flows' # flows
               PROVE  Delivered(flows', proto, a)
    OBVIOUS
  <2>1. flows \subseteq ExactFlows /\ flows' \subseteq ExactFlows
    BY <1>3 DEF ExactInv
  <2>2. Needs(flows, proto, a)
    BY <2>1, DeliveredIff
  <2>3. PICK f \in ExactFlows : flows' = Installed(flows, f)
    BY <1>3, TablesGrow
  <2>4. Needs(flows', proto, a)
    BY <2>1, <2>2, <2>3, NeedsKept
  <2>5. AllLed(flows')
    BY <1>3 DEF IndInv, Led, HasDst, AllLed
  <2> QED BY <2>1, <2>4, <2>5, DeliveredIff
<1> QED
  BY <1>1, <1>2, <1>3, Inductive, PTL DEF Spec, NeverInterrupted

=============================================================================
