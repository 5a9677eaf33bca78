# A TLA+ verification of kube-ovs

kube-ovs is a Kubernetes network plugin on top of Open vSwitch. This directory
holds TLA+ models of its own logic (vendored and generated code is environment),
TLC configurations that check them on small instances, and TLAPS proofs of the
safety properties of every module for instances of any size. `PROJECT.json` maps every
modelling definition to the lines it stands for.

## The system

| Component | Source | State | Operations | Talks to |
|---|---|---|---|---|
| VSwitchConfig controller | `controllers/vswitchcfg` | none of its own; lister cache | `OnAdd`, `OnUpdate`, `OnDelete` of nodes | API server (create, update, delete VSwitchConfigs) |
| Tunnel ID allocator | `controllers/tunnel` | a mutex | `OnAdd`, `OnUpdate`, `OnDelete` of VSwitchConfigs | API server (get, list, update) |
| kube-ovs-controller | `cmd/kube-ovs-controller` | the two informers | start | runs both of the above, no resync |
| OpenFlow connection | `connection` | message queue, current connection, two mutexes and condition variables | `Send`, `SetConnection`, `ProcessQueue`, `Serve`, `handleConn` | the switch |
| OpenFlow message loop | `controllers/openflow/controller.go` | datapath ID | `Initialize`, `Run` | the connection |
| Flow handlers | `controllers/openflow/flows.go`, `datalink.go` | none; the flow tables of the switch | handlers of VSwitchConfigs and pods, default flows | the connection, `ovs-ofctl`, `ovs-vsctl` |
| vxlan port | `controllers/ports` | the port in the OVS database | handlers of VSwitchConfigs | `ovs-vsctl` |
| Agent | `cmd/kube-ovs` | all of the above four | set-up, start, resync every minute | writes the CNI configuration |
| CNI plugin | `cmd/kube-ovs-cni` | veth, OVS port, IPAM lease | `cmdAdd`, `cmdDel` | kernel, `ovs-vsctl`, IPAM plugin |
| Endpoints, services | `controllers/endpoints.go`, `service.go` | none | stubs, not registered | - |

The control plane writes one VSwitchConfig per node: first vswitchcfg with the
node's address and pod range, then the allocator with a tunnel ID. Every agent
watches all VSwitchConfigs and pods and turns them into flows of its bridge; the
CNI plugin connects pods to the bridge and tags their ports with the pod's name,
by which the agent finds them.

What is hard here: two controllers write the same object from caches that lag
behind; a handler's decision is old when its API call arrives; errors are logged and
not retried; informers redeliver, skip versions, or miss a deletion; the agent's two
listeners race for the vxlan port; flows reach the switch on two ways and are never
removed; the channel holds its mutexes across blocking writes and waits only once;
CNI invocations fail half way and are repeated. The `hazards` of `PROJECT.json` list
each of these at its line with the properties that would notice.

## Modules

* `TunnelIDs` - the abstract registry: a config enters, gets an ID nobody holds at
  that instant, keeps it, leaves.
* `VSwitchControl` - both controllers of kube-ovs-controller. `cfg` and `alloc` are the
  two handler goroutines between API calls, `vsCache` the lister, `nodeQ`, `vsWatch` and
  `allocQ` what watches and listeners still have to deliver. `HandleNode`,
  `SyncVSwitchConfig`, `WriteVSwitchConfig` are the two lister reads and the write of a node
  event, `AllocGet`, `GetCurrentTunnelIDs`, `UpdateTunnelID` the three calls of
  `allocateTunnelID`. The API server has resource versions, so `Update` can conflict.
  `Start`, `Crash`, `Fault`, `Relist`, `Heartbeat` and the node changes are the environment.
* `OFConnect` - the OpenFlow channel. `pq` is where `ProcessQueue` is and thereby which
  mutex it holds; `Startup` is `main`, `HandlerSend` the informers' handlers, `Accept` and
  `SetConnection` are `Serve`, `ReadMessage` is `handleConn`, `Receive` and `SendReply` are `Run`.
  The switch dials, probes, reads and closes connections; `received` is what it has read.
  It reads from a connection that begins with a hello (`greeting`) and drops any other with
  all that was written to it (`Refuse`): `controller.go:77` calls the hello required, and
  `ovs-vswitchd` insists on it.
* `FlowChannel` - what that channel promises to its senders, without goroutines, locks and
  buffers: the switch reads the messages in the order of the `Send`s, none twice and none
  left out, until the channel breaks; nothing arrives after that. `OFConnect` implements it
  (`Channel == INSTANCE FlowChannel WITH ...`): delivered is what the switch has read, and
  broken that the connection which got the process's one hello is closed.
* `AgentFlows` - the agent's handlers of VSwitchConfigs, the vxlan port and the switch's
  tables. An address range is a set of addresses, a flow a record of table, priority,
  match and action, and `Route` follows a packet through the tables. `OnVSwitch` and
  `AddTunnelDstFlows` are the openflow handler, `AddVxLANPort` the one of vxlanPorts. The
  channel is the one `OFConnect` is proved to implement: a FIFO queue that delivers while the
  connection with the hello lasts (`greeted`) and swallows everything after it is lost
  (`LoseConnection`, `RestartSwitch`), until a new process sends its own hello. The configs
  obey what `VSwitchControl` is proved to guarantee (unique, stable tunnel IDs).
* `CNIPlugin` - `cmdAdd` and `cmdDel`, one step per command, for several sandboxes at once.
* `PodNetwork` - `CNIPlugin` extended by the kubelet's status reports and the agent's pod
  handlers (`SyncPod` is `syncPod` up to `findPort`, `SendPodFlows` the rest). Ports carry the
  pod's name, so a handler can find that of another sandbox of the pod. The ip and the arp
  flow of an address are sent together and have the same output: they are one entry of
  `rewrites`. `cut` is an agent that has lost its channel: it goes on, but nothing its pod
  handlers do gets to the switch, until `RestartAgent`. `reported` is history: which addresses
  each pod has had in its status.
* `NodeSetup` - `main` of the agent on every node, one step per command, with the CNI
  configuration, the wait for the node's VSwitchConfig and the controller that has to be
  scheduled before there is any. `host` is the set of facts the commands have established.
* `MC*` - instances for TLC. `*Proofs` - the proofs.

Definitions marked *Mutant* are faulty variants of the definition that follows them;
each property is shown to fail when one of them takes its place.

## Runs

| Run | Shows |
|---|---|
| ControlSafety | tunnel IDs unique, valid, stable; no lost update; every copy coherent; refinement of `TunnelIDs` |
| ControlLive | given heartbeats, every complete node gets a matching config and every config an ID, also across a crash and a change of settings; without a crash, configs of departed nodes are removed |
| ControlExhausted (violation) | one config too many gets the ID past the maximum |
| ControlPanic (violation) | a deletion found by a relist panics the handler |
| Channel | queue never read empty, FIFO up to the write; the first connection anything is written to begins with the hello (`HelloFirst`); refinement of `FlowChannel` up to the switch; everything sent is written, and read while the switch keeps that connection (`EverySendArrives`); `Run` always gets back to receiving |
| ChannelHello (violation) | connections after the first one written to get no hello |
| ChannelFraming (violation) | messages that arrive together are dropped |
| Agent | tunnel flows never dangle, tunnel ID and destination belong together, local traffic stays local, no step but the loss of the tables takes a delivery from packets that had one (`NeverInterrupted`); in the end, as long as the agent has its channel, packets for other nodes are in their tunnel and packets for this node's pods at the pods' table: after a failed command or a crash, and after a lost connection or a switch restart once the agent has been restarted as well |
| PodNetwork | running sandboxes stay wired, released ones hold no address and no interface, packets for an address only go to ports of pods that have had it (`FlowsMatchPods`), addresses of torn-down sandboxes come back; packets for a pod end up at its port as long as the agent has its channel |
| NodeSetup | a running agent has everything its config asks for and the range the CNI plugin uses; agents, controller and kubelets do not wait for each other for ever |
| NodeMasquerade (violation) | packets between pods are masqueraded too |
| CNIPortLeak (violation) | DEL without a netns leaves the port |

`CHECK_DEADLOCK FALSE` in every run: once the bounded environment is used up and the
queues are empty, the real system waits for events too.

### Bounds

* Control: two nodes are enough for a clash of IDs and for one handler to overtake the
  other; three node changes allow create, change, delete or delete and return; one crash,
  one failed call, watches that break (missed deletions, relists). The pool has two IDs,
  one for each node, and one in ControlExhausted. The proofs remove all of these bounds.
  ControlLive has one node, since its properties speak of one node at a time and the only
  thing nodes share is the pool; it keeps three node changes, both settings, incomplete
  nodes and a crash, and leaves out broken watches and failed calls.
* Channel: two connections (a write fails on the first and is repeated on the second, or
  blocks on the first while the second waits in `Serve`), four messages, one echo request,
  a window of one message so that writes block. The last connection is never closed and
  stands for all later ones: when the switch refuses it, it takes the messages away and
  leaves it open. (That it closes a refused connection and dials the next takes a third
  one, since the first that is written to has the hello; the proofs cover it.)
  `skipped`, `sent`, `written`, `received` and `greeting` are history.
* Agent: two other nodes that may hold the same range in turn or at once, one of which
  may claim this node's own range (a config whose node is gone: see `OrphansRemoved` and
  its limits); one tunnel ID, so that it has to be used again (both nodes also
  go through the time before their config has an ID); three writes; one failure, be it a
  failed command, a crash, a lost connection or a restart of the switch. A handler takes an event
  while at most one message waits (`MaxBacklog`); a resync waits until the last one is worked
  off. Whether anything restarts an agent that has lost its channel is left open (`Crash` is
  possible then without counting as a failure, and not fair): `TunnelNeverDangles` and
  `LocalStaysLocal` hold at every moment, also while tables that were lost are built up again,
  `NeverInterrupted` for every step but the loss of the tables itself, and the reachability
  properties whenever the channel stands for good.
  The proofs remove these bounds for the invariants.
* PodNetwork: two sandboxes, of one pod or of two; one address, so that it runs out and is
  leased again while flows of the last holder are in the switch; one failure (a command
  of the plugin or of the agent, a crash, a lost connection, a switch restart; a restart of
  an agent without a channel is free), one repeated DEL, one message
  at a time on its way. The agent runs at first, since the plugin needs its bridge. Events
  of pods without an address of this node have no effect and are left out. The proofs
  remove the bounds for the invariants.
* NodeSetup: two nodes, so that the controller can move and each agent can depend on the
  other's node; one fault, one reboot, one move. NodeMasquerade needs one node only.

### Fairness

Goroutines that can run do run (weak fairness of each handler). `HandleNode` and `AllocGet`
are strongly fair per node: the model lets the events of different nodes overtake each
other, while the listener is a FIFO buffer, so no event waits for ever. `SetConnection`,
`SendReply` and `Receive` are strongly fair: Go's mutexes hand over to a waiter that has
starved for 1 ms, and channel waiters are queued. The switch reads what it is sent
on a greeted connection, refuses others and dials again after it closed one, which
`ovs-vswitchd` does; the kubelet restarts the
controller and the agent when they have ended (nothing ends an agent that has lost its
channel), repeats a failed DEL, stops a sandbox that is to go and reports
pod status; heartbeats are only assumed where `Heartbeats` is set. In `NodeSetup` the control
plane gives every node its range and schedules the controller on some ready node: in
`deployment/kube-ovs.yaml` the controller tolerates the master taint only, so that it waits
for a ready node, while the agents' DaemonSet tolerates nodes that are not ready. The resync of the agent fires again and again
(`time.Minute` in `cmd/kube-ovs/main.go`). Nothing else of the environment is assumed to happen.

## Proofs

`VSwitchControlProofs` (for all sets of nodes, addresses and settings, every pool and every
bound). `TunnelIDsUnique` is not inductive: the allocator writes an ID that was free when
it listed. `IndInv` adds `CopiesCoherent`: a copy whose version the API server would still
accept has the stored tunnel ID (`CacheCoherent`), the config the allocator works for has no
ID and nobody else gives it one (`AllocCoherent`), and its list covers all IDs in use
(`TakenCoversAll`), because IDs only enter the system through the allocator itself.
`TypeCorrect`, `CopiesAlwaysCoherent`, `UniqueTunnelIDs` state the parts; `StableTunnelIDs` and
`NoUpdateLost` are action properties that follow from the coherence of what is written.
`ValidTunnelIDs` and `RefinesRegistry` assume `EnoughIDs`, that the pool is as large as the set of
nodes, as the code does without saying so; the counting argument is that the listed IDs
belong to nodes other than the one that is being served (`FreeID`).

`OFConnectProofs` (for all messages and bounds). `IndInv` is the type invariant, `FIFO`, `WakeUps`
(once woken, `ProcessQueue` finds what it was woken for, because only it shortens the queue
and nobody resets the connection) and `Phases` (nothing but `main` runs before hello and the
default flows are queued). Theorems: `TypeCorrect`, `HeadAlwaysPresent`, `QueueIsFIFO`. The
other two need to know which connection got what, and for that `HelloInv`: `Wire` (the switch
opens one connection after the other and `Serve` takes them in this order, so only the
current one has messages in flight), `OneHello` (only the first message of the process is a
hello) and `Greeted` (the hello begins the first connection that is written to at all, and
while that one is open, what the switch has read and what is in flight on it are together
all that was written). `HelloIsFirst` follows. For `RefinesChannel`, `ChannelStep` maps every
step: a `Send` is `Send`; a read is `Deliver`, since by `Greeted` and `FIFO` it is the next of
`sent`; closing the connection with the hello, or a write of the hello to a connection that is
closed already, is `Break`; everything else, a refused connection included, is a stutter.

`AgentFlowsProofs` (for all nodes, ranges, tunnel IDs and failures). `TunnelNeverDangles` is
not inductive, since flows come from the queue: `IndInv` says that every flow in the queue
or the tables is `Led`, that is, leads to a destination flow that is in the tables, which
the order of commands in `flowsForVSwitch` establishes and no later flow takes away (in the
queue only while the channel stands: a switch that restarts takes the destinations away,
and the messages already queued for them never arrive); and
that every flow into a vxlan port is the destination flow of one version of a config.
`LocalInv` adds that the flow of the node's own range is in the tables before the wider one
and, while the channel stands, precedes it in the queue. The routing theorems `TunnelsAccounted` and `LocalPacketsStay` apply one
lemma about a table five times. Theorems: `TypeCorrect`, `TunnelsNeverDangle`,
`TunnelsAccounted`, `LocalPacketsStay`. `TrafficNeverInterrupted` is an action property about
two routes, before and after a step, in tables of any size. `ExactInv` says which flows there
can be at all: eight fixed ones, flows into tunnels and destinations. From that
`DeliveredIff` computes the route: a packet is delivered if and only if the flows it `Needs` are
there, and what a step does to the tables (`TablesGrow`: a flow is added, or replaced by one
with the same priority and match) never takes a needed flow away; for a flow into a tunnel
that changes its ID this is `Led` again.

`CNIPluginProofs` and `PodNetworkProofs` (for all sandboxes, pods, addresses and failures).
`SandboxInv` says what an invocation has established when it reaches a step, e.g. that a
sandbox has no address before IPAM is called and exactly one after it; no step touches
what belongs to another sandbox, although ports are found by the pod's name. `PodInv`
carries this over: the agent only reads what the plugin writes. Theorems: `TypeCorrect`,
`RunningStaysWired`, `ReleasedStaysClean`, and for the composition `PodTypeCorrect`,
`PodNetworkSafe`, `FlowsAlwaysMatchPods`. The last one needs `FlowInv`, a chain from the pod's
status over the event, the handler and the queued message to the table: behind each of
them there is a report. It survives the late lookup because reports are history and the
pod of a sandbox, by which `findPort` takes the port, is fixed.

`NodeSetupProofs` (for all nodes, settings, failures, reboots and moves). `ProcessInv` says that
the commands a process has run have left their facts on the host, which only a reboot
takes away, and a reboot ends the process. Theorems: `TypeCorrect`, `RunningStaysSetUp`.

Assumptions: only the named `ASSUME`s of the modules (nonempty settings, a pool of positive
IDs, finitely many nodes and pods, bounds that are numbers, ...), which TLC evaluates in
every run.

Only model-checked: the liveness properties, which rest on fairness, and that is out of the
prover's reach (`NodesGetConfigured`, `TunnelIDsAllocated`, `OrphansRemoved`, `EverySendArrives`,
`RunKeepsReceiving`, `RemoteReachable`, `LocalReachable`, `LeasesReturned`, `PodReachable`,
`NodesComeUp`). Every invariant and action property of a passing run is proved.

## What the models found

The violations above are behaviours of the code at odds with its own comments or
messages; `findings` in `PROJECT.json` has the lines. Some more, with no comment to
contradict. A VSwitchConfig write that is refused because the cached copy is out of date
is not retried (`vswitchcfg.go:205`): `NodesGetConfigured` needs the node's next heartbeat, and
fails with `Heartbeats = FALSE`. An allocator call that fails is not retried either, and
heartbeats do not help: the config has no ID until it changes or the controller restarts.
A DEL that repeats one which got as far as the port ends in `findPort`'s error, as the TODO
at `plugin.go:171` admits. The struct tag of `NetConf.IsGW` (`plugin.go:53`) lacks its closing quote, so the
installed `isGateway` is ignored. Since the hello is sent once per process, an agent whose
connection is lost, by a restart of the switch or otherwise, has no channel for the rest of
its life: the switch keeps refusing its connections, the resync sends all flows again every
minute and none arrives, and nothing notices. A switch that restarted stays without flows
(but for the tunnel destinations, which `ovs-ofctl` adds) until somebody restarts the agent.
The agent reads the cluster's ranges once: a controller
that restarts with others updates the configs, a running agent keeps its gateway address,
rules and flows. `RunningIsSetUp` relies on nodes that keep their range: one that is
registered again with another one has agents and CNI configuration disagree until the
agent restarts.

## Not modelled

* Endpoints and service handlers: stubs that nothing registers.
* Generated clients, informers, deep copies and vendored code: environment.
* The gateway branch of `cmdAdd` (`isGateway` is never set) with `ensureBridgeAddr`, ipMasq
  (off), IPv6.
* What the running agent does when ranges or settings change: nothing in the code.
* The spinning of `handleConn` at the end of a stream and the growth of the queue while no
  switch is connected: they cost CPU, a descriptor or memory, and no state changes.
* Byte layout of OpenFlow messages and messages cut in the middle of a read.
* Numbers of ports: a port stands for its number (`ofPortFromName` reads the one from the
  other). That `ovs-vswitchd` may give the number of a deleted port to a new one, so that a
  flow left behind by an old pod leads to the port of another, is outside `FlowsMatchPods`,
  which is about ports. It is also about all addresses a pod has ever had: that a flow is
  up to date is what `PodReachable` says, in the end. Likewise `TunnelsMatchConfigs` allows
  for any version of a config, and `RemoteReachable` asks for the current one.
* Runtimes that keep the network namespace of a stopped sandbox: `LeasesReturned` relies on
  the last DEL coming without one.
* A second controller process: the deployment is a StatefulSet of one.

## Plan

1. `VSwitchControl` with several agents, end to end: from a node event to a delivered
   packet, with orphaned configs; an abstract specification of delivery, to which
   `NeverInterrupted` is the first step, and `AgentFlows` as its refinement.
2. Framing of the byte stream in `handleConn` (partial reads); the switch that stops
   reading while it waits for an answer.
3. Nodes that are registered again with another range, in `NodeSetup`.
