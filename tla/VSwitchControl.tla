--------------------------- MODULE VSwitchControl ---------------------------
(***************************************************************************)
(* The control plane, kube-ovs-controller: one process with two informer   *)
(* handlers that share the VSwitchConfig objects of the API server.        *)
(*                                                                         *)
(*   vswitchcfg   node events  -> create, update, delete VSwitchConfigs    *)
(*   tunnel       config events -> give every config a tunnel ID           *)
(*                                                                         *)
(* Every API call is one atomic step of the API server, and the steps of   *)
(* the two handler goroutines, of the informers that feed them and of the  *)
(* cluster around them interleave freely.  The API server, its watches,    *)
(* the nodes and the restarts of the process are the environment, modelled *)
(* from the way the controllers use them.                                  *)
(***************************************************************************)
EXTENDS Integers, Sequences, FiniteSets

CONSTANTS
  Nodes,            \* names of nodes; a VSwitchConfig has the name of its node
  IPs, CIDRs,       \* addresses and pod ranges a node may carry
  NodeInputs,       \* the node objects the cluster may write
  Settings,         \* (overlay type, cluster CIDR, service CIDR) of a build
  MinTunnelID, MaxTunnelID,
  MaxNodeChanges,   \* bound: node creations, updates and deletions
  MaxCrashes,       \* bound: crashes of the controller process
  MaxFaults,        \* bound: API calls that fail without taking effect
  WatchMayBreak,    \* may the node watch miss a deletion and relist?
  Heartbeats        \* does the kubelet keep refreshing its node object?

NodeObject == [internalIP : IPs \cup {""}, externalIP : IPs \cup {""},
               podCIDR : CIDRs \cup {""}]

ASSUME NodeAssumption ==
  /\ "" \notin IPs \cup CIDRs
  /\ NodeInputs \subseteq NodeObject
  /\ Settings # {}

ASSUME PoolAssumption ==
  /\ MinTunnelID \in Nat \ {0} /\ MaxTunnelID \in Nat
  /\ MinTunnelID <= MaxTunnelID

ASSUME BoundAssumption ==
  /\ MaxNodeChanges \in Nat /\ MaxCrashes \in Nat /\ MaxFaults \in Nat
  /\ WatchMayBreak \in BOOLEAN /\ Heartbeats \in BOOLEAN

VARIABLES
  present, nodes,       \* API server: the existing nodes and their objects
  configs, rev,         \* API server: the VSwitchConfigs and the revision
  up, settings,         \* the process: running, and the build's settings
  nodeQ,                \* per node, the notifications waiting for vswitchcfg
  vsWatch,              \* per config, the versions its watch has yet to bring
  vsCache,              \* the VSwitchConfig lister
  allocQ,               \* per config, the notifications waiting for the allocator
  cfg, alloc,           \* the two handler goroutines
  changes, crashes, faults

apiVars == <<present, nodes, configs, rev>>
memVars == <<settings, nodeQ, vsWatch, vsCache, allocQ, cfg, alloc>>
bounds  == <<changes, crashes, faults>>
vars == <<apiVars, up, memVars, bounds>>

-----------------------------------------------------------------------------
(* The VSwitchConfig object.  rv is its resource version; 0 stands for an   *)
(* object that does not exist.                                              *)

Config == [overlayIP : IPs \cup {""}, podCIDR : CIDRs \cup {""},
           settings : Settings, tunnelID : Nat, rv : Nat \ {0}]

NoConfig == [rv |-> 0]

Exists(c) == c.rv # 0

EmptyNode == [internalIP |-> "", externalIP |-> "", podCIDR |-> ""]

-----------------------------------------------------------------------------
(* The API server.  A write is accepted or refused as a whole; an accepted  *)
(* one gets the next revision and is sent to the watch of a running         *)
(* controller.  These operators describe all of configs, rev and vsWatch.   *)

Refused == UNCHANGED <<configs, rev, vsWatch>>

Stored(n, c) ==
  /\ rev' = rev + 1
  /\ configs' = [configs EXCEPT ![n] = c]
  /\ vsWatch' = [vsWatch EXCEPT ![n] = Append(@, c)]

\* Create fails with AlreadyExists.
APICreate(n, c) ==
  \/ /\ ~Exists(configs[n])
     /\ Stored(n, [c EXCEPT !.rv = rev + 1])
  \/ /\ Exists(configs[n])
     /\ Refused

\* Update fails with NotFound, or with Conflict when the object has changed
\* since the caller read it.
APIUpdate(n, c) ==
  \/ /\ configs[n].rv = c.rv
     /\ Stored(n, [c EXCEPT !.rv = rev + 1])
  \/ /\ configs[n].rv # c.rv
     /\ Refused

APIDelete(n) ==
  \/ /\ Exists(configs[n])
     /\ Stored(n, NoConfig)
  \/ /\ ~Exists(configs[n])
     /\ Refused

-----------------------------------------------------------------------------
(* vswitchcfg: from a node to its VSwitchConfig                             *)

\* "" when the node has no address, which the callers treat as an error
NodeOverlayIP(o) == IF o.internalIP # "" THEN o.internalIP ELSE o.externalIP

\* Both nodeOverlayIP and nodePodCIDR succeed.
Complete(o) == NodeOverlayIP(o) # "" /\ o.podCIDR # ""

Matches(o, c, s) ==
  /\ c.overlayIP = NodeOverlayIP(o)
  /\ c.podCIDR = o.podCIDR
  /\ c.settings = s

\* Mutant: an existing config is never compared with the node.
NeedsUpdateOnce(o, c) == ~Exists(c)

\* An error of needsUpdate ends the handler as a negative answer does.
NeedsUpdate(o, c) ==
  \/ ~Exists(c)
  \/ Complete(o) /\ ~Matches(o, c, settings)

\* rv is chosen by the API server when it stores the object.
NodeToVSwitchConfig(o) ==
  [overlayIP |-> NodeOverlayIP(o), podCIDR |-> o.podCIDR,
   settings |-> settings, tunnelID |-> 0, rv |-> 1]

\* Mutant: a new object that only takes over the version of the cached one.
RefreshedFromScratch(c, o) == [NodeToVSwitchConfig(o) EXCEPT !.rv = c.rv]

\* the cached object with the node's data, still at the cached version
Refreshed(c, o) ==
  [c EXCEPT !.overlayIP = NodeOverlayIP(o), !.podCIDR = o.podCIDR,
            !.settings = settings]

NodeEvent ==
  [type : {"upsert"}, obj : NodeObject] \cup [type : {"delete", "unknown"}]

CfgIdle  == [pc : {"idle"}]
CfgSync  == [pc : {"sync"}, node : Nodes, obj : NodeObject]
CfgWrite == [pc : {"create", "update"}, node : Nodes, new : Config]
CfgDel   == [pc : {"delete"}, node : Nodes]

Idle == [pc |-> "idle"]

\* Everything the process holds in memory is lost.
Stop ==
  /\ up' = FALSE
  /\ nodeQ' = [n \in Nodes |-> <<>>] /\ allocQ' = [n \in Nodes |-> <<>>]
  /\ vsWatch' = [n \in Nodes |-> <<>>]
  /\ vsCache' = [n \in Nodes |-> NoConfig]
  /\ cfg' = Idle /\ alloc' = Idle
  /\ UNCHANGED settings

\* OnAdd and OnUpdate, up to the decision of needsUpdate
OnUpsert(n, e) ==
  /\ e.type = "upsert"
  /\ cfg' = IF NeedsUpdate(e.obj, vsCache[n])
              THEN [pc |-> "sync", node |-> n, obj |-> e.obj] ELSE Idle
  /\ nodeQ' = [nodeQ EXCEPT ![n] = Tail(@)]
  /\ UNCHANGED <<up, settings, vsWatch, vsCache, allocQ, alloc>>

\* Mutant: OnDelete asks the lister first and skips a config it does not know.
OnDeleteIfCached(n, e) ==
  /\ e.type = "delete"
  /\ cfg' = IF Exists(vsCache[n]) THEN [pc |-> "delete", node |-> n] ELSE Idle
  /\ nodeQ' = [nodeQ EXCEPT ![n] = Tail(@)]
  /\ UNCHANGED <<up, settings, vsWatch, vsCache, allocQ, alloc>>

\* OnDelete of a node whose deletion was watched
OnDelete(n, e) ==
  /\ e.type = "delete"
  /\ cfg' = [pc |-> "delete", node |-> n]
  /\ nodeQ' = [nodeQ EXCEPT ![n] = Tail(@)]
  /\ UNCHANGED <<up, settings, vsWatch, vsCache, allocQ, alloc>>

\* OnDelete of a deletion found by a relist: the object is not a Node, the
\* handler logs that and goes on with a nil node, whose name panics.
OnDeleteUnknown(e) ==
  /\ e.type = "unknown"
  /\ Stop

\* The listener hands over one event at a time.  Events of one node come in
\* order; the order between nodes is left open.
HandleNode(n) ==
  /\ up /\ cfg.pc = "idle" /\ nodeQ[n] # <<>>
  /\ LET e == Head(nodeQ[n]) IN
       OnUpsert(n, e) \/ OnDelete(n, e) \/ OnDeleteUnknown(e)
  /\ UNCHANGED <<apiVars, bounds>>

\* syncVSwitchConfig reads the lister again, after needsUpdate did.
SyncVSwitchConfig ==
  /\ up /\ cfg.pc = "sync"
  /\ LET o == cfg.obj  c == vsCache[cfg.node] IN
       cfg' = IF ~Complete(o) THEN Idle
              ELSE IF Exists(c)
                THEN [pc |-> "update", node |-> cfg.node, new |-> Refreshed(c, o)]
                ELSE [pc |-> "create", node |-> cfg.node,
                      new |-> NodeToVSwitchConfig(o)]
  /\ UNCHANGED <<apiVars, up, settings, nodeQ, vsWatch, vsCache, allocQ, alloc, bounds>>

\* The API call that ends the handler.  A refused call is logged, not retried.
WriteVSwitchConfig ==
  /\ up
  /\ \/ cfg.pc = "create" /\ APICreate(cfg.node, cfg.new)
     \/ cfg.pc = "update" /\ APIUpdate(cfg.node, cfg.new)
     \/ cfg.pc = "delete" /\ APIDelete(cfg.node)
  /\ cfg' = Idle
  /\ UNCHANGED <<present, nodes, up, settings, nodeQ, vsCache, allocQ, alloc, bounds>>

-----------------------------------------------------------------------------
(* tunnel: the tunnel ID allocator.  Its listener delivers one notification *)
(* at a time, so at most one allocateTunnelID runs.                         *)

ValidateTunnelID(id) == MinTunnelID <= id /\ id <= MaxTunnelID

\* Mutant: the lowest ID is taken for an invalid one.
CurrentTunnelIDsAboveMin ==
  {id \in (MinTunnelID + 1)..MaxTunnelID :
     \E n \in Nodes : Exists(configs[n]) /\ configs[n].tunnelID = id}

\* 0 asks for an allocation, and an invalid ID is skipped with a warning.
CurrentTunnelIDs ==
  {id \in MinTunnelID..MaxTunnelID :
     \E n \in Nodes : Exists(configs[n]) /\ configs[n].tunnelID = id}

\* Mutant: the loop has no break.
FirstUnusedNoBreak(id, taken) == id = MaxTunnelID + 1

\* The loop leaves id at the first unused ID, or one past the last.
FirstUnused(id, taken) ==
  /\ id = MaxTunnelID + 1 \/ id \notin taken
  /\ MinTunnelID..(id - 1) \subseteq taken

AllocList   == [pc : {"list"}, node : Nodes, obj : Config]
AllocUpdate == [pc : {"update"}, node : Nodes, obj : Config, taken : SUBSET Nat]

\* Mutant: the error of the Get is ignored, and so is what it returns.
NeedsTunnelIDUnchecked(e, c) == Exists(e) /\ e.tunnelID = 0

\* Mutant: the notification alone decides, a config that has got its ID since
\* is given another one.
NeedsTunnelIDStale(e, c) == Exists(e) /\ e.tunnelID = 0 /\ Exists(c)

\* OnAdd and OnUpdate look at the config e of the notification, and
\* allocateTunnelID at the config c it gets.  A deletion is of no interest.
NeedsTunnelID(e, c) ==
  Exists(e) /\ e.tunnelID = 0 /\ Exists(c) /\ c.tunnelID = 0

\* Mutant: the object of the notification, forced upon the current version.
ToAllocateNotified(e, c) == [e EXCEPT !.rv = c.rv]

\* The object that gets the ID is the one of the Get.
ToAllocate(e, c) == c

\* OnAdd, OnUpdate and OnDelete of the allocator, and the Get that
\* allocateTunnelID starts with.
AllocGet(n) ==
  /\ up /\ alloc.pc = "idle" /\ allocQ[n] # <<>>
  /\ LET e == Head(allocQ[n]) IN
       alloc' = IF NeedsTunnelID(e, configs[n])
                  THEN [pc |-> "list", node |-> n, obj |-> ToAllocate(e, configs[n])]
                  ELSE Idle
  /\ allocQ' = [allocQ EXCEPT ![n] = Tail(@)]
  /\ UNCHANGED <<apiVars, up, settings, nodeQ, vsWatch, vsCache, cfg, bounds>>

\* Mutant: a config without an ID makes the list an error.
GetCurrentTunnelIDsStrict ==
  /\ up /\ alloc.pc = "list"
  /\ alloc' = IF \E n \in Nodes : Exists(configs[n]) /\ configs[n].tunnelID = 0
                THEN Idle
                ELSE [pc |-> "update", node |-> alloc.node, obj |-> alloc.obj,
                      taken |-> CurrentTunnelIDs]
  /\ UNCHANGED <<apiVars, up, settings, nodeQ, vsWatch, vsCache, allocQ, cfg, bounds>>

GetCurrentTunnelIDs ==
  /\ up /\ alloc.pc = "list"
  /\ alloc' = [pc |-> "update", node |-> alloc.node, obj |-> alloc.obj,
               taken |-> CurrentTunnelIDs]
  /\ UNCHANGED <<apiVars, up, settings, nodeQ, vsWatch, vsCache, allocQ, cfg, bounds>>

UpdateTunnelID ==
  /\ up /\ alloc.pc = "update"
  /\ \E id \in MinTunnelID..(MaxTunnelID + 1) :
       /\ FirstUnused(id, alloc.taken)
       /\ APIUpdate(alloc.node, [alloc.obj EXCEPT !.tunnelID = id])
  /\ alloc' = Idle
  /\ UNCHANGED <<present, nodes, up, settings, nodeQ, vsCache, allocQ, cfg, bounds>>

-----------------------------------------------------------------------------
(* The VSwitchConfig informer: the next version of a config replaces the    *)
(* cached one and is handed to the allocator's listener.  NoConfig is a     *)
(* deletion.  There is no resync: the factory is made with period 0.        *)

ApplyWatch(n) ==
  /\ up /\ vsWatch[n] # <<>>
  /\ vsCache' = [vsCache EXCEPT ![n] = Head(vsWatch[n])]
  /\ allocQ' = [allocQ EXCEPT ![n] = Append(@, Head(vsWatch[n]))]
  /\ vsWatch' = [vsWatch EXCEPT ![n] = Tail(@)]
  /\ UNCHANGED <<apiVars, up, settings, nodeQ, cfg, alloc, bounds>>

\* The watch breaks and the informer lists again: versions it had not seen
\* are skipped, the current one of every config is delivered (again).
Relist ==
  /\ up /\ \E n \in Nodes : Len(vsWatch[n]) > 1
  /\ vsWatch' = [n \in Nodes |-> IF Exists(configs[n]) \/ vsWatch[n] # <<>>
                                  THEN <<configs[n]>> ELSE <<>>]
  /\ UNCHANGED <<apiVars, up, settings, nodeQ, vsCache, allocQ, cfg, alloc, bounds>>

\* main: both informers start from a list and nothing waits for their caches
\* (WaitForCacheSync comes before Start and waits for started informers only).
Start ==
  /\ ~up
  /\ up' = TRUE
  /\ settings' \in Settings
  /\ nodeQ' = [n \in Nodes |->
                 IF n \in present
                   THEN <<[type |-> "upsert", obj |-> nodes[n]]>> ELSE <<>>]
  /\ vsWatch' = [n \in Nodes |-> IF Exists(configs[n]) THEN <<configs[n]>> ELSE <<>>]
  /\ UNCHANGED <<apiVars, vsCache, allocQ, cfg, alloc, bounds>>

-----------------------------------------------------------------------------
(* The environment                                                          *)

\* A running controller is notified of an event of node n.
Notify(n, e) ==
  nodeQ' = IF up THEN [nodeQ EXCEPT ![n] = Append(@, e)] ELSE nodeQ

NodeChange ==
  /\ changes < MaxNodeChanges
  /\ changes' = changes + 1
  /\ UNCHANGED <<configs, rev, up, settings, vsWatch, vsCache, allocQ, cfg, alloc,
                 crashes, faults>>

\* A node registers, or its addresses or pod CIDR change.
WriteNode(n, o) ==
  /\ NodeChange
  /\ n \in present => nodes[n] # o
  /\ present' = present \cup {n}
  /\ nodes' = [nodes EXCEPT ![n] = o]
  /\ Notify(n, [type |-> "upsert", obj |-> o])

\* A node leaves.  When the watch breaks around the deletion, the informer
\* finds out by a relist and reports a DeletedFinalStateUnknown.
DeleteNode(n, how) ==
  /\ NodeChange
  /\ n \in present
  /\ how = "unknown" => WatchMayBreak
  /\ present' = present \ {n}
  /\ nodes' = [nodes EXCEPT ![n] = EmptyNode]
  /\ Notify(n, [type |-> how])

\* The kubelet refreshes the status of its node: an update that leaves the
\* addresses and the pod CIDR alone.  One is pending at a time.
Heartbeat(n) ==
  /\ Heartbeats /\ up /\ n \in present /\ nodeQ[n] = <<>>
  /\ Notify(n, [type |-> "upsert", obj |-> nodes[n]])
  /\ UNCHANGED <<apiVars, up, settings, vsWatch, vsCache, allocQ, cfg, alloc, bounds>>

Crash ==
  /\ up /\ crashes < MaxCrashes
  /\ crashes' = crashes + 1
  /\ Stop
  /\ UNCHANGED <<apiVars, changes, faults>>

\* An API call of a handler fails; the error is logged and the event is over.
\* The Get of the allocator is lost together with its notification.
Fault ==
  /\ up /\ faults < MaxFaults
  /\ faults' = faults + 1
  /\ \/ /\ cfg.pc \in {"create", "update", "delete"}
        /\ cfg' = Idle
        /\ UNCHANGED <<alloc, allocQ>>
     \/ /\ alloc.pc \in {"list", "update"}
        /\ alloc' = Idle
        /\ UNCHANGED <<cfg, allocQ>>
     \/ \E n \in Nodes :
          /\ alloc.pc = "idle" /\ allocQ[n] # <<>>
          /\ allocQ' = [allocQ EXCEPT ![n] = Tail(@)]
          /\ UNCHANGED <<cfg, alloc>>
  /\ UNCHANGED <<apiVars, up, settings, nodeQ, vsWatch, vsCache, changes, crashes>>

-----------------------------------------------------------------------------
Init ==
  /\ present = {} /\ nodes = [n \in Nodes |-> EmptyNode]
  /\ configs = [n \in Nodes |-> NoConfig] /\ rev = 0
  /\ up = FALSE /\ settings \in Settings
  /\ nodeQ = [n \in Nodes |-> <<>>] /\ allocQ = [n \in Nodes |-> <<>>]
  /\ vsWatch = [n \in Nodes |-> <<>>] /\ vsCache = [n \in Nodes |-> NoConfig]
  /\ cfg = Idle /\ alloc = Idle
  /\ changes = 0 /\ crashes = 0 /\ faults = 0

CfgStep ==
  (\E n \in Nodes : HandleNode(n)) \/ SyncVSwitchConfig \/ WriteVSwitchConfig

AllocStep ==
  (\E n \in Nodes : AllocGet(n)) \/ GetCurrentTunnelIDs \/ UpdateTunnelID

Environment ==
  \/ \E n \in Nodes :
       \/ \E o \in NodeInputs : WriteNode(n, o)
       \/ \E how \in {"delete", "unknown"} : DeleteNode(n, how)
       \/ Heartbeat(n)
  \/ Crash
  \/ Fault

Next ==
  \/ CfgStep
  \/ AllocStep
  \/ \E n \in Nodes : ApplyWatch(n)
  \/ Relist
  \/ Start
  \/ Environment

Spec == Init /\ [][Next]_vars

\* Goroutines are scheduled, watches deliver, the kubelet restarts the process
\* and refreshes its node; nothing else of the environment has to happen.
Fairness ==
  /\ WF_vars(SyncVSwitchConfig \/ WriteVSwitchConfig)
  /\ WF_vars(GetCurrentTunnelIDs \/ UpdateTunnelID)
  /\ WF_vars(Start)
  /\ \A n \in Nodes :
       SF_vars(HandleNode(n)) /\ SF_vars(AllocGet(n))
         /\ WF_vars(ApplyWatch(n)) /\ WF_vars(Heartbeat(n))

FairSpec == Spec /\ Fairness

-----------------------------------------------------------------------------
(* Properties                                                               *)

Version == Config \cup {NoConfig}

\* Type invariant: the API objects, the informers' queues and caches and the
\* two handlers (vswitchcfg.go, allocator.go) hold values of their Go types.
TypeOK ==
  /\ present \in SUBSET Nodes /\ nodes \in [Nodes -> NodeObject]
  /\ configs \in [Nodes -> Version] /\ rev \in Nat
  /\ up \in BOOLEAN /\ settings \in Settings
  /\ nodeQ \in [Nodes -> Seq(NodeEvent)]
  /\ vsWatch \in [Nodes -> Seq(Version)] /\ vsCache \in [Nodes -> Version]
  /\ allocQ \in [Nodes -> Seq(Version)]
  /\ cfg \in CfgIdle \cup CfgSync \cup CfgWrite \cup CfgDel
  /\ alloc \in CfgIdle \cup AllocList \cup AllocUpdate
  /\ changes \in Nat /\ crashes \in Nat /\ faults \in Nat

\* Two VSwitchConfigs never hold the same allocatable tunnel ID, although
\* allocateTunnelID decides from a list that is old when its Update arrives,
\* and although the vswitchcfg handler writes back cached copies meanwhile.
TunnelIDsUnique ==
  \A m, n \in Nodes :
    /\ m # n /\ Exists(configs[m]) /\ Exists(configs[n])
    /\ ValidateTunnelID(configs[m].tunnelID)
    => configs[m].tunnelID # configs[n].tunnelID

\* An allocated tunnel ID passes validateTunnelID.  allocateTunnelID never
\* checks the ID it leaves the search loop with, so this rests on there being
\* no more nodes than IDs.
TunnelIDsValid ==
  \A n \in Nodes :
    Exists(configs[n]) /\ configs[n].tunnelID # 0
      => ValidateTunnelID(configs[n].tunnelID)

\* The tunnel ID of a VSwitchConfig, once allocated, stays for the life of the
\* object: flows on every node were built from it.  The vswitchcfg handler
\* writes whole objects from a cache that may not know the ID yet.
TunnelIDStable ==
  [][\A n \in Nodes :
       Exists(configs[n]) /\ Exists(configs'[n]) /\ configs[n].tunnelID # 0
         => configs'[n].tunnelID = configs[n].tunnelID]_vars

\* No lost update between the two writers of an object: one write changes the
\* node's data or the tunnel ID, never both, so neither handler puts back what
\* it read before the other one wrote.
NoLostUpdate ==
  [][\A n \in Nodes :
       Exists(configs[n]) /\ Exists(configs'[n])
         => \/ configs'[n].tunnelID = configs[n].tunnelID
            \/ [configs'[n] EXCEPT !.tunnelID = 0, !.rv = 0]
                 = [configs[n] EXCEPT !.tunnelID = 0, !.rv = 0]]_vars

\* the refinement mapping to the registry of tunnel IDs
HeldIDs ==
  [n \in Nodes |-> IF Exists(configs[n]) THEN configs[n].tunnelID ELSE -1]

Registry == INSTANCE TunnelIDs WITH Pool <- MinTunnelID..MaxTunnelID, ids <- HeldIDs

\* Seen through their tunnel IDs alone, the stored VSwitchConfigs are the
\* registry of TunnelIDs: allocateTunnelID decides from a list that may be out
\* of date, yet what it stores is free at the moment it is stored.
ImplementsRegistry == Registry!Spec

\* Every node that has an address and a pod CIDR ends up with a VSwitchConfig
\* that says so (OnAdd, OnUpdate), whatever crashes, stale caches and refused
\* writes happened on the way, as long as node events keep coming.
NodesGetConfigured ==
  \A n \in Nodes :
    <>[](n \in present /\ Complete(nodes[n])
           => Exists(configs[n]) /\ Matches(nodes[n], configs[n], settings))

\* Every VSwitchConfig that needs a tunnel ID gets one or disappears: when the
\* allocator's Update loses against the vswitchcfg handler, the write that
\* beat it brings the notification that starts the next attempt.
TunnelIDsAllocated ==
  \A n \in Nodes :
    (Exists(configs[n]) /\ configs[n].tunnelID = 0)
      ~> (~Exists(configs[n]) \/ configs[n].tunnelID # 0)

\* Unless the process crashes or a call fails, the VSwitchConfig of a node that
\* left is removed for good (OnDelete), even if its deletion overtakes a create
\* of the same handler in the caches.
OrphansRemoved ==
  \A n \in Nodes :
    <>[](crashes = 0 /\ faults = 0 /\ n \notin present => ~Exists(configs[n]))

\* A notification of any kind leaves the process running: the handlers test
\* the type of every object they are given and log the ones they cannot use.
HandlersNeverPanic == [][(\E n \in Nodes : HandleNode(n)) => up']_vars

-----------------------------------------------------------------------------
(* The inductive invariant behind the safety properties                     *)

\* c is a version of the config of node n that exists or existed: it is not
\* from the future, and if it is still current its tunnel ID is the stored one.
Coherent(n, c) ==
  /\ c.rv <= rev
  /\ Exists(c) /\ c.rv = configs[n].rv => c.tunnelID = configs[n].tunnelID

\* what the informer holds, and what vswitchcfg is about to write from it
CacheCoherent ==
  /\ \A n \in Nodes :
       /\ configs[n].rv <= rev
       /\ Coherent(n, vsCache[n])
       /\ \A i \in 1..Len(vsWatch[n]) : Coherent(n, vsWatch[n][i])
  /\ cfg.pc = "update" => Coherent(cfg.node, cfg.new)
  /\ cfg.pc = "create" => cfg.new.tunnelID = 0

\* what the allocator read with Get: nobody else gives this config an ID
AllocCoherent ==
  alloc.pc \in {"list", "update"} =>
    /\ alloc.obj.rv <= rev
    /\ alloc.obj.tunnelID = 0
    /\ Exists(configs[alloc.node]) => configs[alloc.node].tunnelID = 0
    /\ alloc.obj.rv = configs[alloc.node].rv => alloc.obj = configs[alloc.node]

\* the allocator's list of IDs may name too many, never too few
TakenCoversAll ==
  alloc.pc = "update" =>
    \A n \in Nodes :
      Exists(configs[n]) /\ ValidateTunnelID(configs[n].tunnelID)
        => configs[n].tunnelID \in alloc.taken

\* Every copy of a VSwitchConfig in the controller's memory (lister, watch,
\* pending Update, the allocator's Get and List) is a safe basis for a write:
\* what the API server's version check lets through is never out of date.
\* With TypeOK and TunnelIDsUnique this is preserved by every step.
CopiesCoherent == CacheCoherent /\ AllocCoherent /\ TakenCoversAll

IndInv == TypeOK /\ CopiesCoherent /\ TunnelIDsUnique

\* The pool has an ID for every node.
EnoughIDs ==
  IsFiniteSet(Nodes) /\ Cardinality(Nodes) <= MaxTunnelID - MinTunnelID + 1

\* The allocator's list leaves it an ID to take.
FreeID == alloc.pc = "update" => ~(MinTunnelID..MaxTunnelID \subseteq alloc.taken)

=============================================================================
