------------------------ MODULE VSwitchControlProofs ------------------------
(***************************************************************************)
(* Safety of the control plane for every set of nodes, pool of tunnel IDs, *)
(* number of node changes, crashes and faults.                             *)
(***************************************************************************)
EXTENDS VSwitchControl, FiniteSetTheorems, TLAPS

USE DEF apiVars, memVars, bounds

-----------------------------------------------------------------------------
(* What the type of a handler's state says about its fields                 *)

\* The vswitchcfg handler's pc decides which fields it holds.
LEMMA CfgCases ==
  ASSUME TypeOK
  PROVE  /\ cfg.pc = "sync" => cfg.node \in Nodes /\ cfg.obj \in NodeObject
         /\ cfg.pc \in {"create", "update"}
              => cfg.node \in Nodes /\ cfg.new \in Config
         /\ cfg.pc = "delete" => cfg.node \in Nodes
         /\ cfg.pc \in {"idle", "sync", "create", "update", "delete"}
BY DEF TypeOK, CfgIdle, CfgSync, CfgWrite, CfgDel

\* The allocator's pc decides which fields it holds.
LEMMA AllocCases ==
  ASSUME TypeOK
  PROVE  /\ alloc.pc \in {"list", "update"}
              => alloc.node \in Nodes /\ alloc.obj \in Config
         /\ alloc.pc = "update" => alloc.taken \in SUBSET Nat
         /\ alloc.pc \in {"idle", "list", "update"}
BY DEF TypeOK, CfgIdle, AllocList, AllocUpdate

\* A version with a resource version other than 0 is a whole object.
LEMMA ExistsConfig ==
  ASSUME NEW c \in Version
  PROVE  /\ Exists(c) => c \in Config
         /\ ~Exists(c) => c = NoConfig
         /\ c.rv \in Nat
<1>1. CASE c \in Config
  <2>1. c.rv \in Nat \ {0}
    BY <1>1 DEF Config
  <2> QED
    BY <1>1, <2>1 DEF Exists
<1>2. CASE c = NoConfig
  BY <1>2 DEF NoConfig, Exists
<1> QED
  BY <1>1, <1>2 DEF Version

\* The object a handler computes from a node is a VSwitchConfig.
LEMMA NewConfigType ==
  ASSUME NEW o \in NodeObject, TypeOK
  PROVE  /\ NodeOverlayIP(o) \in IPs \cup {""}
         /\ NodeToVSwitchConfig(o) \in Config
         /\ \A c \in Config : Refreshed(c, o) \in Config
<1>1. NodeOverlayIP(o) \in IPs \cup {""} /\ o.podCIDR \in CIDRs \cup {""}
  BY DEF NodeOverlayIP, NodeObject
<1>2. settings \in Settings
  BY DEF TypeOK
<1>3. NodeToVSwitchConfig(o) \in Config
  <2>1. 0 \in Nat /\ 1 \in Nat \ {0}
    OBVIOUS
  <2> QED
    BY <1>1, <1>2, <2>1, Zenon DEF NodeToVSwitchConfig, Config
<1>4. ASSUME NEW c \in Config PROVE Refreshed(c, o) \in Config
  BY <1>1, <1>2 DEF Refreshed, Config
<1> QED
  BY <1>1, <1>3, <1>4

\* An accepted write leaves the server and the watch well typed.
LEMMA StoredType ==
  ASSUME TypeOK, NEW n \in Nodes, NEW d \in Version, Stored(n, d)
  PROVE  /\ configs' \in [Nodes -> Version] /\ rev' \in Nat
         /\ vsWatch' \in [Nodes -> Seq(Version)]
BY DEF Stored, TypeOK

\* An API call leaves the server and the watch well typed.
LEMMA APIType ==
  ASSUME TypeOK, NEW n \in Nodes, NEW c \in Config,
         APICreate(n, c) \/ APIUpdate(n, c) \/ APIDelete(n) \/ Refused
  PROVE  /\ configs' \in [Nodes -> Version] /\ rev' \in Nat
         /\ vsWatch' \in [Nodes -> Seq(Version)]
<1>1. CASE Refused
  BY <1>1 DEF Refused, TypeOK
<1>3. NoConfig \in Version
  BY DEF Version
<1>4. [c EXCEPT !.rv = rev + 1] \in Version
  <2>1. rev + 1 \in Nat \ {0}
    BY DEF TypeOK
  <2> QED
    BY <2>1 DEF Version, Config
<1> QED
  BY <1>1, <1>3, <1>4, StoredType DEF APICreate, APIUpdate, APIDelete

-----------------------------------------------------------------------------
(* Type correctness                                                         *)

\* Every action keeps the API objects, the informers' queues and caches and
\* the two handlers within their types.
LEMMA TypeStep ==
  ASSUME TypeOK, [Next]_vars
  PROVE  TypeOK'
<1>0. NoConfig \in Version /\ Idle \in CfgIdle
  BY DEF Version, Idle, CfgIdle
<1>1. ASSUME Stop, UNCHANGED <<apiVars, changes, faults>>, crashes' \in Nat
      PROVE  TypeOK'
  <2>1. /\ nodeQ' \in [Nodes -> Seq(NodeEvent)] /\ vsWatch' \in [Nodes -> Seq(Version)]
        /\ allocQ' \in [Nodes -> Seq(Version)]
    BY <1>1 DEF Stop
  <2>2. vsCache' \in [Nodes -> Version]
    BY <1>0, <1>1 DEF Stop
  <2>3. up' \in BOOLEAN
    BY <1>1 DEF Stop
  <2> QED
    BY <1>0, <1>1, <2>1, <2>2, <2>3 DEF Stop, TypeOK
<1>2. ASSUME NEW n \in Nodes, HandleNode(n)
      PROVE  TypeOK'
  <2> DEFINE e == Head(nodeQ[n])
  <2>1. e \in NodeEvent /\ Tail(nodeQ[n]) \in Seq(NodeEvent)
    BY <1>2 DEF HandleNode, TypeOK
  <2>2. nodeQ' \in [Nodes -> Seq(NodeEvent)] \/ Stop
    BY <1>2, <2>1 DEF HandleNode, OnUpsert, OnDelete, OnDeleteUnknown, TypeOK
  <2>3. CASE OnUpsert(n, e)
    <3>1. e.obj \in NodeObject
      BY <2>1, <2>3 DEF NodeEvent, OnUpsert
    <3>2. cfg' \in CfgIdle \cup CfgSync
      BY <1>0, <2>3, <3>1 DEF OnUpsert, CfgSync
    <3>3. nodeQ' \in [Nodes -> Seq(NodeEvent)]
      BY <2>1, <2>3 DEF OnUpsert, TypeOK
    <3> QED
      BY <1>2, <2>3, <3>2, <3>3 DEF HandleNode, OnUpsert, TypeOK
  <2>4. CASE OnDelete(n, e)
    <3>1. cfg' \in CfgDel
      BY <2>4 DEF OnDelete, CfgDel
    <3>2. nodeQ' \in [Nodes -> Seq(NodeEvent)]
      BY <2>1, <2>4 DEF OnDelete, TypeOK
    <3> QED
      BY <1>2, <2>4, <3>1, <3>2 DEF HandleNode, OnDelete, TypeOK
  <2>5. CASE OnDeleteUnknown(e)
    <3>1. crashes' \in Nat
      BY <1>2 DEF HandleNode, TypeOK
    <3> QED
      BY <1>1, <1>2, <2>5, <3>1 DEF HandleNode, OnDeleteUnknown
  <2> QED
    BY <1>2, <2>3, <2>4, <2>5 DEF HandleNode
<1>3. ASSUME SyncVSwitchConfig
      PROVE  TypeOK'
  <2> DEFINE o == cfg.obj
             c == vsCache[cfg.node]
  <2>1. cfg.node \in Nodes /\ o \in NodeObject
    BY <1>3, CfgCases DEF SyncVSwitchConfig
  <2>2. c \in Version
    BY <2>1 DEF TypeOK
  <2>3. Exists(c) => Refreshed(c, o) \in Config
    BY <2>1, <2>2, ExistsConfig, NewConfigType
  <2>4. NodeToVSwitchConfig(o) \in Config
    BY <2>1, NewConfigType
  <2>5. cfg' \in CfgIdle \cup CfgWrite
    BY <1>0, <1>3, <2>1, <2>3, <2>4 DEF SyncVSwitchConfig, CfgWrite
  <2> QED
    BY <1>3, <2>5 DEF SyncVSwitchConfig, TypeOK
<1>4. ASSUME WriteVSwitchConfig
      PROVE  TypeOK'
  <2>1. /\ configs' \in [Nodes -> Version] /\ rev' \in Nat
        /\ vsWatch' \in [Nodes -> Seq(Version)]
    <3>1. CASE cfg.pc \in {"create", "update"}
      BY <1>4, <3>1, CfgCases, APIType DEF WriteVSwitchConfig
    <3>2. CASE cfg.pc = "delete" /\ APIDelete(cfg.node)
      <4>1. cfg.node \in Nodes
        BY <3>2, CfgCases
      <4> QED
        BY <1>0, <3>2, <4>1, StoredType DEF APIDelete, Refused, TypeOK
    <3> QED
      BY <1>4, <3>1, <3>2 DEF WriteVSwitchConfig
  <2> QED
    BY <1>0, <1>4, <2>1 DEF WriteVSwitchConfig, TypeOK
<1>5. ASSUME NEW n \in Nodes, AllocGet(n)
      PROVE  TypeOK'
  <2>1. allocQ' \in [Nodes -> Seq(Version)]
    BY <1>5 DEF AllocGet, TypeOK
  <2>2. Exists(configs[n]) => configs[n] \in Config
    BY ExistsConfig DEF TypeOK
  <2>3. alloc' \in CfgIdle \cup AllocList
    BY <1>0, <1>5, <2>2 DEF AllocGet, NeedsTunnelID, ToAllocate, AllocList
  <2> QED
    BY <1>5, <2>1, <2>3 DEF AllocGet, TypeOK
<1>6. ASSUME GetCurrentTunnelIDs
      PROVE  TypeOK'
  <2>1. CurrentTunnelIDs \in SUBSET Nat
    BY PoolAssumption DEF CurrentTunnelIDs
  <2>2. alloc.node \in Nodes /\ alloc.obj \in Config
    BY <1>6, AllocCases DEF GetCurrentTunnelIDs
  <2>3. alloc' \in AllocUpdate
    BY <1>6, <2>1, <2>2 DEF GetCurrentTunnelIDs, AllocUpdate
  <2> QED
    BY <1>6, <2>3 DEF GetCurrentTunnelIDs, TypeOK
<1>7. ASSUME UpdateTunnelID
      PROVE  TypeOK'
  <2>1. PICK id \in MinTunnelID..(MaxTunnelID + 1) :
          APIUpdate(alloc.node, [alloc.obj EXCEPT !.tunnelID = id])
    BY <1>7 DEF UpdateTunnelID
  <2>2. alloc.node \in Nodes /\ alloc.obj \in Config
    BY <1>7, AllocCases DEF UpdateTunnelID
  <2>3. id \in Nat
    BY PoolAssumption
  <2>4. [alloc.obj EXCEPT !.tunnelID = id] \in Config
    BY <2>2, <2>3 DEF Config
  <2>5. /\ configs' \in [Nodes -> Version] /\ rev' \in Nat
        /\ vsWatch' \in [Nodes -> Seq(Version)]
    BY <2>1, <2>2, <2>4, APIType
  <2> QED
    BY <1>0, <1>7, <2>5 DEF UpdateTunnelID, TypeOK
<1>8. ASSUME NEW n \in Nodes, ApplyWatch(n)
      PROVE  TypeOK'
  <2>1. Head(vsWatch[n]) \in Version /\ Tail(vsWatch[n]) \in Seq(Version)
    BY <1>8 DEF ApplyWatch, TypeOK
  <2>2. /\ vsCache' \in [Nodes -> Version]
        /\ vsWatch' \in [Nodes -> Seq(Version)]
        /\ allocQ' \in [Nodes -> Seq(Version)]
    BY <1>8, <2>1 DEF ApplyWatch, TypeOK
  <2> QED
    BY <1>8, <2>2 DEF ApplyWatch, TypeOK
<1>9. ASSUME Relist
      PROVE  TypeOK'
  <2>1. vsWatch' \in [Nodes -> Seq(Version)]
    BY <1>9 DEF Relist, TypeOK
  <2> QED
    BY <1>9, <2>1 DEF Relist, TypeOK
<1>10. ASSUME Start
       PROVE  TypeOK'
  <2>1. vsWatch' \in [Nodes -> Seq(Version)]
    BY <1>10 DEF Start, TypeOK
  <2>2. \A n \in Nodes : [type |-> "upsert", obj |-> nodes[n]] \in NodeEvent
    BY DEF TypeOK, NodeEvent
  <2>3. nodeQ' \in [Nodes -> Seq(NodeEvent)]
    BY <1>10, <2>2 DEF Start
  <2> QED
    BY <1>10, <2>1, <2>3 DEF Start, TypeOK
<1>11. ASSUME NEW n \in Nodes, NEW e \in NodeEvent, Notify(n, e)
       PROVE  nodeQ' \in [Nodes -> Seq(NodeEvent)]
  BY <1>11 DEF Notify, TypeOK
<1>12. ASSUME NEW n \in Nodes, NEW o \in NodeInputs, WriteNode(n, o)
       PROVE  TypeOK'
  <2>1. o \in NodeObject
    BY NodeAssumption
  <2>2. [type |-> "upsert", obj |-> o] \in NodeEvent
    BY <2>1 DEF NodeEvent
  <2>3. nodeQ' \in [Nodes -> Seq(NodeEvent)]
    BY <1>11, <1>12, <2>2 DEF WriteNode
  <2>4. nodes' \in [Nodes -> NodeObject] /\ present' \in SUBSET Nodes
    BY <1>12, <2>1 DEF WriteNode, TypeOK
  <2>5. changes' \in Nat
    BY <1>12 DEF WriteNode, NodeChange, TypeOK
  <2> QED
    BY <1>12, <2>1, <2>3, <2>4, <2>5 DEF WriteNode, NodeChange, TypeOK
<1>13. ASSUME NEW n \in Nodes, NEW how \in {"delete", "unknown"}, DeleteNode(n, how)
       PROVE  TypeOK'
  <2>1. [type |-> how] \in NodeEvent /\ EmptyNode \in NodeObject
    BY DEF NodeEvent, EmptyNode, NodeObject
  <2>2. nodeQ' \in [Nodes -> Seq(NodeEvent)]
    BY <1>11, <1>13, <2>1 DEF DeleteNode
  <2>4. nodes' \in [Nodes -> NodeObject] /\ present' \in SUBSET Nodes
    BY <1>13, <2>1 DEF DeleteNode, TypeOK
  <2>5. changes' \in Nat
    BY <1>13 DEF DeleteNode, NodeChange, TypeOK
  <2> QED
    BY <1>13, <2>1, <2>2, <2>4, <2>5 DEF DeleteNode, NodeChange, TypeOK
<1>14. ASSUME NEW n \in Nodes, Heartbeat(n)
       PROVE  TypeOK'
  <2>1. [type |-> "upsert", obj |-> nodes[n]] \in NodeEvent
    BY DEF TypeOK, NodeEvent
  <2>2. nodeQ' \in [Nodes -> Seq(NodeEvent)]
    BY <1>11, <1>14, <2>1 DEF Heartbeat
  <2> QED
    BY <1>14, <2>2 DEF Heartbeat, TypeOK
<1>15. ASSUME Crash
       PROVE  TypeOK'
  <2>1. crashes' \in Nat
    BY <1>15 DEF Crash, TypeOK
  <2> QED
    BY <1>1, <1>15, <2>1 DEF Crash
<1>16. ASSUME Fault
       PROVE  TypeOK'
  <2>1. allocQ' \in [Nodes -> Seq(Version)]
    <3>1. ASSUME NEW n \in Nodes, allocQ[n] # <<>>,
                 allocQ' = [allocQ EXCEPT ![n] = Tail(@)]
          PROVE  allocQ' \in [Nodes -> Seq(Version)]
      BY <3>1 DEF TypeOK
    <3> QED
      BY <1>16, <3>1 DEF Fault, TypeOK
  <2>2. /\ cfg' \in CfgIdle \cup CfgSync \cup CfgWrite \cup CfgDel
        /\ alloc' \in CfgIdle \cup AllocList \cup AllocUpdate
    BY <1>0, <1>16 DEF Fault, TypeOK
  <2> QED
    BY <1>16, <2>1, <2>2 DEF Fault, TypeOK
<1>17. ASSUME UNCHANGED vars
       PROVE  TypeOK'
  BY <1>17 DEF vars, TypeOK
<1> QED
  BY <1>2, <1>3, <1>4, <1>5, <1>6, <1>7, <1>8, <1>9, <1>10, <1>12, <1>13, <1>14,
     <1>15, <1>16, <1>17 DEF Next, CfgStep, AllocStep, Environment

LEMMA TypeInit == Init => TypeOK
<1> SUFFICES ASSUME Init PROVE TypeOK
  OBVIOUS
<1>1. NoConfig \in Version /\ Idle \in CfgIdle /\ EmptyNode \in NodeObject
  BY DEF Version, Idle, CfgIdle, EmptyNode, NodeObject
<1>2. /\ nodeQ \in [Nodes -> Seq(NodeEvent)]
      /\ vsWatch \in [Nodes -> Seq(Version)] /\ allocQ \in [Nodes -> Seq(Version)]
  BY DEF Init
<1>3. /\ nodes \in [Nodes -> NodeObject]
      /\ configs \in [Nodes -> Version] /\ vsCache \in [Nodes -> Version]
  BY <1>1 DEF Init
<1>4. up \in BOOLEAN
  BY DEF Init
<1> QED
  BY <1>1, <1>2, <1>3, <1>4 DEF Init, TypeOK

\* In every reachable state of the controller all objects, queues, caches and
\* handler states are well typed.
THEOREM TypeCorrect == Spec => []TypeOK
BY TypeInit, TypeStep, PTL DEF Spec

-----------------------------------------------------------------------------
(* Coherence of the copies and uniqueness of the IDs                        *)

\* An accepted write makes every earlier version of the object out of date,
\* so a coherent copy stays coherent.
LEMMA StoredCoherent ==
  ASSUME TypeOK, NEW n \in Nodes, NEW d \in Version, d.rv \in {0, rev + 1},
         Stored(n, d), \A k \in Nodes : configs[k].rv <= rev,
         NEW m \in Nodes, NEW c \in Version, Coherent(m, c)
  PROVE  /\ c.rv <= rev'
         /\ Exists(c) /\ c.rv = configs'[m].rv => c.tunnelID = configs'[m].tunnelID
<1>1. c.rv \in Nat /\ rev \in Nat /\ c.rv <= rev
  BY ExistsConfig DEF Coherent, TypeOK
<1>2. c.rv <= rev'
  BY <1>1 DEF Stored
<1>3. CASE m # n
  BY <1>2, <1>3 DEF Coherent, Stored, TypeOK
<1>4. CASE m = n
  <2>1. configs'[m].rv \in {0, rev + 1}
    BY <1>4 DEF Stored, TypeOK
  <2>2. Exists(c) => c.rv # configs'[m].rv
    BY <1>1, <2>1 DEF Exists
  <2> QED
    BY <1>2, <2>2
<1> QED
  BY <1>3, <1>4

\* The informer's copies and the stored objects survive an accepted write.
LEMMA StoredCaches ==
  ASSUME TypeOK, CacheCoherent, NEW n \in Nodes, NEW d \in Version,
         d.rv \in {0, rev + 1}, Stored(n, d), vsCache' = vsCache
  PROVE  \A m \in Nodes :
           /\ configs'[m].rv <= rev'
           /\ Coherent(m, vsCache[m])'
           /\ \A i \in 1..Len(vsWatch'[m]) : Coherent(m, vsWatch[m][i])'
<1> SUFFICES ASSUME NEW m \in Nodes
             PROVE  /\ configs'[m].rv <= rev'
                    /\ Coherent(m, vsCache[m])'
                    /\ \A i \in 1..Len(vsWatch'[m]) : Coherent(m, vsWatch[m][i])'
  OBVIOUS
<1>0. rev \in Nat /\ rev' = rev + 1 /\ \A k \in Nodes : configs[k].rv <= rev
  BY DEF Stored, TypeOK, CacheCoherent
<1>1. configs'[n] = d /\ d.rv <= rev'
  BY <1>0 DEF Stored, TypeOK
<1>2. configs'[m].rv <= rev'
  <2>1. CASE m = n
    BY <1>1, <2>1
  <2>2. CASE m # n
    <3>1. configs'[m] = configs[m] /\ configs[m].rv \in Nat
      BY <2>2, ExistsConfig DEF Stored, TypeOK
    <3> QED
      BY <1>0, <3>1
  <2> QED
    BY <2>1, <2>2
<1>3. Coherent(m, vsCache[m])'
  <2>1. vsCache[m] \in Version /\ Coherent(m, vsCache[m])
    BY DEF TypeOK, CacheCoherent
  <2> QED
    BY <1>0, <2>1, StoredCoherent DEF Coherent, Exists
<1>4. ASSUME NEW i \in 1..Len(vsWatch'[m])
      PROVE  Coherent(m, vsWatch[m][i])'
  <2>1. CASE m # n \/ i <= Len(vsWatch[m])
    <3>1. i \in 1..Len(vsWatch[m]) /\ vsWatch'[m][i] = vsWatch[m][i]
      BY <1>4, <2>1 DEF Stored, TypeOK
    <3>2. vsWatch[m][i] \in Version /\ Coherent(m, vsWatch[m][i])
      BY <3>1 DEF TypeOK, CacheCoherent
    <3> QED
      BY <1>0, <3>1, <3>2, StoredCoherent DEF Coherent, Exists
  <2>2. CASE m = n /\ ~(i <= Len(vsWatch[m]))
    <3>1. vsWatch'[m][i] = d
      BY <1>4, <2>2 DEF Stored, TypeOK
    <3> QED
      BY <1>1, <2>2, <3>1 DEF Coherent
  <2> QED
    BY <2>1, <2>2
<1> QED
  BY <1>2, <1>3, <1>4

\* What the write of the vswitchcfg handler does to its object: it removes it,
\* creates it without an ID, or keeps the ID it has.
LEMMA CfgWriteEffect ==
  ASSUME IndInv, WriteVSwitchConfig
  PROVE  /\ cfg.node \in Nodes
         /\ \/ Refused
            \/ Stored(cfg.node, NoConfig)
            \/ \E d \in Config :
                 /\ Stored(cfg.node, d)
                 /\ d.rv = rev + 1
                 /\ \/ ~Exists(configs[cfg.node]) /\ d.tunnelID = 0
                    \/ /\ Exists(configs[cfg.node])
                       /\ d.tunnelID = configs[cfg.node].tunnelID
<1> DEFINE n == cfg.node
           d == [cfg.new EXCEPT !.rv = rev + 1]
<1>1. TypeOK /\ CacheCoherent
  BY DEF IndInv, CopiesCoherent
<1>2. n \in Nodes
  BY <1>1, CfgCases DEF WriteVSwitchConfig
<1>3. cfg.pc \in {"create", "update"}
        => cfg.new \in Config /\ d \in Config /\ d.rv = rev + 1
                              /\ d.tunnelID = cfg.new.tunnelID
  <2>1. rev + 1 \in Nat \ {0}
    BY <1>1 DEF TypeOK
  <2> QED
    BY <1>1, <2>1, CfgCases DEF Config
<1>4. CASE cfg.pc = "create" /\ APICreate(n, cfg.new)
  <2>1. cfg.new.tunnelID = 0
    BY <1>1, <1>4 DEF CacheCoherent
  <2> QED
    BY <1>2, <1>3, <1>4, <2>1 DEF APICreate
<1>5. CASE cfg.pc = "update" /\ APIUpdate(n, cfg.new)
  <2>1. Exists(cfg.new) /\ Coherent(n, cfg.new)
    BY <1>1, <1>3, <1>5 DEF CacheCoherent, Exists, Config
  <2>2. CASE configs[n].rv = cfg.new.rv
    <3>1. Exists(configs[n]) /\ cfg.new.tunnelID = configs[n].tunnelID
      BY <2>1, <2>2 DEF Coherent, Exists
    <3> QED
      BY <1>2, <1>3, <1>5, <2>2, <3>1 DEF APIUpdate
  <2> QED
    BY <1>2, <1>5, <2>2 DEF APIUpdate
<1>6. CASE cfg.pc = "delete" /\ APIDelete(n)
  BY <1>2, <1>6 DEF APIDelete
<1> QED
  BY <1>4, <1>5, <1>6 DEF WriteVSwitchConfig

\* What the write of the allocator does: it fills in an ID that was free in
\* its list, in an object that has none and is otherwise as it was read.
LEMMA AllocWriteEffect ==
  ASSUME IndInv, UpdateTunnelID
  PROVE  /\ alloc.node \in Nodes
         /\ \/ Refused
            \/ \E id \in MinTunnelID..(MaxTunnelID + 1) :
                 LET d == [configs[alloc.node] EXCEPT !.tunnelID = id, !.rv = rev + 1]
                 IN  /\ id \in Nat /\ FirstUnused(id, alloc.taken)
                     /\ Stored(alloc.node, d)
                     /\ configs[alloc.node] \in Config
                     /\ configs[alloc.node].tunnelID = 0
                     /\ d \in Config /\ d.rv = rev + 1 /\ d.tunnelID = id
<1> DEFINE n == alloc.node
<1>1. TypeOK /\ AllocCoherent
  BY DEF IndInv, CopiesCoherent
<1>2. n \in Nodes /\ alloc.obj \in Config
  BY <1>1, AllocCases DEF UpdateTunnelID
<1>3. PICK id \in MinTunnelID..(MaxTunnelID + 1) :
        /\ FirstUnused(id, alloc.taken)
        /\ APIUpdate(n, [alloc.obj EXCEPT !.tunnelID = id])
  BY DEF UpdateTunnelID
<1>4. id \in Nat /\ rev + 1 \in Nat \ {0}
  BY <1>1, PoolAssumption DEF TypeOK
<1>5. [alloc.obj EXCEPT !.tunnelID = id].rv = alloc.obj.rv
  BY <1>2 DEF Config
<1>6. CASE configs[n].rv = alloc.obj.rv
  <2>1. configs[n] = alloc.obj /\ alloc.obj.tunnelID = 0
    BY <1>1, <1>6 DEF AllocCoherent, UpdateTunnelID
  <2> DEFINE d == [alloc.obj EXCEPT !.tunnelID = id, !.rv = rev + 1]
  <2>2. d = [[alloc.obj EXCEPT !.tunnelID = id] EXCEPT !.rv = rev + 1]
    BY <1>2 DEF Config
  <2>3. d \in Config /\ d.rv = rev + 1 /\ d.tunnelID = id
    BY <1>2, <1>4 DEF Config
  <2>4. Stored(n, d)
    BY <1>3, <1>5, <1>6, <2>2 DEF APIUpdate
  <2> QED
    BY <1>2, <1>3, <1>4, <2>1, <2>3, <2>4
<1>7. CASE configs[n].rv # alloc.obj.rv
  BY <1>2, <1>3, <1>5, <1>7 DEF APIUpdate
<1> QED
  BY <1>6, <1>7

\* Every copy is a safe basis for a write after every step.
LEMMA CacheStep ==
  ASSUME IndInv, [Next]_vars
  PROVE  CacheCoherent'
<1>0. TypeOK /\ CacheCoherent
  BY DEF IndInv, CopiesCoherent
<1>1. ASSUME UNCHANGED <<configs, rev, vsCache, vsWatch>>,
             UNCHANGED cfg \/ cfg'.pc \in {"idle", "sync", "delete"}
      PROVE  CacheCoherent'
  BY <1>0, <1>1 DEF CacheCoherent, Coherent, Exists
<1>2. ASSUME Stop, UNCHANGED <<configs, rev>>
      PROVE  CacheCoherent'
  BY <1>0, <1>2 DEF Stop, TypeOK, CacheCoherent, Coherent, Exists, Idle, NoConfig
<1>3. ASSUME NEW n \in Nodes, HandleNode(n)
      PROVE  CacheCoherent'
  <2>1. CASE OnUpsert(n, Head(nodeQ[n]))
    <3>1. cfg'.pc \in {"idle", "sync"}
      BY <2>1 DEF OnUpsert, Idle
    <3> QED
      BY <1>1, <1>3, <2>1, <3>1 DEF HandleNode, OnUpsert
  <2>2. CASE OnDelete(n, Head(nodeQ[n]))
    BY <1>1, <1>3, <2>2 DEF HandleNode, OnDelete
  <2>3. CASE OnDeleteUnknown(Head(nodeQ[n]))
    BY <1>2, <1>3, <2>3 DEF HandleNode, OnDeleteUnknown
  <2> QED
    BY <1>3, <2>1, <2>2, <2>3 DEF HandleNode
<1>4. ASSUME SyncVSwitchConfig
      PROVE  CacheCoherent'
  <2> DEFINE o == cfg.obj
             c == vsCache[cfg.node]
  <2>1. cfg.node \in Nodes
    BY <1>0, <1>4, CfgCases DEF SyncVSwitchConfig
  <2>2. c \in Version /\ Coherent(cfg.node, c)
    BY <1>0, <2>1 DEF TypeOK, CacheCoherent
  <2>3. CASE cfg' = Idle
    BY <1>1, <1>4, <2>3 DEF SyncVSwitchConfig, Idle
  <2>4. CASE Exists(c) /\ cfg' = [pc |-> "update", node |-> cfg.node, new |-> Refreshed(c, o)]
    <3>1. c \in Config
      BY <2>2, <2>4, ExistsConfig
    <3>2. Refreshed(c, o).rv = c.rv /\ Refreshed(c, o).tunnelID = c.tunnelID
      BY <3>1 DEF Refreshed, Config
    <3>3. Coherent(cfg.node, Refreshed(c, o))
      BY <2>2, <3>2 DEF Coherent, Exists
    <3>4. cfg'.pc = "update" /\ cfg'.node = cfg.node /\ cfg'.new = Refreshed(c, o)
      BY <2>4
    <3>5. UNCHANGED <<configs, rev, vsCache, vsWatch>>
      BY <1>4 DEF SyncVSwitchConfig
    <3>6. Coherent(cfg.node, cfg.new)'
      BY <3>3, <3>4, <3>5 DEF Coherent, Exists
    <3> QED
      BY <1>0, <3>4, <3>5, <3>6 DEF CacheCoherent, Coherent, Exists
  <2>5. CASE cfg' = [pc |-> "create", node |-> cfg.node, new |-> NodeToVSwitchConfig(o)]
    <3>1. cfg'.pc = "create" /\ cfg'.new.tunnelID = 0
      BY <2>5 DEF NodeToVSwitchConfig
    <3> QED
      BY <1>0, <1>4, <3>1 DEF SyncVSwitchConfig, CacheCoherent, Coherent, Exists
  <2> QED
    BY <1>4, <2>3, <2>4, <2>5 DEF SyncVSwitchConfig
<1>5. ASSUME WriteVSwitchConfig
      PROVE  CacheCoherent'
  <2>1. cfg'.pc = "idle" /\ vsCache' = vsCache
    BY <1>5 DEF WriteVSwitchConfig, Idle
  <2>2. CASE Refused
    BY <1>1, <2>1, <2>2 DEF Refused
  <2>3. ASSUME NEW d \in Version, d.rv \in {0, rev + 1}, Stored(cfg.node, d)
        PROVE  CacheCoherent'
    <3>1. cfg.node \in Nodes
      BY <1>5, CfgWriteEffect
    <3> QED
      BY <1>0, <2>1, <2>3, <3>1, StoredCaches DEF CacheCoherent
  <2>4. NoConfig \in Version /\ NoConfig.rv = 0 /\ Config \subseteq Version
    BY DEF NoConfig, Version
  <2> QED
    BY <1>5, <2>2, <2>3, <2>4, CfgWriteEffect
<1>6. ASSUME UpdateTunnelID
      PROVE  CacheCoherent'
  <2>1. cfg' = cfg /\ vsCache' = vsCache
    BY <1>6 DEF UpdateTunnelID
  <2>2. CASE Refused
    BY <1>1, <2>1, <2>2 DEF Refused
  <2>3. ASSUME NEW d \in Config, d.rv = rev + 1, Stored(alloc.node, d)
        PROVE  CacheCoherent'
    <3>1. alloc.node \in Nodes /\ d \in Version
      BY <1>6, AllocWriteEffect DEF Version
    <3>2. ASSUME cfg.pc = "update"
          PROVE  Coherent(cfg.node, cfg.new)'
      <4>1. cfg.node \in Nodes /\ cfg.new \in Version /\ Coherent(cfg.node, cfg.new)
        BY <1>0, <3>2, CfgCases DEF CacheCoherent, Version
      <4>2. \A k \in Nodes : configs[k].rv <= rev
        BY <1>0 DEF CacheCoherent
      <4> QED
        BY <1>0, <2>1, <2>3, <3>1, <4>1, <4>2, StoredCoherent DEF Coherent, Exists
    <3> QED
      BY <1>0, <2>1, <2>3, <3>1, <3>2, StoredCaches DEF CacheCoherent
  <2> QED
    BY <1>6, <2>2, <2>3, AllocWriteEffect
<1>7. ASSUME NEW n \in Nodes, ApplyWatch(n)
      PROVE  CacheCoherent'
  <2>1. vsWatch[n] \in Seq(Version) /\ vsWatch[n] # <<>>
    BY <1>0, <1>7 DEF ApplyWatch, TypeOK
  <2>2. Coherent(n, Head(vsWatch[n]))
    BY <1>0, <2>1 DEF CacheCoherent
  <2>3. UNCHANGED <<configs, rev, cfg>>
    BY <1>7 DEF ApplyWatch
  <2>4. ASSUME NEW m \in Nodes PROVE Coherent(m, vsCache[m])'
    BY <1>0, <1>7, <2>2, <2>3 DEF ApplyWatch, TypeOK, CacheCoherent, Coherent, Exists
  <2>5. ASSUME NEW m \in Nodes, NEW i \in 1..Len(vsWatch'[m])
        PROVE  Coherent(m, vsWatch[m][i])'
    <3>1. CASE m # n
      BY <1>0, <1>7, <2>3, <2>5, <3>1 DEF ApplyWatch, TypeOK, CacheCoherent, Coherent, Exists
    <3>2. CASE m = n
      <4>1. vsWatch'[m] = Tail(vsWatch[n])
        BY <1>0, <1>7, <3>2 DEF ApplyWatch, TypeOK
      <4>2. i + 1 \in 1..Len(vsWatch[n]) /\ vsWatch'[m][i] = vsWatch[n][i + 1]
        BY <2>1, <2>5, <4>1
      <4>3. Coherent(n, vsWatch[n][i + 1])
        BY <1>0, <4>2 DEF CacheCoherent
      <4> QED
        BY <2>3, <3>2, <4>2, <4>3 DEF Coherent, Exists
    <3> QED
      BY <3>1, <3>2
  <2>6. /\ \A m \in Nodes : configs'[m].rv <= rev'
        /\ cfg'.pc = "update" => Coherent(cfg.node, cfg.new)'
        /\ cfg'.pc = "create" => cfg'.new.tunnelID = 0
    BY <1>0, <2>3 DEF CacheCoherent, Coherent, Exists
  <2> QED
    BY <2>4, <2>5, <2>6 DEF CacheCoherent
<1>8. ASSUME UNCHANGED <<configs, rev, vsCache, cfg>>,
             \A m \in Nodes : vsWatch'[m] \in {<<>>, <<configs[m]>>}
      PROVE  CacheCoherent'
  <2>1. ASSUME NEW m \in Nodes, NEW i \in 1..Len(vsWatch'[m])
        PROVE  Coherent(m, vsWatch[m][i])'
    <3>1. vsWatch'[m][i] = configs[m]
      BY <1>8, <2>1
    <3> QED
      BY <1>0, <1>8, <3>1 DEF Coherent, CacheCoherent
  <2> QED
    BY <1>0, <1>8, <2>1 DEF CacheCoherent, Coherent, Exists
<1>9. ASSUME Relist \/ Start
      PROVE  CacheCoherent'
  BY <1>8, <1>9 DEF Relist, Start
<1>10. ASSUME Crash
       PROVE  CacheCoherent'
  BY <1>2, <1>10 DEF Crash
<1>11. ASSUME Fault
       PROVE  CacheCoherent'
  BY <1>1, <1>11 DEF Fault, Idle
<1> QED
  BY <1>1, <1>3, <1>4, <1>5, <1>6, <1>7, <1>9, <1>10, <1>11
  DEF Next, CfgStep, AllocStep, Environment, AllocGet, GetCurrentTunnelIDs,
      WriteNode, DeleteNode, NodeChange, Heartbeat, vars

\* What the allocator read stays usable, and its list never misses an ID that
\* is in use.
LEMMA AllocCoherentStep ==
  ASSUME IndInv, [Next]_vars
  PROVE  AllocCoherent' /\ TakenCoversAll'
<1>0. TypeOK /\ CacheCoherent /\ AllocCoherent /\ TakenCoversAll
  BY DEF IndInv, CopiesCoherent
<1>1. ASSUME UNCHANGED <<configs, rev>>, UNCHANGED alloc \/ alloc'.pc = "idle"
      PROVE  AllocCoherent' /\ TakenCoversAll'
  BY <1>0, <1>1 DEF AllocCoherent, TakenCoversAll, Exists
<1>2. ASSUME WriteVSwitchConfig
      PROVE  AllocCoherent' /\ TakenCoversAll'
  <2> DEFINE n == cfg.node
  <2>0. alloc' = alloc /\ n \in Nodes
    BY <1>2, CfgWriteEffect DEF WriteVSwitchConfig
  <2>1. CASE Refused
    BY <1>1, <2>0, <2>1 DEF Refused
  <2>2. ASSUME NEW d \in Version, Stored(n, d), d.rv \in {0, rev + 1},
               Exists(d) => \/ d.tunnelID = 0
                            \/ /\ Exists(configs[n])
                               /\ d.tunnelID = configs[n].tunnelID
        PROVE  AllocCoherent' /\ TakenCoversAll'
    <3>1. /\ configs' = [configs EXCEPT ![n] = d] /\ rev' = rev + 1
          /\ configs \in [Nodes -> Version] /\ rev \in Nat
      BY <1>0, <2>2 DEF Stored, TypeOK
    <3>2. AllocCoherent'
      <4> SUFFICES ASSUME alloc.pc \in {"list", "update"}
                   PROVE  /\ alloc.obj.rv <= rev'
                          /\ alloc.obj.tunnelID = 0
                          /\ Exists(configs'[alloc.node])
                               => configs'[alloc.node].tunnelID = 0
                          /\ alloc.obj.rv = configs'[alloc.node].rv
                               => alloc.obj = configs'[alloc.node]
        BY <2>0 DEF AllocCoherent, Exists
      <4>1. alloc.node \in Nodes /\ alloc.obj.rv \in Nat \ {0}
        BY <1>0, AllocCases DEF Config
      <4>2. /\ alloc.obj.rv <= rev /\ alloc.obj.tunnelID = 0
            /\ Exists(configs[alloc.node]) => configs[alloc.node].tunnelID = 0
            /\ alloc.obj.rv = configs[alloc.node].rv => alloc.obj = configs[alloc.node]
        BY <1>0 DEF AllocCoherent
      <4>3. CASE alloc.node # n
        BY <3>1, <4>1, <4>2, <4>3
      <4>4. CASE alloc.node = n
        <5>1. configs'[alloc.node] = d /\ alloc.obj.rv # d.rv
          BY <2>2, <3>1, <4>1, <4>2, <4>4
        <5>2. Exists(d) => d.tunnelID = 0
          BY <2>2, <4>2, <4>4
        <5> QED
          BY <3>1, <4>1, <4>2, <5>1, <5>2
      <4> QED
        BY <4>3, <4>4
    <3>3. TakenCoversAll'
      <4> SUFFICES ASSUME alloc.pc = "update", NEW m \in Nodes,
                          Exists(configs'[m]), ValidateTunnelID(configs'[m].tunnelID)
                   PROVE  configs'[m].tunnelID \in alloc.taken
        BY <2>0 DEF TakenCoversAll, Exists, ValidateTunnelID
      <4>1. \A k \in Nodes : Exists(configs[k]) /\ ValidateTunnelID(configs[k].tunnelID)
                              => configs[k].tunnelID \in alloc.taken
        BY <1>0 DEF TakenCoversAll
      <4>2. CASE m # n
        BY <3>1, <4>1, <4>2
      <4>3. CASE m = n
        <5>1. configs'[m] = d /\ ~ValidateTunnelID(0)
          BY <3>1, <4>3, PoolAssumption DEF ValidateTunnelID
        <5> QED
          BY <2>0, <2>2, <4>1, <5>1
      <4> QED
        BY <4>2, <4>3
    <3> QED
      BY <3>2, <3>3
  <2>3. /\ NoConfig \in Version /\ NoConfig.rv = 0 /\ ~Exists(NoConfig)
        /\ Config \subseteq Version
    BY DEF NoConfig, Version, Exists
  <2> QED
    BY <1>2, <2>1, <2>2, <2>3, CfgWriteEffect
<1>3. ASSUME NEW n \in Nodes, AllocGet(n)
      PROVE  AllocCoherent' /\ TakenCoversAll'
  <2>1. CASE alloc' = Idle
    BY <1>1, <1>3, <2>1 DEF AllocGet, Idle
  <2>2. CASE /\ alloc' = [pc |-> "list", node |-> n, obj |-> configs[n]]
             /\ configs[n].tunnelID = 0
    BY <1>0, <1>3, <2>2 DEF AllocGet, AllocCoherent, TakenCoversAll, CacheCoherent
  <2> QED
    BY <1>3, <2>1, <2>2 DEF AllocGet, NeedsTunnelID, ToAllocate
<1>4. ASSUME GetCurrentTunnelIDs
      PROVE  AllocCoherent' /\ TakenCoversAll'
  <2>1. /\ alloc'.pc = "update" /\ alloc'.node = alloc.node /\ alloc'.obj = alloc.obj
        /\ alloc'.taken = CurrentTunnelIDs /\ alloc.pc = "list"
        /\ UNCHANGED <<configs, rev>>
    BY <1>4 DEF GetCurrentTunnelIDs
  <2>2. AllocCoherent'
    BY <1>0, <2>1 DEF AllocCoherent, Exists
  <2>3. ASSUME NEW m \in Nodes, Exists(configs[m]), ValidateTunnelID(configs[m].tunnelID)
        PROVE  configs[m].tunnelID \in CurrentTunnelIDs
    <3>0. configs[m] \in Config
      BY <1>0, <2>3, ExistsConfig DEF TypeOK
    <3>1. configs[m].tunnelID \in Nat
      BY <3>0 DEF Config
    <3>2. configs[m].tunnelID \in MinTunnelID..MaxTunnelID
      BY <2>3, <3>1, PoolAssumption DEF ValidateTunnelID
    <3> QED
      BY <2>3, <3>2 DEF CurrentTunnelIDs
  <2> QED
    BY <2>1, <2>2, <2>3 DEF TakenCoversAll, Exists, ValidateTunnelID
<1>5. ASSUME UpdateTunnelID
      PROVE  AllocCoherent' /\ TakenCoversAll'
  BY <1>5 DEF UpdateTunnelID, AllocCoherent, TakenCoversAll, Idle
<1>6. ASSUME Stop, UNCHANGED <<configs, rev>>
      PROVE  AllocCoherent' /\ TakenCoversAll'
  BY <1>1, <1>6 DEF Stop, Idle
<1>7. ASSUME NEW n \in Nodes, HandleNode(n)
      PROVE  AllocCoherent' /\ TakenCoversAll'
  BY <1>1, <1>6, <1>7 DEF HandleNode, OnUpsert, OnDelete, OnDeleteUnknown
<1>8. ASSUME Crash \/ Fault
      PROVE  AllocCoherent' /\ TakenCoversAll'
  BY <1>1, <1>6, <1>8 DEF Crash, Fault, Idle
<1> QED
  BY <1>1, <1>2, <1>3, <1>4, <1>5, <1>7, <1>8
  DEF Next, CfgStep, AllocStep, Environment, SyncVSwitchConfig, ApplyWatch, Relist,
      Start, WriteNode, DeleteNode, NodeChange, Heartbeat, vars

\* Only the two writing steps touch the stored objects.
LEMMA OnlyWritersWrite ==
  ASSUME [Next]_vars
  PROVE  WriteVSwitchConfig \/ UpdateTunnelID \/ UNCHANGED <<configs, rev>>
BY DEF Next, CfgStep, AllocStep, Environment, HandleNode, SyncVSwitchConfig, AllocGet,
       GetCurrentTunnelIDs, ApplyWatch, Relist, Start, WriteNode, DeleteNode,
       NodeChange, Heartbeat, Crash, Fault, vars

\* No step gives two configs the same ID.
LEMMA UniqueStep ==
  ASSUME IndInv, [Next]_vars
  PROVE  TunnelIDsUnique'
<1>0. TypeOK /\ TunnelIDsUnique /\ TakenCoversAll
  BY DEF IndInv, CopiesCoherent
<1>1. CASE UNCHANGED configs
  BY <1>0, <1>1 DEF TunnelIDsUnique, Exists, ValidateTunnelID
\* a write whose ID is 0, is kept, or is nobody else's
<1>2. ASSUME NEW n \in Nodes, NEW d \in Version, Stored(n, d),
             Exists(d) /\ ValidateTunnelID(d.tunnelID) =>
               \A m \in Nodes \ {n} :
                 Exists(configs[m]) => configs[m].tunnelID # d.tunnelID
      PROVE  TunnelIDsUnique'
  <2>1. configs' = [configs EXCEPT ![n] = d] /\ configs \in [Nodes -> Version]
    BY <1>0, <1>2 DEF Stored, TypeOK
  <2> SUFFICES ASSUME NEW k \in Nodes, NEW l \in Nodes, k # l,
                      Exists(configs'[k]), Exists(configs'[l]),
                      ValidateTunnelID(configs'[k].tunnelID),
                      configs'[k].tunnelID = configs'[l].tunnelID
               PROVE  FALSE
    BY DEF TunnelIDsUnique, Exists, ValidateTunnelID
  <2>2. CASE k = n \/ l = n
    BY <1>2, <2>1, <2>2
  <2>3. CASE k # n /\ l # n
    BY <1>0, <2>1, <2>3 DEF TunnelIDsUnique
  <2> QED
    BY <2>2, <2>3
<1>3. CASE WriteVSwitchConfig
  <2> DEFINE n == cfg.node
  <2>1. ASSUME NEW d \in Config, Stored(n, d),
               \/ d.tunnelID = 0
               \/ Exists(configs[n]) /\ d.tunnelID = configs[n].tunnelID
        PROVE  TunnelIDsUnique'
    <3>1. n \in Nodes /\ d \in Version /\ ~ValidateTunnelID(0)
      BY <1>3, CfgWriteEffect, PoolAssumption DEF Version, ValidateTunnelID
    <3>2. CASE d.tunnelID = 0
      BY <1>2, <2>1, <3>1, <3>2
    <3>3. CASE Exists(configs[n]) /\ d.tunnelID = configs[n].tunnelID
      <4>1. ASSUME NEW m \in Nodes \ {n}, ValidateTunnelID(d.tunnelID), Exists(configs[m])
            PROVE  configs[m].tunnelID # d.tunnelID
        BY <1>0, <3>1, <3>3, <4>1 DEF TunnelIDsUnique
      <4> QED
        BY <1>2, <2>1, <3>1, <4>1
    <3> QED
      BY <2>1, <3>2, <3>3
  <2>2. CASE Stored(n, NoConfig)
    <3>1. NoConfig \in Version /\ ~Exists(NoConfig)
      BY DEF NoConfig, Version, Exists
    <3> QED
      BY <1>2, <1>3, <2>2, <3>1, CfgWriteEffect
  <2>3. CASE Refused
    BY <1>1, <2>3 DEF Refused
  <2> QED
    BY <1>3, <2>1, <2>2, <2>3, CfgWriteEffect
<1>4. CASE UpdateTunnelID
  <2> DEFINE n == alloc.node
  <2>1. ASSUME NEW d \in Config, NEW id \in Nat, FirstUnused(id, alloc.taken),
               Stored(n, d), d.tunnelID = id
        PROVE  TunnelIDsUnique'
    <3>1. n \in Nodes /\ d \in Version /\ alloc.pc = "update"
      BY <1>4, AllocWriteEffect DEF Version, UpdateTunnelID
    <3>2. ASSUME NEW m \in Nodes \ {n}, ValidateTunnelID(id), Exists(configs[m]),
                 configs[m].tunnelID = id
          PROVE  FALSE
      <4>1. id \in alloc.taken
        BY <1>0, <3>1, <3>2 DEF TakenCoversAll
      <4>2. id \notin alloc.taken
        BY <2>1, <3>2, PoolAssumption DEF FirstUnused, ValidateTunnelID
      <4> QED
        BY <4>1, <4>2
    <3>3. ASSUME ValidateTunnelID(d.tunnelID), NEW m \in Nodes \ {n}, Exists(configs[m])
          PROVE  configs[m].tunnelID # d.tunnelID
      BY <2>1, <3>2, <3>3
    <3> QED
      BY <1>2, <2>1, <3>1, <3>3
  <2>2. CASE Refused
    BY <1>1, <2>2 DEF Refused
  <2> QED
    BY <1>4, <2>1, <2>2, AllocWriteEffect
<1> QED
  BY <1>1, <1>3, <1>4, OnlyWritersWrite

LEMMA IndInvInit == Init => IndInv
<1> SUFFICES ASSUME Init PROVE IndInv
  OBVIOUS
<1>1. TypeOK
  BY TypeInit
<1>2. CacheCoherent
  BY DEF Init, CacheCoherent, Coherent, Exists, NoConfig, Idle
<1>3. AllocCoherent /\ TakenCoversAll
  BY DEF Init, AllocCoherent, TakenCoversAll, Idle
<1>4. TunnelIDsUnique
  BY DEF Init, TunnelIDsUnique, Exists, NoConfig
<1> QED
  BY <1>1, <1>2, <1>3, <1>4 DEF IndInv, CopiesCoherent

LEMMA IndInvStep == IndInv /\ [Next]_vars => IndInv'
<1> SUFFICES ASSUME IndInv, [Next]_vars PROVE IndInv'
  OBVIOUS
<1>1. TypeOK'
  BY TypeStep DEF IndInv
<1> QED
  BY <1>1, CacheStep, AllocCoherentStep, UniqueStep DEF IndInv, CopiesCoherent

LEMMA IndInvHolds == Spec => []IndInv
BY IndInvInit, IndInvStep, PTL DEF Spec

\* Every copy of a VSwitchConfig in the controller's memory is a safe basis
\* for a write, whatever crashes, relists and refused writes came before.
THEOREM CopiesAlwaysCoherent == Spec => []CopiesCoherent
<1>1. IndInv => CopiesCoherent
  BY DEF IndInv
<1> QED
  BY <1>1, IndInvHolds, PTL

\* allocateTunnelID never gives two VSwitchConfigs the same ID, for any number
\* of nodes and any pool of IDs.
THEOREM UniqueTunnelIDs == Spec => []TunnelIDsUnique
<1>1. IndInv => TunnelIDsUnique
  BY DEF IndInv
<1> QED
  BY <1>1, IndInvHolds, PTL

\* An allocated ID stays for the life of its VSwitchConfig: no write of either
\* handler changes or clears it.
THEOREM StableTunnelIDs == Spec => TunnelIDStable
<1> DEFINE Stable == \A n \in Nodes :
             Exists(configs[n]) /\ Exists(configs'[n]) /\ configs[n].tunnelID # 0
               => configs'[n].tunnelID = configs[n].tunnelID
<1>1. ASSUME IndInv, [Next]_vars
      PROVE  Stable
  <2>1. TypeOK /\ configs \in [Nodes -> Version]
    BY <1>1 DEF IndInv, TypeOK
  <2>2. CASE UNCHANGED configs
    BY <2>2
  <2>3. CASE WriteVSwitchConfig
    <3>1. ~Exists(NoConfig)
      BY DEF Exists, NoConfig
    <3> QED
      BY <1>1, <2>1, <2>2, <2>3, <3>1, CfgWriteEffect DEF Stored, Refused
  <2>4. CASE UpdateTunnelID
    BY <1>1, <2>1, <2>2, <2>4, AllocWriteEffect DEF Stored, Refused
  <2> QED
    BY <1>1, <2>2, <2>3, <2>4, OnlyWritersWrite
<1>2. IndInv /\ [Next]_vars => [Stable]_vars
  BY <1>1
<1> QED
  BY <1>2, IndInvHolds, PTL DEF Spec, TunnelIDStable

\* Neither handler overwrites what the other one wrote: a write changes the
\* node's data or the tunnel ID, never both.
THEOREM NoUpdateLost == Spec => NoLostUpdate
<1> DEFINE Kept == \A n \in Nodes :
             Exists(configs[n]) /\ Exists(configs'[n])
               => \/ configs'[n].tunnelID = configs[n].tunnelID
                  \/ [configs'[n] EXCEPT !.tunnelID = 0, !.rv = 0]
                       = [configs[n] EXCEPT !.tunnelID = 0, !.rv = 0]
<1>1. ASSUME IndInv, [Next]_vars
      PROVE  Kept
  <2>1. TypeOK /\ configs \in [Nodes -> Version]
    BY <1>1 DEF IndInv, TypeOK
  <2>2. CASE UNCHANGED configs
    BY <2>2
  <2>3. CASE WriteVSwitchConfig
    <3>1. ~Exists(NoConfig)
      BY DEF Exists, NoConfig
    <3> QED
      BY <1>1, <2>1, <2>2, <2>3, <3>1, CfgWriteEffect DEF Stored, Refused
  <2>4. CASE UpdateTunnelID
    <3>1. ASSUME NEW c \in Config, NEW id \in Nat, NEW r \in Nat
          PROVE  [[c EXCEPT !.tunnelID = id, !.rv = r] EXCEPT !.tunnelID = 0, !.rv = 0]
                   = [c EXCEPT !.tunnelID = 0, !.rv = 0]
      BY DEF Config
    <3>2. rev + 1 \in Nat
      BY <2>1 DEF TypeOK
    <3>3. ASSUME NEW id \in Nat, alloc.node \in Nodes, configs[alloc.node] \in Config,
                 Stored(alloc.node,
                        [configs[alloc.node] EXCEPT !.tunnelID = id, !.rv = rev + 1])
          PROVE  Kept
      <4>1. \A m \in Nodes \ {alloc.node} : configs'[m] = configs[m]
        BY <2>1, <3>3 DEF Stored
      <4>2. configs'[alloc.node]
              = [configs[alloc.node] EXCEPT !.tunnelID = id, !.rv = rev + 1]
        BY <2>1, <3>3 DEF Stored
      <4>3. [configs'[alloc.node] EXCEPT !.tunnelID = 0, !.rv = 0]
              = [configs[alloc.node] EXCEPT !.tunnelID = 0, !.rv = 0]
        BY <3>1, <3>2, <3>3, <4>2
      <4> QED
        BY <4>1, <4>3
    <3>4. CASE Refused
      BY <2>2, <3>4 DEF Refused
    <3> QED
      BY <1>1, <2>4, <3>3, <3>4, AllocWriteEffect
  <2> QED
    BY <1>1, <2>2, <2>3, <2>4, OnlyWritersWrite
<1>2. IndInv /\ [Next]_vars => [Kept]_vars
  BY <1>1
<1> QED
  BY <1>2, IndInvHolds, PTL DEF Spec, NoLostUpdate

-----------------------------------------------------------------------------
(* The pool does not run dry while it is as large as the set of nodes       *)

\* The config the allocator works on has no ID, so the others cannot hold
\* every ID of the pool.
LEMMA FreeIDListed ==
  ASSUME EnoughIDs, IndInv, alloc.pc = "list"
  PROVE  ~(MinTunnelID..MaxTunnelID \subseteq CurrentTunnelIDs)
<1> DEFINE Pool == MinTunnelID..MaxTunnelID
           Others == Nodes \ {alloc.node}
           owner == [id \in Pool |-> CHOOSE m \in Others :
                       Exists(configs[m]) /\ configs[m].tunnelID = id]
<1> SUFFICES ASSUME Pool \subseteq CurrentTunnelIDs PROVE FALSE
  OBVIOUS
<1>1. TypeOK /\ AllocCoherent /\ alloc.node \in Nodes
  BY AllocCases DEF IndInv, CopiesCoherent
<1>2. ASSUME NEW id \in Pool
      PROVE  \E m \in Others : Exists(configs[m]) /\ configs[m].tunnelID = id
  <2>1. PICK m \in Nodes : Exists(configs[m]) /\ configs[m].tunnelID = id
    BY DEF CurrentTunnelIDs
  <2>2. id # 0
    BY PoolAssumption
  <2>3. m # alloc.node
    BY <1>1, <2>1, <2>2 DEF AllocCoherent
  <2> QED
    BY <2>1, <2>3
<1>3. owner \in [Pool -> Others]
  BY <1>2
<1>4. ASSUME NEW x \in Pool, NEW y \in Pool, owner[x] = owner[y]
      PROVE  x = y
  <2>1. configs[owner[x]].tunnelID = x /\ configs[owner[y]].tunnelID = y
    BY <1>2
  <2> QED
    BY <1>4, <2>1
<1>5. IsFiniteSet(Others) /\ Cardinality(Others) = Cardinality(Nodes) - 1
  BY <1>1, FS_RemoveElement DEF EnoughIDs
<1>6. IsFiniteSet(Pool) /\ Cardinality(Pool) = MaxTunnelID - MinTunnelID + 1
  BY FS_Interval, PoolAssumption
<1>7. Cardinality(Nodes) \in Nat
  BY FS_CardinalityType DEF EnoughIDs
<1>8. Cardinality(Others) < Cardinality(Pool)
  BY <1>5, <1>6, <1>7, PoolAssumption DEF EnoughIDs
<1> HIDE DEF Pool, Others, owner
<1>9. \E x, y \in Pool : x # y /\ owner[x] = owner[y]
  BY <1>3, <1>5, <1>6, <1>8, FS_PigeonHole
<1> QED
  BY <1>4, <1>9

\* The search for an ID always succeeds, and every ID handed out is valid.
LEMMA ValidStep ==
  ASSUME EnoughIDs, IndInv, FreeID, TunnelIDsValid, [Next]_vars
  PROVE  FreeID' /\ TunnelIDsValid'
<1>0. TypeOK
  BY DEF IndInv
<1>1. FreeID'
  <2>1. CASE GetCurrentTunnelIDs
    <3>1. alloc.pc = "list" /\ alloc'.taken = CurrentTunnelIDs
      BY <2>1 DEF GetCurrentTunnelIDs
    <3> QED
      BY <3>1, FreeIDListed DEF FreeID
  <2>2. CASE alloc' = alloc \/ alloc'.pc \in {"idle", "list"}
    BY <2>2 DEF FreeID
  <2>3. ASSUME NEW n \in Nodes, HandleNode(n) \/ AllocGet(n)
        PROVE  alloc' = alloc \/ alloc'.pc \in {"idle", "list"}
    BY <2>3 DEF HandleNode, OnUpsert, OnDelete, OnDeleteUnknown, Stop, AllocGet, Idle
  <2>4. UpdateTunnelID \/ Crash \/ Fault => alloc' = alloc \/ alloc'.pc \in {"idle", "list"}
    BY DEF UpdateTunnelID, Crash, Stop, Fault, Idle
  <2> QED
    BY <2>1, <2>2, <2>3, <2>4
    DEF Next, CfgStep, AllocStep, Environment, SyncVSwitchConfig, WriteVSwitchConfig,
        ApplyWatch, Relist, Start, WriteNode, DeleteNode, NodeChange, Heartbeat, vars
<1>2. TunnelIDsValid'
  <2>1. ASSUME NEW n \in Nodes, NEW d \in Version, Stored(n, d),
               Exists(d) /\ d.tunnelID # 0 => ValidateTunnelID(d.tunnelID)
        PROVE  TunnelIDsValid'
    BY <1>0, <2>1 DEF Stored, TypeOK, TunnelIDsValid, Exists, ValidateTunnelID
  <2>2. CASE UNCHANGED configs
    BY <2>2 DEF TunnelIDsValid, Exists, ValidateTunnelID
  <2>3. CASE WriteVSwitchConfig
    <3>1. /\ Config \subseteq Version /\ NoConfig \in Version /\ ~Exists(NoConfig)
          /\ \A n \in Nodes : Exists(configs[n]) /\ configs[n].tunnelID # 0
                               => ValidateTunnelID(configs[n].tunnelID)
      BY DEF Version, NoConfig, Exists, TunnelIDsValid
    <3> QED
      BY <2>1, <2>2, <2>3, <3>1, CfgWriteEffect DEF Refused
  <2>4. CASE UpdateTunnelID
    <3>1. ASSUME NEW id \in MinTunnelID..(MaxTunnelID + 1), FirstUnused(id, alloc.taken)
          PROVE  ValidateTunnelID(id)
      <4>1. ~(MinTunnelID..MaxTunnelID \subseteq alloc.taken)
        BY <2>4 DEF FreeID, UpdateTunnelID
      <4>2. MinTunnelID..(id - 1) \subseteq alloc.taken
        BY <3>1 DEF FirstUnused
      <4> QED
        BY <4>1, <4>2, PoolAssumption DEF ValidateTunnelID
    <3>2. Config \subseteq Version
      BY DEF Version
    <3> QED
      BY <2>1, <2>2, <2>4, <3>1, <3>2, AllocWriteEffect DEF Refused
  <2> QED
    BY <2>2, <2>3, <2>4, OnlyWritersWrite
<1> QED
  BY <1>1, <1>2

LEMMA FreeIDInit == Init => FreeID /\ TunnelIDsValid
BY DEF Init, FreeID, TunnelIDsValid, Exists, NoConfig, Idle

\* With an ID for every node, allocateTunnelID only hands out IDs that pass
\* validateTunnelID: its unchecked search loop never runs past the pool.
THEOREM ValidTunnelIDs == EnoughIDs /\ Spec => []TunnelIDsValid
<1> SUFFICES ASSUME EnoughIDs PROVE Spec => []TunnelIDsValid
  OBVIOUS
<1>1. IndInv /\ FreeID /\ TunnelIDsValid /\ [Next]_vars => FreeID' /\ TunnelIDsValid'
  BY ValidStep
<1> QED
  BY <1>1, FreeIDInit, IndInvHolds, PTL DEF Spec

-----------------------------------------------------------------------------
(* Refinement                                                               *)

\* A write of the vswitchcfg handler registers a config, releases one or is
\* invisible; a write of the allocator allocates a free ID.
LEMMA RegistryStep ==
  ASSUME EnoughIDs, IndInv, FreeID, TunnelIDsValid, [Next]_vars
  PROVE  [Registry!Next]_HeldIDs
<1>0. TypeOK /\ TakenCoversAll /\ configs \in [Nodes -> Version]
  BY DEF IndInv, CopiesCoherent, TypeOK
<1> DEFINE Seen(c) == IF Exists(c) THEN c.tunnelID ELSE -1
<1>1. HeldIDs = [n \in Nodes |-> Seen(configs[n])]
  BY DEF HeldIDs
<1>2. HeldIDs' = [n \in Nodes |-> Seen(configs'[n])]
  BY DEF HeldIDs, Exists
<1>3. ASSUME NEW n \in Nodes, NEW d \in Version, Stored(n, d)
      PROVE  HeldIDs' = [HeldIDs EXCEPT ![n] = Seen(d)]
  <2>1. configs' = [configs EXCEPT ![n] = d]
    BY <1>3 DEF Stored
  <2>2. \A m \in Nodes : configs'[m] = IF m = n THEN d ELSE configs[m]
    BY <1>0, <2>1
  <2> HIDE DEF Seen
  <2> QED
    BY <1>1, <1>2, <2>2
<1>4. \A m \in Nodes : HeldIDs[m] = Seen(configs[m])
  BY <1>1
<1>5. CASE UNCHANGED configs
  BY <1>5 DEF HeldIDs, Exists
<1>6. CASE WriteVSwitchConfig
  <2> DEFINE n == cfg.node
  <2>0. n \in Nodes /\ NoConfig \in Version /\ Config \subseteq Version
    BY <1>6, CfgWriteEffect DEF Version
  <2>1. CASE Refused
    BY <1>5, <2>1 DEF Refused
  <2>2. CASE Stored(n, NoConfig)
    <3>1. HeldIDs' = [HeldIDs EXCEPT ![n] = -1]
      BY <1>3, <2>0, <2>2 DEF Exists, NoConfig
    <3>2. CASE HeldIDs[n] = -1
      <4>1. HeldIDs' = HeldIDs
        BY <1>1, <2>0, <3>1, <3>2
      <4> QED
        BY <4>1
    <3>3. CASE HeldIDs[n] # -1
      BY <2>0, <3>1, <3>3 DEF Registry!Next, Registry!Release, Registry!Absent
    <3> QED
      BY <3>2, <3>3
  <2>3. ASSUME NEW d \in Config, Stored(n, d), ~Exists(configs[n]), d.tunnelID = 0
        PROVE  Registry!Next
    <3>1. d \in Version /\ Seen(d) = 0
      BY <2>0, <2>3 DEF Exists, Config
    <3>2. HeldIDs[n] = -1 /\ HeldIDs' = [HeldIDs EXCEPT ![n] = 0]
      BY <1>3, <1>4, <2>0, <2>3, <3>1
    <3> QED
      BY <2>0, <3>2 DEF Registry!Next, Registry!Register, Registry!Absent
  <2>4. ASSUME NEW d \in Config, Stored(n, d), Exists(configs[n]),
               d.tunnelID = configs[n].tunnelID
        PROVE  HeldIDs' = HeldIDs
    <3>1. d \in Version /\ Seen(d) = HeldIDs[n]
      BY <1>4, <2>0, <2>4 DEF Exists, Config
    <3>2. HeldIDs' = [HeldIDs EXCEPT ![n] = HeldIDs[n]]
      BY <1>3, <2>0, <2>4, <3>1
    <3> QED
      BY <1>1, <2>0, <3>2
  <2> QED
    BY <1>6, <2>1, <2>2, <2>3, <2>4, CfgWriteEffect
<1>7. CASE UpdateTunnelID
  <2> DEFINE n == alloc.node
  <2>1. CASE Refused
    BY <1>5, <2>1 DEF Refused
  <2>2. ASSUME NEW id \in MinTunnelID..(MaxTunnelID + 1), NEW d \in Config,
               FirstUnused(id, alloc.taken), Stored(n, d), d.tunnelID = id,
               configs[n] \in Config, configs[n].tunnelID = 0
        PROVE  Registry!Next
    <3>0. n \in Nodes /\ alloc.pc = "update"
      BY <1>7, AllocWriteEffect DEF UpdateTunnelID
    <3>1. id <= MaxTunnelID /\ id \notin alloc.taken
      <4>1. ~(MinTunnelID..MaxTunnelID \subseteq alloc.taken)
        BY <3>0 DEF FreeID
      <4> QED
        BY <2>2, <4>1, PoolAssumption DEF FirstUnused
    <3>2. id \in MinTunnelID..MaxTunnelID /\ id # -1 /\ ValidateTunnelID(id)
      BY <3>1, PoolAssumption DEF ValidateTunnelID
    <3>3. \A m \in Nodes : HeldIDs[m] # id
      BY <1>0, <1>4, <3>0, <3>1, <3>2 DEF TakenCoversAll
    <3>4. d \in Version /\ Seen(d) = id /\ Seen(configs[n]) = 0
      BY <2>2 DEF Exists, Config, Version
    <3>5. HeldIDs[n] = 0 /\ HeldIDs' = [HeldIDs EXCEPT ![n] = id]
      BY <1>3, <1>4, <2>2, <3>0, <3>4
    <3> QED
      BY <3>0, <3>2, <3>3, <3>5 DEF Registry!Next, Registry!Allocate
  <2> QED
    BY <1>7, <2>1, <2>2, AllocWriteEffect
<1> QED
  BY <1>5, <1>6, <1>7, OnlyWritersWrite

\* With an ID for every node the control plane implements the registry of
\* tunnel IDs.
THEOREM RefinesRegistry == EnoughIDs /\ Spec => ImplementsRegistry
<1> SUFFICES ASSUME EnoughIDs PROVE Spec => ImplementsRegistry
  OBVIOUS
<1>1. Init => Registry!Init
  BY DEF Init, Registry!Init, Registry!Absent, HeldIDs, Exists, NoConfig
<1>2. IndInv /\ FreeID /\ TunnelIDsValid /\ [Next]_vars => FreeID' /\ TunnelIDsValid'
  BY ValidStep
<1>3. IndInv /\ FreeID /\ TunnelIDsValid /\ [Next]_vars => [Registry!Next]_HeldIDs
  BY RegistryStep
<1> QED
  BY <1>1, <1>2, <1>3, FreeIDInit, IndInvHolds, PTL
  DEF Spec, ImplementsRegistry, Registry!Spec
=============================================================================
