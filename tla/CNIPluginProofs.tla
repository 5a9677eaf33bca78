--------------------------- MODULE CNIPluginProofs ---------------------------
(***************************************************************************)
(* The safety of CNIPlugin for any number of sandboxes, pods, addresses    *)
(* and failures.  RunningIsWired and ReleasedIsClean follow from what the  *)
(* invocation for a sandbox has done when it reaches a step, SandboxInv;   *)
(* no invocation disturbs what belongs to another sandbox.                 *)
(***************************************************************************)
EXTENDS CNIPlugin, FiniteSetTheorems, TLAPS

\* what holds of sandbox c at each step of its invocation
SandboxInv(c) ==
  /\ netns[c] # "alive" => c \notin veth
  /\ goal[c] = "new" => call[c] = "none"
  /\ goal[c] = "add" => netns[c] = "alive" /\ call[c] # "none"
  /\ goal[c] = "new" \/ call[c] \in {"setupVeth", "addPort", "ipamAdd", "delLink"}
       => Leased(c) = {}
  /\ goal[c] = "up" \/ call[c] \in {"addPort", "ipamAdd", "configure"} => c \in veth
  /\ goal[c] = "up" \/ call[c] \in {"ipamAdd", "configure"} => c \in ports
  /\ goal[c] = "up" \/ call[c] \in {"configure", "undo"} => Cardinality(Leased(c)) = 1
  /\ call[c] = "ipamDelOnly" => netns[c] # "alive"
  /\ goal[c] = "released" => Leased(c) = {} /\ c \notin veth

\* the inductive invariant
PluginInv == TypeOK /\ \A c \in Sandboxes : SandboxInv(c)

-----------------------------------------------------------------------------
(* Leases                                                                   *)

\* The IPAM plugin hands a free address to c: c has it, the others keep theirs.
LEMMA LeaseGiven ==
  ASSUME NEW c \in Sandboxes, NEW a \in IPs, TypeOK, Leased(c) = {}, lease[a] = Free,
         lease' = [lease EXCEPT ![a] = c]
  PROVE  /\ lease' \in [IPs -> Sandboxes \cup {Free}]
         /\ Cardinality(Leased(c)') = 1
         /\ \A d \in Sandboxes \ {c} : Leased(d)' = Leased(d)
<1>1. lease' \in [IPs -> Sandboxes \cup {Free}]
  BY DEF TypeOK
<1>2. Leased(c)' = {a}
  BY DEF TypeOK, Leased
<1>3. Cardinality(Leased(c)') = 1
  BY <1>2, FS_Singleton
<1>4. ASSUME NEW d \in Sandboxes \ {c} PROVE Leased(d)' = Leased(d)
  BY PluginAssumption DEF TypeOK, Leased, Free
<1> QED BY <1>1, <1>3, <1>4

\* A release by container ID takes all addresses of c and no other.
LEMMA LeaseTaken ==
  ASSUME NEW c \in Sandboxes, TypeOK, ExecDel(c)
  PROVE  /\ lease' \in [IPs -> Sandboxes \cup {Free}]
         /\ Leased(c)' = {}
         /\ \A d \in Sandboxes \ {c} : Leased(d)' = Leased(d)
<1>1. lease' \in [IPs -> Sandboxes \cup {Free}]
  BY DEF TypeOK, ExecDel
<1>2. Leased(c)' = {}
  BY PluginAssumption DEF TypeOK, ExecDel, Leased, Free
<1>3. ASSUME NEW d \in Sandboxes \ {c} PROVE Leased(d)' = Leased(d)
  BY PluginAssumption DEF TypeOK, ExecDel, Leased, Free
<1> QED BY <1>1, <1>2, <1>3

\* Leases are left alone.
LEMMA LeaseKept ==
  ASSUME lease' = lease
  PROVE  \A d \in Sandboxes : Leased(d)' = Leased(d)
BY DEF Leased

\* A step of c leaves what the invariant says of another sandbox as it is.
LEMMA OthersKept ==
  ASSUME NEW c \in Sandboxes, NEW d \in Sandboxes \ {c}, SandboxInv(d),
         Leased(d)' = Leased(d), netns'[d] = netns[d], goal'[d] = goal[d],
         call'[d] = call[d], (d \in veth') <=> (d \in veth), (d \in ports') <=> (d \in ports)
  PROVE  SandboxInv(d)'
BY DEF SandboxInv

-----------------------------------------------------------------------------
LEMMA InitInv == Init => PluginInv
<1> SUFFICES ASSUME Init PROVE PluginInv
  OBVIOUS
<1>1. TypeOK
  BY DEF Init, TypeOK, AddSteps, DelSteps
<1>2. ASSUME NEW c \in Sandboxes PROVE SandboxInv(c)
  BY PluginAssumption DEF Init, SandboxInv, Leased, Free
<1> QED BY <1>1, <1>2 DEF PluginInv

\* one lemma for every step of an invocation and of the kubelet
LEMMA StepInv ==
  ASSUME NEW c \in Sandboxes, PluginInv,
         CmdAdd(c) \/ CmdDel(c) \/ Fault(c) \/ Kubelet(c)
  PROVE  PluginInv'
<1>0. TypeOK /\ SandboxInv(c) /\ \A d \in Sandboxes : SandboxInv(d)
  BY DEF PluginInv
<1> USE DEF Goto, Return, AddSteps, DelSteps
<1> SUFFICES TypeOK' /\ SandboxInv(c)' /\ \A d \in Sandboxes \ {c} : SandboxInv(d)'
  BY DEF PluginInv
<1>1. CASE SetupVeth(c)
  <2>1. TypeOK'
    BY <1>0, <1>1 DEF TypeOK, SetupVeth
  <2>2. \A d \in Sandboxes : Leased(d)' = Leased(d)
    BY <1>1, LeaseKept DEF SetupVeth
  <2>3. SandboxInv(c)'
    BY <1>0, <1>1, <2>2 DEF TypeOK, SetupVeth, SandboxInv
  <2>4. ASSUME NEW d \in Sandboxes \ {c} PROVE SandboxInv(d)'
    BY <1>0, <1>1, <2>2, OthersKept DEF TypeOK, SetupVeth
  <2> QED BY <2>1, <2>3, <2>4
<1>2. CASE AddPort(c)
  <2>1. TypeOK'
    BY <1>0, <1>2 DEF TypeOK, AddPort
  <2>2. \A d \in Sandboxes : Leased(d)' = Leased(d)
    BY <1>2, LeaseKept DEF AddPort
  <2>3. SandboxInv(c)'
    BY <1>0, <1>2, <2>2 DEF TypeOK, AddPort, SandboxInv
  <2>4. ASSUME NEW d \in Sandboxes \ {c} PROVE SandboxInv(d)'
    BY <1>0, <1>2, <2>2, OthersKept DEF TypeOK, AddPort
  <2> QED BY <2>1, <2>3, <2>4
<1>3. CASE IpamAdd(c)
  <2>1. CASE \E a \in IPs : /\ lease[a] = Free /\ lease' = [lease EXCEPT ![a] = c]
                            /\ Goto(c, "configure")
    <3>1. PICK a \in IPs : lease[a] = Free /\ lease' = [lease EXCEPT ![a] = c]
                             /\ Goto(c, "configure")
      BY <2>1
    <3>2. Leased(c) = {}
      BY <1>0, <1>3 DEF IpamAdd, SandboxInv
    <3>3. /\ lease' \in [IPs -> Sandboxes \cup {Free}]
          /\ Cardinality(Leased(c)') = 1
          /\ \A d \in Sandboxes \ {c} : Leased(d)' = Leased(d)
      BY <1>0, <3>1, <3>2, LeaseGiven
    <3>4. TypeOK'
      BY <1>0, <1>3, <3>1, <3>3 DEF TypeOK, IpamAdd
    <3>5. SandboxInv(c)'
      BY <1>0, <1>3, <3>1, <3>3 DEF TypeOK, IpamAdd, SandboxInv
    <3>6. ASSUME NEW d \in Sandboxes \ {c} PROVE SandboxInv(d)'
      BY <1>0, <1>3, <3>1, <3>3, OthersKept DEF TypeOK, IpamAdd
    <3> QED BY <3>4, <3>5, <3>6
  <2>2. CASE Return(c, "down") /\ UNCHANGED lease
    <3>1. \A d \in Sandboxes : Leased(d)' = Leased(d)
      BY <2>2, LeaseKept
    <3>2. TypeOK'
      BY <1>0, <1>3, <2>2 DEF TypeOK, IpamAdd
    <3>3. SandboxInv(c)'
      BY <1>0, <1>3, <2>2, <3>1 DEF TypeOK, IpamAdd, SandboxInv
    <3>4. ASSUME NEW d \in Sandboxes \ {c} PROVE SandboxInv(d)'
      BY <1>0, <1>3, <2>2, <3>1, OthersKept DEF TypeOK, IpamAdd
    <3> QED BY <3>2, <3>3, <3>4
  <2> QED BY <1>3, <2>1, <2>2 DEF IpamAdd
<1>4. CASE ConfigureIface(c)
  <2>1. TypeOK'
    BY <1>0, <1>4 DEF TypeOK, ConfigureIface, resources
  <2>2. \A d \in Sandboxes : Leased(d)' = Leased(d)
    BY <1>4, LeaseKept DEF ConfigureIface, resources
  <2>3. SandboxInv(c)'
    BY <1>0, <1>4, <2>2 DEF TypeOK, ConfigureIface, resources, SandboxInv
  <2>4. ASSUME NEW d \in Sandboxes \ {c} PROVE SandboxInv(d)'
    BY <1>0, <1>4, <2>2, OthersKept DEF TypeOK, ConfigureIface, resources
  <2> QED BY <2>1, <2>3, <2>4
<1>5. CASE ReleaseOnFailure(c)
  <2>1. /\ lease' \in [IPs -> Sandboxes \cup {Free}]
        /\ Leased(c)' = {}
        /\ \A d \in Sandboxes \ {c} : Leased(d)' = Leased(d)
    BY <1>0, <1>5, LeaseTaken DEF ReleaseOnFailure
  <2>2. TypeOK'
    BY <1>0, <1>5, <2>1 DEF TypeOK, ReleaseOnFailure
  <2>3. SandboxInv(c)'
    BY <1>0, <1>5, <2>1 DEF TypeOK, ReleaseOnFailure, SandboxInv
  <2>4. ASSUME NEW d \in Sandboxes \ {c} PROVE SandboxInv(d)'
    BY <1>0, <1>5, <2>1, OthersKept DEF TypeOK, ReleaseOnFailure
  <2> QED BY <2>2, <2>3, <2>4
<1>6. CASE FindPort(c)
  <2>1. TypeOK'
    BY <1>0, <1>6 DEF TypeOK, FindPort, resources
  <2>2. \A d \in Sandboxes : Leased(d)' = Leased(d)
    BY <1>6, LeaseKept DEF FindPort, resources
  <2>3. SandboxInv(c)'
    BY <1>0, <1>6, <2>2 DEF TypeOK, FindPort, resources, SandboxInv
  <2>4. ASSUME NEW d \in Sandboxes \ {c} PROVE SandboxInv(d)'
    BY <1>0, <1>6, <2>2, OthersKept DEF TypeOK, FindPort, resources
  <2> QED BY <2>1, <2>3, <2>4
<1>7. CASE DelPort(c)
  <2>0. ports' = ports \ {c}
    BY <1>7 DEF DelPort, Matching
  <2>1. TypeOK'
    BY <1>0, <1>7, <2>0 DEF TypeOK, DelPort
  <2>2. \A d \in Sandboxes : Leased(d)' = Leased(d)
    BY <1>7, LeaseKept DEF DelPort
  <2>3. SandboxInv(c)'
    BY <1>0, <1>7, <2>0, <2>2 DEF TypeOK, DelPort, SandboxInv
  <2>4. ASSUME NEW d \in Sandboxes \ {c} PROVE SandboxInv(d)'
    BY <1>0, <1>7, <2>0, <2>2, OthersKept DEF TypeOK, DelPort
  <2> QED BY <2>1, <2>3, <2>4
<1>8. CASE IpamDel(c)
  <2>1. /\ lease' \in [IPs -> Sandboxes \cup {Free}]
        /\ Leased(c)' = {}
        /\ \A d \in Sandboxes \ {c} : Leased(d)' = Leased(d)
    BY <1>0, <1>8, LeaseTaken DEF IpamDel
  <2>2. TypeOK'
    BY <1>0, <1>8, <2>1 DEF TypeOK, IpamDel
  <2>3. SandboxInv(c)'
    BY <1>0, <1>8, <2>1 DEF TypeOK, IpamDel, SandboxInv
  <2>4. ASSUME NEW d \in Sandboxes \ {c} PROVE SandboxInv(d)'
    BY <1>0, <1>8, <2>1, OthersKept DEF TypeOK, IpamDel
  <2> QED BY <2>2, <2>3, <2>4
<1>9. CASE DelLink(c)
  <2>1. TypeOK'
    BY <1>0, <1>9 DEF TypeOK, DelLink
  <2>2. \A d \in Sandboxes : Leased(d)' = Leased(d)
    BY <1>9, LeaseKept DEF DelLink
  <2>3. SandboxInv(c)'
    BY <1>0, <1>9, <2>2 DEF TypeOK, DelLink, SandboxInv
  <2>4. ASSUME NEW d \in Sandboxes \ {c} PROVE SandboxInv(d)'
    BY <1>0, <1>9, <2>2, OthersKept DEF TypeOK, DelLink
  <2> QED BY <2>1, <2>3, <2>4
<1>10. CASE Fault(c)
  <2>1. TypeOK'
    BY <1>0, <1>10 DEF TypeOK, Fault, resources
  <2>2. \A d \in Sandboxes : Leased(d)' = Leased(d)
    BY <1>10, LeaseKept DEF Fault, resources
  <2>3. SandboxInv(c)'
    BY <1>0, <1>10, <2>2 DEF TypeOK, Fault, resources, SandboxInv
  <2>4. ASSUME NEW d \in Sandboxes \ {c} PROVE SandboxInv(d)'
    BY <1>0, <1>10, <2>2, OthersKept DEF TypeOK, Fault, resources
  <2> QED BY <2>1, <2>3, <2>4
<1>11. CASE Create(c)
  <2>1. TypeOK'
    BY <1>0, <1>11 DEF TypeOK, Create
  <2>2. \A d \in Sandboxes : Leased(d)' = Leased(d)
    BY <1>11, LeaseKept DEF Create
  <2>3. SandboxInv(c)'
    BY <1>0, <1>11, <2>2 DEF TypeOK, Create, SandboxInv
  <2>4. ASSUME NEW d \in Sandboxes \ {c} PROVE SandboxInv(d)'
    BY <1>0, <1>11, <2>2, OthersKept DEF TypeOK, Create
  <2> QED BY <2>1, <2>3, <2>4
<1>12. CASE TearDown(c)
  <2>1. TypeOK'
    BY <1>0, <1>12 DEF TypeOK, TearDown, resources
  <2>2. \A d \in Sandboxes : Leased(d)' = Leased(d)
    BY <1>12, LeaseKept DEF TearDown, resources
  <2>3. SandboxInv(c)'
    BY <1>0, <1>12, <2>2 DEF TypeOK, TearDown, resources, SandboxInv
  <2>4. ASSUME NEW d \in Sandboxes \ {c} PROVE SandboxInv(d)'
    BY <1>0, <1>12, <2>2, OthersKept DEF TypeOK, TearDown, resources
  <2> QED BY <2>1, <2>3, <2>4
<1>13. CASE StartDel(c)
  <2>1. TypeOK'
    BY <1>0, <1>13 DEF TypeOK, StartDel, FirstDelStep, resources
  <2>2. \A d \in Sandboxes : Leased(d)' = Leased(d)
    BY <1>13, LeaseKept DEF StartDel, resources
  <2>3. SandboxInv(c)'
    BY <1>0, <1>13, <2>2 DEF TypeOK, StartDel, FirstDelStep, resources, SandboxInv
  <2>4. ASSUME NEW d \in Sandboxes \ {c} PROVE SandboxInv(d)'
    BY <1>0, <1>13, <2>2, OthersKept DEF TypeOK, StartDel, resources
  <2> QED BY <2>1, <2>3, <2>4
<1>14. CASE StopSandbox(c)
  <2>1. TypeOK'
    BY <1>0, <1>14 DEF TypeOK, StopSandbox
  <2>2. \A d \in Sandboxes : Leased(d)' = Leased(d)
    BY <1>14, LeaseKept DEF StopSandbox
  <2>3. SandboxInv(c)'
    BY <1>0, <1>14, <2>2 DEF TypeOK, StopSandbox, SandboxInv
  <2>4. ASSUME NEW d \in Sandboxes \ {c} PROVE SandboxInv(d)'
    BY <1>0, <1>14, <2>2, OthersKept DEF TypeOK, StopSandbox
  <2> QED BY <2>1, <2>3, <2>4
<1> QED
  BY <1>1, <1>2, <1>3, <1>4, <1>5, <1>6, <1>7, <1>8, <1>9, <1>10, <1>11, <1>12, <1>13, <1>14
  DEF CmdAdd, CmdDel, Kubelet

\* The invariant only speaks of the state of the plugin, not of the counters.
LEMMA StutterInv ==
  ASSUME PluginInv, UNCHANGED <<resources, podOf, goal, call>>,
         faults' \in Nat, repeats' \in Nat
  PROVE  PluginInv'
<1>1. \A d \in Sandboxes : Leased(d)' = Leased(d)
  BY LeaseKept DEF resources
<1>2. TypeOK'
  BY DEF PluginInv, TypeOK, resources
<1>3. ASSUME NEW d \in Sandboxes PROVE SandboxInv(d)'
  BY <1>1 DEF PluginInv, SandboxInv, resources
<1> QED BY <1>2, <1>3 DEF PluginInv

LEMMA NextInv == PluginInv /\ [Next]_vars => PluginInv'
<1> SUFFICES ASSUME PluginInv, [Next]_vars PROVE PluginInv'
  OBVIOUS
<1>1. CASE Next
  BY <1>1, StepInv DEF Next
<1>2. CASE UNCHANGED vars
  <2>1. faults' \in Nat /\ repeats' \in Nat
    BY <1>2 DEF PluginInv, TypeOK, vars
  <2> QED BY <1>2, <2>1, StutterInv DEF vars, resources
<1> QED BY <1>1, <1>2

LEMMA PluginInvImplies == PluginInv => TypeOK /\ RunningIsWired /\ ReleasedIsClean
BY DEF PluginInv, SandboxInv, RunningIsWired, ReleasedIsClean

\* The invocations keep their types, and a step of cmdAdd or cmdDel only runs
\* while the kubelet waits for that command.
THEOREM TypeCorrect == Spec => []TypeOK
<1>1. Spec => []PluginInv
  BY InitInv, NextInv, PTL DEF Spec
<1> QED BY <1>1, PluginInvImplies, PTL

\* cmdAdd and cmdDel of any number of sandboxes, failing or not, leave a running
\* sandbox its interface, its port and its one address.
THEOREM RunningStaysWired == Spec => []RunningIsWired
<1>1. Spec => []PluginInv
  BY InitInv, NextInv, PTL DEF Spec
<1> QED BY <1>1, PluginInvImplies, PTL

\* A cmdDel that succeeds leaves neither an address nor an interface, whatever
\* the ones before it did.
THEOREM ReleasedStaysClean == Spec => []ReleasedIsClean
<1>1. Spec => []PluginInv
  BY InitInv, NextInv, PTL DEF Spec
<1> QED BY <1>1, PluginInvImplies, PTL

=============================================================================
