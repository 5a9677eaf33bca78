--------------------------- MODULE NodeSetupProofs ---------------------------
(***************************************************************************)
(* RunningIsSetUp for any number of nodes, settings, failures, reboots and *)
(* moves of the controller.  The commands a process has run leave their    *)
(* facts on the host, and nothing but a reboot, which ends the process,    *)
(* takes one away.                                                         *)
(***************************************************************************)
EXTENDS NodeSetup, TLAPS

\* what holds of the process on node n at each place of main
ProcessInv(n) ==
  /\ podCIDR[n] \in {None, PodCIDRs[n]}
  /\ configs[n] # NoConfig => configs[n].podCIDR = PodCIDRs[n]
  /\ agent[n] = "conf" => podCIDR[n] = PodCIDRs[n]
  /\ agent[n] \in {"poll", "sleep", "setup", "running"} => cniConf[n] = PodCIDRs[n]
  /\ agent[n] \notin {"setup", "running"} => step[n] = 0
  /\ agent[n] \in {"setup", "running"} =>
       /\ config[n].podCIDR = PodCIDRs[n]
       /\ step[n] <= Len(SetupSteps(config[n]))
       /\ \A i \in 1..step[n] : SetupSteps(config[n])[i] \in host[n]
  /\ agent[n] = "running" => step[n] = Len(SetupSteps(config[n]))

\* the inductive invariant
SetupInv == TypeOK /\ \A n \in Nodes : ProcessInv(n)

\* The set-up is a sequence of facts.
LEMMA StepsType ==
  ASSUME NEW c \in Config
  PROVE  SetupSteps(c) \in Seq(Facts)
<1>1. c.podCIDR \in PodRanges /\ c.settings \in Settings
  BY DEF Config
<1>2. << Fact("bridge"), Fact("bridge up"), Fact("host-local"), Fact("host-local up"),
         GatewayAddr(c), Fact("controller"), Fact("secure") >> \in Seq(Facts)
  BY <1>1 DEF GatewayAddr, Fact, RangeFact, Facts
<1>3. ModulesAndSysctls \in Seq(Facts)
  BY DEF ModulesAndSysctls, Fact, Facts
<1>4. BridgeForwarding(c) \in Seq(Facts)
  BY <1>1 DEF BridgeForwarding, Fact, RangeFact, Facts
<1>5. ASSUME NEW s, NEW t, NEW u, s \in Seq(Facts), t \in Seq(Facts), u \in Seq(Facts)
      PROVE  s \o t \o u \in Seq(Facts)
  BY <1>5
<1> QED BY <1>2, <1>3, <1>4, <1>5, Zenon DEF SetupSteps

\* A step of node n leaves the process of another node as it is.
LEMMA OthersKept ==
  ASSUME NEW m \in Nodes, ProcessInv(m),
         podCIDR'[m] = podCIDR[m], configs'[m] = configs[m], cniConf'[m] = cniConf[m],
         agent'[m] = agent[m], step'[m] = step[m], config'[m] = config[m], host'[m] = host[m]
  PROVE  ProcessInv(m)'
BY DEF ProcessInv

LEMMA InitInv == Init => SetupInv
<1> SUFFICES ASSUME Init PROVE SetupInv
  OBVIOUS
<1>1. TypeOK
  BY DEF Init, TypeOK, At
<1>2. ASSUME NEW n \in Nodes PROVE ProcessInv(n)
  BY DEF Init, ProcessInv
<1> QED BY <1>1, <1>2 DEF SetupInv

\* main of the agent
LEMMA MainInv ==
  ASSUME SetupInv, NEW n \in Nodes, Main(n)
  PROVE  SetupInv'
<1>0. TypeOK /\ ProcessInv(n) /\ \A m \in Nodes : ProcessInv(m)
  BY DEF SetupInv
<1> USE DEF Goto, Exit, At
<1> SUFFICES TypeOK' /\ ProcessInv(n)' /\ \A m \in Nodes \ {n} : ProcessInv(m)'
  BY DEF SetupInv
<1>1. CASE StartAgent(n)
  <2>1. TypeOK'
    BY <1>0, <1>1 DEF StartAgent, TypeOK, bounds
  <2>2. ProcessInv(n)'
    BY <1>0, <1>1 DEF StartAgent, TypeOK, ProcessInv
  <2>3. ASSUME NEW m \in Nodes \ {n} PROVE ProcessInv(m)'
    BY <1>0, <1>1, OthersKept DEF StartAgent, TypeOK
  <2> QED BY <2>1, <2>2, <2>3
<1>2. CASE GetNode(n)
  <2>1. TypeOK'
    BY <1>0, <1>2 DEF GetNode, TypeOK, bounds
  <2>2. ProcessInv(n)'
    BY <1>0, <1>2 DEF GetNode, TypeOK, ProcessInv
  <2>3. ASSUME NEW m \in Nodes \ {n} PROVE ProcessInv(m)'
    BY <1>0, <1>2, OthersKept DEF GetNode, TypeOK
  <2> QED BY <2>1, <2>2, <2>3
<1>3. CASE InstallCNIConf(n)
  <2>1. TypeOK'
    BY <1>0, <1>3 DEF InstallCNIConf, TypeOK, bounds
  <2>2. ProcessInv(n)'
    BY <1>0, <1>3 DEF InstallCNIConf, TypeOK, ProcessInv
  <2>3. ASSUME NEW m \in Nodes \ {n} PROVE ProcessInv(m)'
    BY <1>0, <1>3, OthersKept DEF InstallCNIConf, TypeOK
  <2> QED BY <2>1, <2>2, <2>3
<1>4. CASE WaitForVSwitchConfig(n)
  <2>1. TypeOK'
    BY <1>0, <1>4 DEF WaitForVSwitchConfig, TypeOK, bounds
  <2>2. ProcessInv(n)'
    <3>1. CASE /\ At(n, "poll") /\ configs[n] # NoConfig
               /\ config' = [config EXCEPT ![n] = configs[n]] /\ Goto(n, "setup")
               /\ UNCHANGED step
      <4>1. step'[n] = 0 /\ config'[n] = configs[n] /\ configs[n] \in Config
        BY <1>0, <3>1 DEF TypeOK, ProcessInv
      <4>2. Len(SetupSteps(configs[n])) \in Nat
        BY <4>1, StepsType
      <4> QED BY <1>0, <1>4, <3>1, <4>1, <4>2 DEF WaitForVSwitchConfig, TypeOK, ProcessInv
    <3>2. CASE /\ agent'[n] \in {"sleep", "poll"} /\ UNCHANGED <<step, config>>
               /\ agent[n] \in {"sleep", "poll"}
      BY <1>0, <1>4, <3>2 DEF WaitForVSwitchConfig, TypeOK, ProcessInv
    <3>3. CASE Exit(n)
      BY <1>0, <1>4, <3>3 DEF WaitForVSwitchConfig, TypeOK, ProcessInv
    <3> QED BY <1>0, <1>4, <3>1, <3>2, <3>3 DEF WaitForVSwitchConfig, TypeOK
  <2>3. ASSUME NEW m \in Nodes \ {n} PROVE ProcessInv(m)'
    BY <1>0, <1>4, OthersKept DEF WaitForVSwitchConfig, TypeOK
  <2> QED BY <2>1, <2>2, <2>3
<1>5. CASE SetupStep(n)
  <2> DEFINE f == SetupSteps(config[n])[step[n] + 1]
  <2>1. config[n] \in Config /\ step[n] \in Nat
    BY <1>0, <1>5 DEF SetupStep, TypeOK
  <2>2. SetupSteps(config[n]) \in Seq(Facts) /\ Len(SetupSteps(config[n])) \in Nat
    BY <2>1, StepsType
  <2>3. f \in Facts
    BY <1>5, <2>1, <2>2 DEF SetupStep
  <2>4. CASE /\ host' = [host EXCEPT ![n] = @ \cup {f}]
             /\ step' = [step EXCEPT ![n] = @ + 1]
             /\ UNCHANGED <<agent, config>>
    <3>1. TypeOK'
      BY <1>0, <1>5, <2>3, <2>4 DEF SetupStep, TypeOK, bounds
    <3>2. /\ step'[n] = step[n] + 1 /\ step[n] < Len(SetupSteps(config[n]))
          /\ agent'[n] = "setup" /\ config'[n] = config[n] /\ host'[n] = host[n] \cup {f}
      BY <1>0, <1>5, <2>4 DEF SetupStep, TypeOK
    <3>3. \A i \in 1..(step[n] + 1) : SetupSteps(config[n])[i] \in host'[n]
      BY <1>0, <1>5, <2>1, <3>2 DEF SetupStep, ProcessInv
    <3>4. ProcessInv(n)'
      BY <1>0, <1>5, <2>1, <2>2, <3>2, <3>3 DEF SetupStep, ProcessInv
    <3>5. ASSUME NEW m \in Nodes \ {n} PROVE ProcessInv(m)'
      BY <1>0, <1>5, <2>4, OthersKept DEF SetupStep, TypeOK
    <3> QED BY <3>1, <3>4, <3>5
  <2>5. CASE Exit(n) /\ UNCHANGED host
    <3>1. TypeOK'
      BY <1>0, <1>5, <2>5 DEF SetupStep, TypeOK, bounds
    <3>2. ProcessInv(n)'
      BY <1>0, <1>5, <2>5 DEF SetupStep, TypeOK, ProcessInv
    <3>3. ASSUME NEW m \in Nodes \ {n} PROVE ProcessInv(m)'
      BY <1>0, <1>5, <2>5, OthersKept DEF SetupStep, TypeOK
    <3> QED BY <3>1, <3>2, <3>3
  <2> QED BY <1>5, <2>4, <2>5 DEF SetupStep
<1>6. CASE RunAgent(n)
  <2>1. TypeOK'
    BY <1>0, <1>6 DEF RunAgent, TypeOK, bounds
  <2>2. ProcessInv(n)'
    BY <1>0, <1>6 DEF RunAgent, TypeOK, ProcessInv
  <2>3. ASSUME NEW m \in Nodes \ {n} PROVE ProcessInv(m)'
    BY <1>0, <1>6, OthersKept DEF RunAgent, TypeOK
  <2> QED BY <2>1, <2>2, <2>3
<1> QED BY <1>1, <1>2, <1>3, <1>4, <1>5, <1>6 DEF Main

\* the host, the control plane and the controller
LEMMA EnvironmentInv ==
  ASSUME SetupInv, NEW n \in Nodes, ControlPlane(n) \/ Fault(n) \/ Reboot(n)
  PROVE  SetupInv'
<1>0. TypeOK /\ ProcessInv(n) /\ \A m \in Nodes : ProcessInv(m)
  BY DEF SetupInv
<1> USE DEF Goto, Exit, At
<1> SUFFICES TypeOK' /\ ProcessInv(n)' /\ \A m \in Nodes \ {n} : ProcessInv(m)'
  BY DEF SetupInv
<1>1. CASE Fault(n)
  <2>1. TypeOK'
    BY <1>0, <1>1 DEF Fault, TypeOK
  <2>2. ProcessInv(n)'
    BY <1>0, <1>1 DEF Fault, TypeOK, ProcessInv
  <2>3. ASSUME NEW m \in Nodes \ {n} PROVE ProcessInv(m)'
    BY <1>0, <1>1, OthersKept DEF Fault, TypeOK
  <2> QED BY <2>1, <2>2, <2>3
<1>2. CASE Reboot(n)
  <2>1. TypeOK'
    BY <1>0, <1>2 DEF Reboot, TypeOK
  <2>2. ProcessInv(n)'
    BY <1>0, <1>2 DEF Reboot, TypeOK, ProcessInv
  <2>3. ASSUME NEW m \in Nodes \ {n} PROVE ProcessInv(m)'
    BY <1>0, <1>2, OthersKept DEF Reboot, TypeOK
  <2> QED BY <2>1, <2>2, <2>3
<1>3. CASE AssignPodCIDR(n)
  <2>1. TypeOK'
    BY <1>0, <1>3 DEF AssignPodCIDR, TypeOK, PodRanges, process, bounds
  <2>2. ProcessInv(n)'
    BY <1>0, <1>3 DEF AssignPodCIDR, TypeOK, ProcessInv, process
  <2>3. ASSUME NEW m \in Nodes \ {n} PROVE ProcessInv(m)'
    BY <1>0, <1>3, OthersKept DEF AssignPodCIDR, TypeOK, process
  <2> QED BY <2>1, <2>2, <2>3
<1>4. CASE SyncVSwitchConfig(n)
  <2> DEFINE c == [podCIDR |-> podCIDR[n], settings |-> controller.settings]
  <2>0. c \in Config /\ c.podCIDR = PodCIDRs[n]
    BY <1>0, <1>4 DEF SyncVSwitchConfig, TypeOK, ProcessInv, Config
  <2>1. TypeOK'
    BY <1>0, <1>4, <2>0 DEF SyncVSwitchConfig, TypeOK, process, bounds
  <2>2. ProcessInv(n)'
    BY <1>0, <1>4, <2>0 DEF SyncVSwitchConfig, TypeOK, ProcessInv, process
  <2>3. ASSUME NEW m \in Nodes \ {n} PROVE ProcessInv(m)'
    BY <1>0, <1>4, OthersKept DEF SyncVSwitchConfig, TypeOK, process
  <2> QED BY <2>1, <2>2, <2>3
<1>5. CASE \E s \in Settings : Schedule(n, s)
  <2>1. TypeOK'
    BY <1>0, <1>5 DEF Schedule, TypeOK, process, bounds
  <2>2. ASSUME NEW m \in Nodes PROVE ProcessInv(m)'
    BY <1>0, <1>5, OthersKept DEF Schedule, TypeOK, process
  <2> QED BY <2>1, <2>2
<1> QED BY <1>1, <1>2, <1>3, <1>4, <1>5 DEF ControlPlane

LEMMA NextInv == SetupInv /\ [Next]_vars => SetupInv'
<1> SUFFICES ASSUME SetupInv, [Next]_vars PROVE SetupInv'
  OBVIOUS
<1>1. CASE \E n \in Nodes : Main(n) \/ ControlPlane(n) \/ Fault(n) \/ Reboot(n)
  BY <1>1, MainInv, EnvironmentInv
<1>2. CASE Unschedule
  <2>1. TypeOK'
    BY <1>2 DEF SetupInv, Unschedule, TypeOK, process, At
  <2>2. ASSUME NEW m \in Nodes PROVE ProcessInv(m)'
    BY <1>2, OthersKept DEF SetupInv, Unschedule, process
  <2> QED BY <2>1, <2>2 DEF SetupInv
<1>3. CASE UNCHANGED vars
  <2>1. TypeOK'
    BY <1>3 DEF SetupInv, vars, TypeOK, process, bounds, At
  <2>2. ASSUME NEW m \in Nodes PROVE ProcessInv(m)'
    BY <1>3, OthersKept DEF SetupInv, vars, process
  <2> QED BY <2>1, <2>2 DEF SetupInv
<1> QED BY <1>1, <1>2, <1>3 DEF Next

\* main, its hosts and the controller keep their types.
THEOREM TypeCorrect == Spec => []TypeOK
<1>1. SetupInv => TypeOK
  BY DEF SetupInv
<1> QED BY <1>1, InitInv, NextInv, PTL DEF Spec

\* An agent that runs has the set-up of its config complete and the CNI plugin
\* on the same range, after any failures, restarts and reboots.
THEOREM RunningStaysSetUp == Spec => []RunningIsSetUp
<1>1. SetupInv => RunningIsSetUp
  BY DEF SetupInv, ProcessInv, RunningIsSetUp, At
<1> QED BY <1>1, InitInv, NextInv, PTL DEF Spec

=============================================================================
