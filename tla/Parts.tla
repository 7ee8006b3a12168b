-------------------------------- MODULE Parts --------------------------------
(***************************************************************************)
(* The parts that others call and that call nothing of the system          *)
(* themselves: the router and the registry of agents, the weighted         *)
(* balancer, the registry of services, the logger and the metrics.  They   *)
(* keep no state in common, so a behaviour exercises one of them and       *)
(* leaves the others as they are.                                          *)
(***************************************************************************)
EXTENDS AgentRouter, WeightedBalancer, AgentRegistry, ServiceRegistry, AsyncLogger, Metrics

VARIABLE part

vars == <<part, routerVars, balancerVars, registryVars, serviceVars, loggerVars, metricsVars>>

Init ==
  /\ part \in {"router", "balancer", "agents", "services", "logger", "metrics"}
  /\ RouterInit /\ BalancerInit /\ RegistryInit /\ ServiceInit /\ LoggerInit /\ MetricsInit

Only(p) ==
  /\ part = p /\ UNCHANGED part
  /\ p # "router"   => UNCHANGED routerVars
  /\ p # "balancer" => UNCHANGED balancerVars
  /\ p # "agents"   => UNCHANGED registryVars
  /\ p # "services" => UNCHANGED serviceVars
  /\ p # "logger"   => UNCHANGED loggerVars
  /\ p # "metrics"  => UNCHANGED metricsVars

Next ==
  \/ Only("router")   /\ RouterNext
  \/ Only("balancer") /\ BalancerNext
  \/ Only("agents")   /\ RegistryNext
  \/ Only("services") /\ ServiceNext
  \/ Only("logger")   /\ LoggerNext
  \/ Only("metrics")  /\ MetricsNext

Spec == Init /\ [][Next]_vars

\* The logger's threads are scheduled.
FairSpec ==
  /\ Spec
  /\ WF_vars(Only("logger") /\ LoopStep)
  /\ \A t \in Loggers : WF_vars(Only("logger") /\ Notify(t))

=============================================================================
