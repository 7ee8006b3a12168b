----------------------------- MODULE AgentRouter -----------------------------
(***************************************************************************)
(* The orchestrator's router (orchestrator/src/agent_router.cpp): agents   *)
(* that are added, updated, marked and removed under one mutex, and a      *)
(* choice among those that are healthy and have a skill that is asked for. *)
(* Every operation is one step.  Names, addresses and heartbeat times are  *)
(* left out, and so are the loads: the choices of RANDOM and LEAST_LOAD    *)
(* leave no trace in the router.                                           *)
(***************************************************************************)
EXTENDS Integers, Sequences, FiniteSets, SequencesExt

CONSTANTS
  Agents, Skills,
  AgentLists,  \* what discovery may list: [is_healthy, skills] of each agent listed
  MaxIndex     \* bound on the selections that move round_robin_index_

ASSUME RouterAssumption ==
  /\ MaxIndex \in Nat /\ IsFiniteSet(Agents)
  /\ \A list \in AgentLists :
       \E known \in SUBSET Agents :
         list \in [known -> [is_healthy : BOOLEAN, skills : SUBSET Skills]]

VARIABLES
  agents_,             \* [is_healthy, skills] of each agent that is known
  order,               \* the known agents as iteration over agents_ meets them
  strategy_,
  round_robin_index_,
  candidates,          \* history: those the last selection chose from
  streak               \* history: the picks since the candidates changed, at most one round

routerVars == <<agents_, order, strategy_, round_robin_index_, candidates, streak>>

Strategies == {"ROUND_ROBIN", "RANDOM", "LEAST_LOAD", "SKILL_MATCH"}
AgentInfo  == [is_healthy : BOOLEAN, skills : SUBSET Skills]

RouterInit ==
  /\ agents_ = <<>> /\ order = <<>>
  /\ strategy_ = "SKILL_MATCH" /\ round_robin_index_ = 0
  /\ candidates = <<>> /\ streak = <<>>

NoPick == candidates' = <<>> /\ streak' = <<>>

\* An insertion may rehash the map: the new order is any order.
Reordered(known) == order' \in SetToSeqs(known)

addAgent(a) ==
  /\ \E info \in AgentInfo :
       agents_' = [x \in DOMAIN agents_ \cup {a} |-> IF x = a THEN info ELSE agents_[x]]
  /\ IF a \in DOMAIN agents_ THEN UNCHANGED <<order, candidates, streak>>
     ELSE Reordered(DOMAIN agents_ \cup {a}) /\ NoPick
  /\ UNCHANGED <<strategy_, round_robin_index_>>

removeAgent(a) ==
  /\ a \in DOMAIN agents_
  /\ agents_' = [x \in DOMAIN agents_ \ {a} |-> agents_[x]]
  /\ order' = SelectSeq(order, LAMBDA x : x # a)
  /\ UNCHANGED <<strategy_, round_robin_index_, candidates, streak>>

\* A list from discovery replaces the agents.
updateAgentList(list) ==
  /\ agents_' = list
  /\ Reordered(DOMAIN list)
  /\ NoPick
  /\ UNCHANGED <<strategy_, round_robin_index_>>

\* markAgentUnhealthy, markAgentHealthy
Mark(a, healthy) ==
  /\ a \in DOMAIN agents_
  /\ agents_' = [agents_ EXCEPT ![a].is_healthy = healthy]
  /\ UNCHANGED <<order, strategy_, round_robin_index_, candidates, streak>>

setStrategy(s) ==
  /\ strategy_' = s
  /\ NoPick
  /\ UNCHANGED <<agents_, order, round_robin_index_>>

\* The agents that have one of the skills, or all that are healthy if none has.
Candidates(skills) ==
  LET healthy == {a \in DOMAIN agents_ : agents_[a].is_healthy}
      able    == {a \in healthy : skills = {} \/ skills \cap agents_[a].skills # {}}
  IN  IF able = {} THEN healthy ELSE able

\* The list that the loop over agents_ makes of some of them.
Listed(some) ==
  {from \in SetToSeqs(some) :
     \A i, j \in DOMAIN order :
       i < j /\ {order[i], order[j]} \subseteq some
         => \E k, l \in DOMAIN from : k < l /\ from[k] = order[i] /\ from[l] = order[j]}

Round(from, picks) ==
  IF Len(picks) <= Len(from) THEN picks ELSE SubSeq(picks, 2, Len(picks))

Picked(from, pick) ==
  /\ candidates' = from
  /\ streak' = Round(from, Append(IF from = candidates THEN streak ELSE <<>>, pick))

selectRoundRobin(from) ==
  /\ round_robin_index_' = round_robin_index_ + 1
  /\ Picked(from, from[(round_robin_index_ % Len(from)) + 1])

ByStrategy(from) ==
  IF strategy_ \in {"RANDOM", "LEAST_LOAD"} THEN NoPick /\ UNCHANGED round_robin_index_
  ELSE selectRoundRobin(from)

\* Mutant: a lone candidate moves the index too.
selectByStrategy_NoShortcut(from) ==
  IF Len(from) = 1
  THEN round_robin_index_' = round_robin_index_ + 1 /\ UNCHANGED <<candidates, streak>>
  ELSE ByStrategy(from)

selectByStrategy(from) ==
  IF Len(from) = 1 THEN UNCHANGED <<round_robin_index_, candidates, streak>>
  ELSE ByStrategy(from)

\* The question stands for the skill that is read out of it, if any.
selectAgent(question, required) ==
  /\ round_robin_index_ < MaxIndex
  /\ LET skills == IF required = {} /\ strategy_ = "SKILL_MATCH" THEN question ELSE required
     IN  /\ Candidates(skills) # {}
         /\ \E from \in Listed(Candidates(skills)) : selectByStrategy(from)
  /\ UNCHANGED <<agents_, order, strategy_>>

RouterNext ==
  \/ \E a \in Agents : addAgent(a) \/ removeAgent(a) \/ \E h \in BOOLEAN : Mark(a, h)
  \/ \E list \in AgentLists : updateAgentList(list)
  \/ \E s \in Strategies : setStrategy(s)
  \/ \E q \in {{}} \cup {{s} : s \in Skills}, r \in SUBSET Skills : selectAgent(q, r)

-----------------------------------------------------------------------------
\* While selections in succession have the same candidates to choose from,
\* none is picked twice before each was picked once: whatever happens to the
\* agents in between, and although the index is shared with selections among
\* other candidates and outlives the list of agents.
RotatesEvenly ==
  \A i, j \in DOMAIN streak : streak[i] = streak[j] => i = j

=============================================================================
