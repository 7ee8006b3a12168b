---------------------------- MODULE AgentRegistry ----------------------------
(***************************************************************************)
(* The registry of A2A agents (a2a/examples/agent_registry.hpp): agents    *)
(* with tags, an index from tags to agents, heartbeats and a health check  *)
(* that evicts whoever was silent too long.  Each operation is one step    *)
(* under the registry's mutex.                                             *)
(***************************************************************************)
CONSTANTS RegistryIds, Tags

VARIABLES
  registered,     \* agents_: the tags of each agent
  silent,         \* those whose last heartbeat is heartbeat_timeout_ ago
  tags_index_,    \* the agents under each tag
  withdrawn,      \* history: agents deregistered since they were last registered
  retagged        \* history: agents registered again, while listed, without a tag they had

registryVars == <<registered, silent, tags_index_, withdrawn, retagged>>

RegistryInit ==
  /\ registered = <<>> /\ silent = {} /\ withdrawn = {} /\ retagged = {}
  /\ tags_index_ = [tag \in Tags |-> {}]

Unindexed(ids) ==
  [tag \in Tags |-> tags_index_[tag] \ {a \in ids : tag \in registered[a]}]

With(a, tags) == [x \in DOMAIN registered \cup {a} |-> IF x = a THEN tags ELSE registered[x]]

Retagged(a, tags) ==
  IF a \in DOMAIN registered /\ ~(registered[a] \subseteq tags) THEN retagged \cup {a} ELSE retagged

\* Mutant: only the tags a known agent did not have before are added.
register_agent_TrustsIndex(a, tags) ==
  /\ registered' = With(a, tags)
  /\ tags_index_' = [tag \in Tags |->
       IF tag \in tags /\ ~(a \in DOMAIN registered /\ tag \in registered[a])
       THEN tags_index_[tag] \cup {a} ELSE tags_index_[tag]]
  /\ silent' = silent \ {a}
  /\ withdrawn' = withdrawn \ {a}
  /\ retagged' = Retagged(a, tags)

\* The tags the agent had before stay in the index.
register_agent(a, tags) ==
  /\ registered' = With(a, tags)
  /\ tags_index_' = [tag \in Tags |-> tags_index_[tag] \cup (IF tag \in tags THEN {a} ELSE {})]
  /\ silent' = silent \ {a}
  /\ withdrawn' = withdrawn \ {a}
  /\ retagged' = Retagged(a, tags)

\* The agent itself stays, whatever the caller is told: nothing is returned.
deregister_agent(a) ==
  /\ a \in DOMAIN registered
  /\ tags_index_' = Unindexed({a})
  /\ withdrawn' = withdrawn \cup {a}
  /\ UNCHANGED <<registered, silent, retagged>>

heartbeat(a) ==
  /\ a \in DOMAIN registered
  /\ silent' = silent \ {a}
  /\ UNCHANGED <<registered, tags_index_, withdrawn, retagged>>

SilencePasses(a) ==
  /\ a \in DOMAIN registered
  /\ silent' = silent \cup {a}
  /\ UNCHANGED <<registered, tags_index_, withdrawn, retagged>>

check_health ==
  /\ registered' = [a \in DOMAIN registered \ silent |-> registered[a]]
  /\ tags_index_' = Unindexed(silent)
  /\ silent' = {}
  /\ withdrawn' = withdrawn \ silent
  /\ UNCHANGED retagged

\* find_agents_by_tag
FoundByTag(tag) == tags_index_[tag] \cap DOMAIN registered

RegistryNext ==
  \/ check_health
  \/ \E a \in RegistryIds :
       \/ deregister_agent(a) \/ heartbeat(a) \/ SilencePasses(a)
       \/ \E tags \in SUBSET Tags : register_agent(a, tags)

-----------------------------------------------------------------------------
\* A search by tag finds every agent that has the tag, unless it was
\* deregistered, and only agents that have it, unless they registered again
\* with other tags: an agent that is still listed after it was deregistered,
\* and what an eviction leaves in the index, do no more harm than that.
TagsFind ==
  \A tag \in Tags, a \in DOMAIN registered :
    /\ tag \in registered[a] /\ a \notin withdrawn => a \in FoundByTag(tag)
    /\ a \in FoundByTag(tag) /\ a \notin retagged => tag \in registered[a]

=============================================================================
