--------------------------- MODULE MCAgentService ---------------------------
(* AgentService for TLC: the requests a run draws from, and symmetry.      *)
EXTENDS AgentService, TLC

\* All agents, two of them, and one that is named twice.
Lists == {<<>>, <<1, 2>>, <<1, 1>>}

\* Handlers are interchangeable; so are the ids of real-time messages.
Symmetry == Permutations(Handlers) \cup Permutations(ClientIds)

=============================================================================
