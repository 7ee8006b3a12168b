------------------------------- MODULE MCParts -------------------------------
(* Three agents to route to, two that register, two services and two       *)
(* threads that use them; two threads that log to files of two entries;    *)
(* three that record, and a bucket that counts to two.                     *)
EXTENDS Parts

\* Discovery lists any agents, all in one condition; what differs between two
\* agents comes of addAgent and of the marks.
Lists == UNION {{[a \in known |-> info] : info \in AgentInfo} : known \in SUBSET Agents}

\* Agents occur in the router's part only, and the liveness property is about
\* the logger: it is the same for permuted agents.
Symmetry == Permutations(Agents)

=============================================================================
