------------------------------- MODULE Mailbox -------------------------------
(***************************************************************************)
(* What AgentCommunicationServiceImpl (src/src/rpc_server.cpp) promises to *)
(* the agents that use it, without the mutex, the threads and the calls    *)
(* that AgentService.tla gives in detail: a mailbox per registered agent,  *)
(* a message posted to several mailboxes at once and taken from one of     *)
(* them in the order of posting.                                           *)
(***************************************************************************)
EXTENDS Naturals, Sequences

CONSTANTS
  Agent, Message,
  MaxCopies        \* how often a post may name one mailbox

VARIABLES box,     \* the mailbox of every agent that has one
          opened   \* every agent that ever had one

boxVars == <<box, opened>>

BoxInit ==
  /\ box = [a \in {} |-> <<>>]
  /\ opened = {}

\* A new agent gets an empty mailbox; the id of a former agent is not used again.
Open(a) ==
  /\ a \notin opened
  /\ box' = [x \in DOMAIN box \cup {a} |-> IF x = a THEN <<>> ELSE box[x]]
  /\ opened' = opened \cup {a}

\* Agents leave, or are evicted, with what their mailboxes still hold.
Close(S) ==
  /\ S \subseteq DOMAIN box
  /\ box' = [x \in DOMAIN box \ S |-> box[x]]
  /\ UNCHANGED opened

\* m is posted to all the mailboxes it is for in one step, n[a] times to that
\* of a; a number tells the copies apart.
Post(n, m) ==
  /\ box' = [a \in DOMAIN box |-> box[a] \o [k \in 1..n[a] |-> <<m, k>>]]
  /\ UNCHANGED opened

\* The oldest message of a mailbox goes to whoever reads it.
Take(a) ==
  /\ a \in DOMAIN box
  /\ box[a] # <<>>
  /\ box' = [box EXCEPT ![a] = Tail(@)]
  /\ UNCHANGED opened

BoxNext ==
  \/ \E a \in Agent : Open(a) \/ Take(a)
  \/ \E S \in SUBSET Agent : Close(S)
  \/ \E n \in [DOMAIN box -> 0..MaxCopies], m \in Message : Post(n, m)

BoxSpec == BoxInit /\ [][BoxNext]_boxVars

=============================================================================
