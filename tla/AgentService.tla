---------------------------- MODULE AgentService ----------------------------
(***************************************************************************)
(* The message hub of the framework: AgentCommunicationServiceImpl of      *)
(* src/src/rpc_server.cpp, the implementation of the gRPC service          *)
(* AgentCommunicationService.  It keeps two maps, agents_ (id -> endpoint) *)
(* and agent_message_queues_ (id -> queue), both under ONE mutex,          *)
(* agents_mutex_.  gRPC runs each call on a thread of its pool; the        *)
(* service adds a thread of its own that evicts silent agents.             *)
(*                                                                         *)
(* A critical section that neither waits nor talks to the network is one   *)
(* action, enabled when the mutex is free.  ReceiveMessage and             *)
(* ListenMessages keep the mutex while they wait for messages and while    *)
(* they write to the stream, so each of their steps is an action of its    *)
(* own and the mutex has an owner in between.                              *)
(*                                                                         *)
(* Time is counted in ticks of 30 s, the period of the cleanup thread, and *)
(* kept as ages (time since a stamp was taken), capped at MaxAge: the code *)
(* only compares an age with OfflineAge.                                   *)
(***************************************************************************)
EXTENDS Naturals, Sequences, FiniteSets

CONSTANTS
  Handlers,    \* threads of the gRPC pool; each serves one call at a time
  ClientIds,   \* ids that clients put on real-time messages themselves
  MaxId,       \* bound on message_id_counter_
  OfflineAge,  \* 60 s in ticks: an agent silent for longer is offline
  MaxAge,      \* ages are counted up to here
  Named,       \* the agent ids that requests name
  Audiences,   \* the target lists of broadcasts
  MaxCopies,   \* how often a list of them may name one agent
  Quotas,      \* values of ReceiveMessageRequest.max_messages
  Waits,       \* values of ReceiveMessageRequest.timeout_seconds, in ticks
  Free         \* owner of agents_mutex_ when nobody holds it

AgentId  == 1..MaxId
Ages     == 0..MaxAge
MsgId    == (1..MaxId) \cup ClientIds

\* A message as it is queued.  The number tells apart the copies that one call
\* queues for one agent; the code does not have it.
Copy == MsgId \X (1..MaxCopies)

ASSUME BoundsAssumption ==
  /\ MaxId \in Nat \ {0}
  /\ OfflineAge \in Nat
  /\ MaxAge \in Nat /\ MaxAge > OfflineAge
  /\ Named \subseteq AgentId
  /\ Audiences \subseteq Seq(AgentId)
  /\ MaxCopies \in Nat \ {0}
  /\ \A list \in Audiences : Len(list) <= MaxCopies
  /\ Quotas \subseteq Nat
  /\ Waits \subseteq Ages
  /\ Free \notin Handlers
  /\ ClientIds \cap Nat = {}

VARIABLES
  agents,              \* agents_: registered id -> age of its last_heartbeat
  queues,              \* agent_message_queues_: id -> the messages queued
  owner,               \* who holds agents_mutex_
  message_id_counter_, \* one counter for message ids and agent ids
  sweep,               \* ticks until cleanup_thread_ wakes up
  pc,                  \* where each handler is
  req,                 \* the request each handler serves
  held,                \* messages a handler has popped and not yet handed out
  cancelled,           \* handlers whose client has cancelled the stream
  spoken               \* ids the clients of real-time streams have used

\* History of each delivery, a set of <<agent, copy>> pairs (no code reads it).
VARIABLES
  accepted,   \* pushed into the agent's queue
  delivered,  \* put in a response or written to a stream
  lost,       \* popped for a stream whose Write failed
  dropped,    \* queued when the queue was erased
  joined      \* every id that was ever registered

maps    == <<agents, queues>>
history == <<accepted, delivered, lost, dropped, joined>>
thread  == <<pc, req, held, cancelled>>
vars    == <<agents, queues, owner, message_id_counter_, sweep, pc, req, held,
             cancelled, spoken, accepted, delivered, lost, dropped, joined>>

-----------------------------------------------------------------------------
\* What a handler keeps of its request.  age is the time since the handler
\* took a stamp: its arrival, RegisterAgent's last_heartbeat, or the start of
\* the current wait of ReceiveMessage.
NoRequest == [agent |-> 0, id |-> 0, targets |-> <<>>,
              left |-> 0, wait |-> 0, age |-> 0]

Request == [agent : 0..MaxId, id : MsgId \cup {0}, targets : Audiences \cup {<<>>},
            left : Nat, wait : Ages, age : Ages]

Locations == {"idle", "send", "receive", "popping", "respond", "listen",
              "streaming", "writing", "broadcast", "register", "unregister",
              "heartbeat", "batch", "batchSend", "chat", "chatSend"}

\* Handler t starts (or goes on with) a call at location l with request r.
Serve(t, l, r) ==
  /\ pc' = [pc EXCEPT ![t] = l]
  /\ req' = [req EXCEPT ![t] = r]

Return(t) == Serve(t, "idle", NoRequest)

Older(age) == IF age = MaxAge THEN age ELSE age + 1

\* Mutant: the id is read but the counter is not advanced.
generateMessageId_Reused ==
  /\ message_id_counter_ < MaxId
  /\ UNCHANGED message_id_counter_

\* generateMessageId: ++message_id_counter_ on an atomic.
generateMessageId ==
  /\ message_id_counter_ < MaxId
  /\ message_id_counter_' = message_id_counter_ + 1

NewId == message_id_counter_ + 1

-----------------------------------------------------------------------------
(* The methods that work on the maps, each under agents_mutex_.            *)

\* registerAgent: overwrites the endpoint; emplace keeps a queue already there.
registerAgent(a, age) ==
  /\ agents' = [x \in DOMAIN agents \cup {a} |-> IF x = a THEN age ELSE agents[x]]
  /\ queues' = [x \in DOMAIN queues \cup {a} |->
                  IF x \in DOMAIN queues THEN queues[x] ELSE <<>>]
  /\ joined' = joined \cup {a}

\* The messages still queued for the agents of S, about to go with the queues.
Pending(S) ==
  UNION {{a} \X {queues[a][i] : i \in DOMAIN queues[a]} : a \in S \cap DOMAIN queues}

\* Mutant: the queue is left behind.
unregisterAgent_KeepsQueue(S) ==
  /\ agents' = [x \in DOMAIN agents \ S |-> agents[x]]
  /\ UNCHANGED <<queues, dropped>>

\* Erasing the endpoints and the queues of the agents of S.
unregisterAgent(S) ==
  /\ agents' = [x \in DOMAIN agents \ S |-> agents[x]]
  /\ queues' = [x \in DOMAIN queues \ S |-> queues[x]]
  /\ dropped' = dropped \cup Pending(S)

\* How often a list of targets names an agent; an empty list is all of them.
Times(targets, a) ==
  IF targets = <<>> THEN 1 ELSE Cardinality({i \in DOMAIN targets : targets[i] = a})

CopiesOf(m, n) == [k \in 1..n |-> <<m, k>>]

\* Pushing m for the targets that have a queue, as often as they are named.
Push(targets, m) ==
  /\ queues' = [a \in DOMAIN queues |-> queues[a] \o CopiesOf(m, Times(targets, a))]
  /\ accepted' = accepted \cup
       UNION {{a} \X {<<m, k>> : k \in 1..Times(targets, a)} : a \in DOMAIN queues}

updateAgentHeartbeat(a) ==
  agents' = [x \in DOMAIN agents |-> IF x = a THEN 0 ELSE agents[x]]

\* Mutant: the message is copied but queue_.pop() is missing.
Pop_Copies(t, a) ==
  /\ queues[a] # <<>>
  /\ held' = [held EXCEPT ![t] = Append(@, Head(queues[a]))]
  /\ UNCHANGED queues

\* try_pop: takes the first message; fails when none came within the timeout.
Pop(t, a) ==
  /\ queues[a] # <<>>
  /\ held' = [held EXCEPT ![t] = Append(@, Head(queues[a]))]
  /\ queues' = [queues EXCEPT ![a] = Tail(@)]

-----------------------------------------------------------------------------
(* SendMessage and BatchSendMessages.  The id is drawn before the mutex is *)
(* taken, so two senders may queue their messages in the other order.      *)

SendMessage(t, a) ==
  /\ pc[t] = "idle"
  /\ generateMessageId
  /\ Serve(t, "send", [NoRequest EXCEPT !.agent = a, !.id = NewId])
  /\ UNCHANGED <<maps, owner, sweep, held, cancelled, history, spoken>>

SendLocked(t) ==
  /\ pc[t] = "send"
  /\ owner = Free
  /\ Push(<<req[t].agent>>, req[t].id)
  /\ Return(t)
  /\ UNCHANGED <<agents, owner, message_id_counter_, sweep, held, cancelled,
                 delivered, lost, dropped, joined, spoken>>

BatchSendMessages(t) ==
  /\ pc[t] = "idle"
  /\ Serve(t, "batch", NoRequest)
  /\ UNCHANGED <<maps, owner, message_id_counter_, sweep, held, cancelled, history, spoken>>

BatchRead(t, a) ==
  /\ pc[t] = "batch"
  /\ generateMessageId
  /\ Serve(t, "batchSend", [NoRequest EXCEPT !.agent = a, !.id = NewId])
  /\ UNCHANGED <<maps, owner, sweep, held, cancelled, history, spoken>>

BatchLocked(t) ==
  /\ pc[t] = "batchSend"
  /\ owner = Free
  /\ Push(<<req[t].agent>>, req[t].id)
  /\ Serve(t, "batch", NoRequest)
  /\ UNCHANGED <<agents, owner, message_id_counter_, sweep, held, cancelled,
                 delivered, lost, dropped, joined, spoken>>

\* The stream of requests, or of real-time messages, has ended.
StreamEnd(t) ==
  /\ pc[t] \in {"batch", "chat"}
  /\ Return(t)
  /\ UNCHANGED <<maps, owner, message_id_counter_, sweep, held, cancelled, history, spoken>>

-----------------------------------------------------------------------------
(* BroadcastMessage and RealTimeCommunication.                             *)

\* exclude_sender makes no difference: both branches on it copy the targets.
BroadcastMessage(t, list) ==
  /\ pc[t] = "idle"
  /\ generateMessageId
  /\ Serve(t, "broadcast", [NoRequest EXCEPT !.id = NewId, !.targets = list])
  /\ UNCHANGED <<maps, owner, sweep, held, cancelled, history, spoken>>

BroadcastLocked(t) ==
  /\ pc[t] = "broadcast"
  /\ owner = Free
  /\ Push(req[t].targets, req[t].id)
  /\ Return(t)
  /\ UNCHANGED <<agents, owner, message_id_counter_, sweep, held, cancelled,
                 delivered, lost, dropped, joined, spoken>>

RealTimeCommunication(t) ==
  /\ pc[t] = "idle"
  /\ Serve(t, "chat", NoRequest)
  /\ UNCHANGED <<maps, owner, message_id_counter_, sweep, held, cancelled, history, spoken>>

\* A message keeps the id its client gave it.  Clients use an id once: this
\* bounds the run and lets a message be told apart.
ChatRead(t, m) ==
  /\ pc[t] = "chat"
  /\ m \notin spoken
  /\ spoken' = spoken \cup {m}
  /\ Serve(t, "chatSend", [NoRequest EXCEPT !.id = m])
  /\ UNCHANGED <<maps, owner, message_id_counter_, sweep, held, cancelled, history>>

ChatLocked(t) ==
  /\ pc[t] = "chatSend"
  /\ owner = Free
  /\ Push(<<>>, req[t].id)
  /\ Serve(t, "chat", NoRequest)
  /\ UNCHANGED <<agents, owner, message_id_counter_, sweep, held, cancelled,
                 delivered, lost, dropped, joined, spoken>>

-----------------------------------------------------------------------------
(* ReceiveMessage: pops up to max_messages messages, waiting up to the     *)
(* timeout for each of them, all of it with agents_mutex_ held.            *)

ReceiveMessage(t, a, quota, wait) ==
  /\ pc[t] = "idle"
  /\ Serve(t, "receive", [NoRequest EXCEPT !.agent = a, !.left = quota, !.wait = wait])
  /\ UNCHANGED <<maps, owner, message_id_counter_, sweep, held, cancelled, history, spoken>>

ReceiveLocked(t) ==
  /\ pc[t] = "receive"
  /\ owner = Free
  /\ \/ /\ req[t].agent \in DOMAIN queues
        /\ owner' = t
        /\ Serve(t, "popping", [req[t] EXCEPT !.age = 0])
     \/ /\ req[t].agent \notin DOMAIN queues
        /\ Serve(t, "respond", req[t])
        /\ UNCHANGED owner
  /\ UNCHANGED <<maps, message_id_counter_, sweep, held, cancelled, history, spoken>>

\* Mutant: one message more than were asked for.
ReceivePop_OneMore(t) ==
  /\ pc[t] = "popping"
  /\ Pop(t, req[t].agent)
  /\ Serve(t, "popping", [req[t] EXCEPT !.left = @ - 1, !.age = 0])
  /\ UNCHANGED <<agents, owner, message_id_counter_, sweep, cancelled, history, spoken>>

ReceivePop(t) ==
  /\ pc[t] = "popping"
  /\ req[t].left > 0
  /\ Pop(t, req[t].agent)
  /\ Serve(t, "popping", [req[t] EXCEPT !.left = @ - 1, !.age = 0])
  /\ UNCHANGED <<agents, owner, message_id_counter_, sweep, cancelled, history, spoken>>

\* Mutant: a timeout does not end the wait.
ReceiveUnlock_NoTimeout(t) ==
  /\ pc[t] = "popping"
  /\ req[t].left = 0
  /\ owner' = Free
  /\ Serve(t, "respond", req[t])
  /\ UNCHANGED <<maps, message_id_counter_, sweep, held, cancelled, history, spoken>>

\* The quota is used up, or the wait for one more message timed out.
ReceiveUnlock(t) ==
  /\ pc[t] = "popping"
  /\ \/ req[t].left = 0
     \/ queues[req[t].agent] = <<>> /\ req[t].age >= req[t].wait
  /\ owner' = Free
  /\ Serve(t, "respond", req[t])
  /\ UNCHANGED <<maps, message_id_counter_, sweep, held, cancelled, history, spoken>>

ReceiveRespond(t) ==
  /\ pc[t] = "respond"
  /\ delivered' = delivered \cup ({req[t].agent} \X {held[t][i] : i \in DOMAIN held[t]})
  /\ held' = [held EXCEPT ![t] = <<>>]
  /\ Return(t)
  /\ UNCHANGED <<maps, owner, message_id_counter_, sweep, cancelled,
                 accepted, lost, dropped, joined, spoken>>

-----------------------------------------------------------------------------
(* ListenMessages: takes agents_mutex_ for the whole life of the stream,   *)
(* until the client cancels it or a Write fails.                           *)

ListenMessages(t, a) ==
  /\ pc[t] = "idle"
  /\ Serve(t, "listen", [NoRequest EXCEPT !.agent = a])
  /\ UNCHANGED <<maps, owner, message_id_counter_, sweep, held, cancelled, history, spoken>>

ListenLocked(t) ==
  /\ pc[t] = "listen"
  /\ owner = Free
  /\ \/ /\ req[t].agent \in DOMAIN queues
        /\ owner' = t
        /\ Serve(t, "streaming", req[t])
        /\ UNCHANGED cancelled
     \/ /\ req[t].agent \notin DOMAIN queues    \* NOT_FOUND
        /\ Return(t)
        /\ cancelled' = cancelled \ {t}
        /\ UNCHANGED owner
  /\ UNCHANGED <<maps, message_id_counter_, sweep, held, history, spoken>>

\* Mutant: the last message is left in the queue.
ListenPop_OffByOne(t) ==
  /\ pc[t] = "streaming"
  /\ t \notin cancelled
  /\ Len(queues[req[t].agent]) > 1
  /\ Pop(t, req[t].agent)
  /\ Serve(t, "writing", req[t])
  /\ UNCHANGED <<agents, owner, message_id_counter_, sweep, cancelled, history, spoken>>

ListenPop(t) ==
  /\ pc[t] = "streaming"
  /\ t \notin cancelled
  /\ Pop(t, req[t].agent)
  /\ Serve(t, "writing", req[t])
  /\ UNCHANGED <<agents, owner, message_id_counter_, sweep, cancelled, history, spoken>>

ListenWrite(t) ==
  /\ pc[t] = "writing"
  /\ delivered' = delivered \cup {<<req[t].agent, Head(held[t])>>}
  /\ held' = [held EXCEPT ![t] = <<>>]
  /\ Serve(t, "streaming", req[t])
  /\ UNCHANGED <<maps, owner, message_id_counter_, sweep, cancelled,
                 accepted, lost, dropped, joined, spoken>>

\* Write returns false on a stream whose client is gone; the message is not put back.
ListenWriteFails(t) ==
  /\ pc[t] = "writing"
  /\ t \in cancelled
  /\ lost' = lost \cup {<<req[t].agent, Head(held[t])>>}
  /\ held' = [held EXCEPT ![t] = <<>>]
  /\ owner' = Free
  /\ cancelled' = cancelled \ {t}
  /\ Return(t)
  /\ UNCHANGED <<maps, message_id_counter_, sweep, accepted, delivered, dropped, joined, spoken>>

\* Mutant: a return that leaves the mutex locked.
ListenEnd_KeepsLock(t) ==
  /\ pc[t] = "streaming"
  /\ t \in cancelled
  /\ Return(t)
  /\ UNCHANGED <<maps, owner, cancelled, message_id_counter_, sweep, held, history, spoken>>

\* The loop sees IsCancelled().
ListenEnd(t) ==
  /\ pc[t] = "streaming"
  /\ t \in cancelled
  /\ owner' = Free
  /\ cancelled' = cancelled \ {t}
  /\ Return(t)
  /\ UNCHANGED <<maps, message_id_counter_, sweep, held, history, spoken>>

\* The client cancels its stream (or its connection breaks).
Cancel(t) ==
  /\ pc[t] \in {"listen", "streaming", "writing"}
  /\ t \notin cancelled
  /\ cancelled' = cancelled \cup {t}
  /\ UNCHANGED <<maps, owner, message_id_counter_, sweep, pc, req, held, history, spoken>>

-----------------------------------------------------------------------------
(* Membership: RegisterAgent, UnregisterAgent, Heartbeat and the cleanup.  *)

\* last_heartbeat is stamped before registerAgent waits for the mutex.
RegisterAgent(t) ==
  /\ pc[t] = "idle"
  /\ generateMessageId
  /\ Serve(t, "register", [NoRequest EXCEPT !.agent = NewId])
  /\ UNCHANGED <<maps, owner, sweep, held, cancelled, history, spoken>>

RegisterLocked(t) ==
  /\ pc[t] = "register"
  /\ owner = Free
  /\ registerAgent(req[t].agent, req[t].age)
  /\ Return(t)
  /\ UNCHANGED <<owner, message_id_counter_, sweep, held, cancelled,
                 accepted, delivered, lost, dropped, spoken>>

UnregisterAgent(t, a) ==
  /\ pc[t] = "idle"
  /\ Serve(t, "unregister", [NoRequest EXCEPT !.agent = a])
  /\ UNCHANGED <<maps, owner, message_id_counter_, sweep, held, cancelled, history, spoken>>

UnregisterLocked(t) ==
  /\ pc[t] = "unregister"
  /\ owner = Free
  /\ unregisterAgent({req[t].agent})
  /\ Return(t)
  /\ UNCHANGED <<owner, message_id_counter_, sweep, held, cancelled,
                 accepted, delivered, lost, joined, spoken>>

Heartbeat(t, a) ==
  /\ pc[t] = "idle"
  /\ Serve(t, "heartbeat", [NoRequest EXCEPT !.agent = a])
  /\ UNCHANGED <<maps, owner, message_id_counter_, sweep, held, cancelled, history, spoken>>

\* The answer is Success whether or not the agent is known.
HeartbeatLocked(t) ==
  /\ pc[t] = "heartbeat"
  /\ owner = Free
  /\ updateAgentHeartbeat(req[t].agent)
  /\ Return(t)
  /\ UNCHANGED <<queues, owner, message_id_counter_, sweep, held, cancelled, history, spoken>>

\* Agents whose last_heartbeat is more than 60 s old.
Offline == {a \in DOMAIN agents : agents[a] > OfflineAge}

\* Mutant: the cleanup does not take the mutex.
cleanupOfflineAgents_Unlocked ==
  /\ sweep = 0
  /\ unregisterAgent(Offline)
  /\ sweep' = 1
  /\ UNCHANGED <<owner, message_id_counter_, thread, accepted, delivered, lost, joined, spoken>>

\* The cleanup thread, woken by its sleep, evicts them and sleeps again.
cleanupOfflineAgents ==
  /\ sweep = 0
  /\ owner = Free
  /\ unregisterAgent(Offline)
  /\ sweep' = 1
  /\ UNCHANGED <<owner, message_id_counter_, thread, accepted, delivered, lost, joined, spoken>>

\* 30 s go by.
Tick ==
  /\ agents' = [a \in DOMAIN agents |-> Older(agents[a])]
  /\ req' = [t \in Handlers |->
               IF pc[t] \in {"popping", "register", "heartbeat"}
               THEN [req[t] EXCEPT !.age = Older(@)] ELSE req[t]]
  /\ sweep' = 0
  /\ UNCHANGED <<queues, owner, message_id_counter_, pc, held, cancelled, history, spoken>>

-----------------------------------------------------------------------------
Init ==
  /\ agents = [a \in {} |-> 0]
  /\ queues = [a \in {} |-> <<>>]
  /\ owner = Free
  /\ message_id_counter_ = 0
  /\ sweep = 1
  /\ pc = [t \in Handlers |-> "idle"]
  /\ req = [t \in Handlers |-> NoRequest]
  /\ held = [t \in Handlers |-> <<>>]
  /\ cancelled = {}
  /\ spoken = {}
  /\ accepted = {} /\ delivered = {} /\ lost = {} /\ dropped = {} /\ joined = {}

\* A new call reaches handler t.
Call(t) ==
  \/ \E a \in Named :
       \/ SendMessage(t, a)
       \/ ListenMessages(t, a)
       \/ UnregisterAgent(t, a)
       \/ Heartbeat(t, a)
       \/ \E quota \in Quotas, wait \in Waits : ReceiveMessage(t, a, quota, wait)
  \/ \E list \in Audiences : BroadcastMessage(t, list)
  \/ RegisterAgent(t)
  \/ BatchSendMessages(t)
  \/ RealTimeCommunication(t)

\* What the client of an open stream does.
Client(t) ==
  \/ \E a \in Named : BatchRead(t, a)
  \/ \E m \in ClientIds : ChatRead(t, m)
  \/ StreamEnd(t)
  \/ Cancel(t)

\* What handler t does in the critical section it needs the mutex for.
Locked(t) ==
  \/ SendLocked(t) \/ BatchLocked(t) \/ BroadcastLocked(t) \/ ChatLocked(t)
  \/ ReceiveLocked(t) \/ ListenLocked(t)
  \/ RegisterLocked(t) \/ UnregisterLocked(t) \/ HeartbeatLocked(t)

\* What handler t does with the mutex in its hands, and after it.
Work(t) ==
  \/ ReceivePop(t) \/ ReceiveUnlock(t) \/ ReceiveRespond(t)
  \/ ListenPop(t) \/ ListenWrite(t) \/ ListenWriteFails(t) \/ ListenEnd(t)

Next ==
  \/ \E t \in Handlers : Call(t) \/ Client(t) \/ Locked(t) \/ Work(t)
  \/ cleanupOfflineAgents
  \/ Tick

Spec == Init /\ [][Next]_vars

\* The OS runs a thread that can run, the clock goes on and the cleanup thread
\* wakes up.  Nothing is assumed of the clients, nor of who wins the mutex.
FairSpec ==
  /\ Spec
  /\ \A t \in Handlers : WF_vars(Work(t))
  /\ WF_vars(Tick)
  /\ WF_vars(cleanupOfflineAgents)

-----------------------------------------------------------------------------
TypeOK ==
  /\ agents \in [DOMAIN agents -> Ages]
  /\ DOMAIN agents \subseteq AgentId
  /\ queues \in [DOMAIN queues -> Seq(Copy)]
  /\ DOMAIN queues \subseteq AgentId
  /\ owner \in Handlers \cup {Free}
  /\ message_id_counter_ \in 0..MaxId
  /\ sweep \in {0, 1}
  /\ pc \in [Handlers -> Locations]
  /\ req \in [Handlers -> Request]
  /\ held \in [Handlers -> Seq(Copy)]
  /\ cancelled \subseteq Handlers
  /\ spoken \subseteq ClientIds
  /\ accepted \subseteq AgentId \X Copy
  /\ delivered \subseteq AgentId \X Copy
  /\ lost \subseteq AgentId \X Copy
  /\ dropped \subseteq AgentId \X Copy
  /\ joined \subseteq AgentId

\* The two maps always have the same ids: no registration, unregistration or
\* eviction, interleaved in any way, leaves an agent without a queue or a queue
\* that nobody can remove any more.
OneQueuePerAgent == DOMAIN agents = DOMAIN queues

Inside == {"popping", "streaming", "writing"}

\* ReceiveMessage and ListenMessages find the queue once and use the iterator
\* until they unlock, over waits and network writes: no unregistration or
\* eviction may erase that queue meanwhile.
IteratorStaysValid ==
  \A t \in Handlers : pc[t] \in Inside => owner = t /\ req[t].agent \in DOMAIN queues

Places(seq, c) == Cardinality({i \in DOMAIN seq : seq[i] = c})
Queued(a, c)   == IF a \in DOMAIN queues THEN Places(queues[a], c) ELSE 0
InHand(a, c)   ==
  Cardinality(UNION {{t} \X {i \in DOMAIN held[t] : held[t][i] = c} :
                       t \in {s \in Handlers : req[s].agent = a}})
One(S, a, c) == IF <<a, c>> \in S THEN 1 ELSE 0

\* Every copy of a message accepted for an agent, one for each time a broadcast
\* names it, is in exactly one place: its queue, the hands of the one call that
\* popped it, a response, a stream, a failed write, or the queue that went away
\* with its agent.  Concurrent receivers, listeners, evictions and senders
\* neither duplicate it nor make it vanish.
Accounted ==
  \A a \in AgentId, c \in Copy :
    Queued(a, c) + InHand(a, c) + One(delivered, a, c) + One(lost, a, c)
      + One(dropped, a, c) = One(accepted, a, c)

Hub == INSTANCE Mailbox WITH Agent <- AgentId, Message <- MsgId,
                             box <- queues, opened <- joined

\* Behind the mutex the service is a set of FIFO mailboxes: a broadcast is one
\* atomic post of as many copies as its list of targets has for each agent,
\* receivers take in posting order, and the id of a former agent never gets a
\* mailbox again although agents and messages share one counter.
MailboxSpec == Hub!BoxSpec

\* A receive call that got the mutex gives it back, quota and timeouts permitting:
\* nobody can push a message that would restart its wait.
ReceiveReturns == \A t \in Handlers : (pc[t] = "popping") ~> (pc[t] = "respond")

\* A cancelled stream gives the mutex back, whatever is still queued for it.
CancelReleases ==
  \A t \in Handlers : (owner = t /\ t \in cancelled) ~> (owner # t)

\* A message queued for an agent whose stream is open is written to the stream,
\* or is still there when the stream ends.
ListenDrains ==
  \A t \in Handlers, c \in Copy :
    (pc[t] = "streaming" /\ Queued(req[t].agent, c) > 0)
      ~> (pc[t] = "idle" \/ <<req[t].agent, c>> \in delivered)

=============================================================================
