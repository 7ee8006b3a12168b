---------------------------- MODULE SseTransport ----------------------------
(***************************************************************************)
(* The SSE transport of the MCP server                                     *)
(* (mcp_server_integrated/src/transport/SseTransport.cpp): clients POST    *)
(* requests to a queue that the server reads, and read answers and         *)
(* notifications from the event stream of GET /sse, whose content provider *)
(* runs on a thread of the HTTP library's pool and takes messages from a   *)
(* second queue.                                                           *)
(*                                                                         *)
(* The flags are three atomics that no lock ties together, so each store   *)
(* to them is a step, and so is a handler's test of one before its effect. *)
(* The queues have a mutex each, held only to push or pop.                 *)
(***************************************************************************)
EXTENDS Naturals, Sequences

CONSTANTS
  Streams,      \* threads of the pool that serve event streams
  Kinds,        \* what clients post: see McpServer
  MaxRequests   \* bound on the requests posted

ASSUME TransportAssumption == MaxRequests \in Nat

VARIABLES
  server_running_, client_connected_, sse_active_,
  listening,            \* the library's socket: "no", "binding", "open", "closed", "failed"
  incoming_messages_,   \* requests: [n |-> number, kind |-> kind]
  outgoing_messages_,   \* messages: <<"answer", n>> or <<"note", n>>
  stream,               \* where each stream's thread is
  hand,                 \* the message it has popped and not yet written
  gone,                 \* the streams whose client has left
  accepting,            \* how many POSTs have passed the test and not pushed yet
  posted,               \* requests accepted so far
  sent,                 \* history: what each thread has sent to its clients
  missed,               \* history: messages dropped for want of a client
  departed              \* history: a client has left

flags   == <<server_running_, client_connected_, sse_active_, listening>>
queues  == <<incoming_messages_, outgoing_messages_>>
posts   == <<accepting, posted>>
clients == <<gone, departed>>
traffic == <<queues, stream, hand, clients, posts, sent, missed>>
transportVars == <<flags, traffic>>

StreamLocations ==
  {"none", "opening", "serving", "writing", "terminating", "closing"}

TransportInit ==
  /\ server_running_ = FALSE /\ client_connected_ = FALSE /\ sse_active_ = FALSE
  /\ listening = "no"
  /\ incoming_messages_ = <<>> /\ outgoing_messages_ = <<>>
  /\ stream = [s \in Streams |-> "none"]
  /\ hand = [s \in Streams |-> <<>>]
  /\ gone = {} /\ departed = FALSE
  /\ accepting = 0 /\ posted = 0
  /\ sent = [s \in Streams |-> <<>>]
  /\ missed = {}

StreamAt(s, l) == stream' = [stream EXCEPT ![s] = l]

-----------------------------------------------------------------------------
(* Clients                                                                 *)

\* HandlePostMessage: the test for a connected client (without one the answer
\* is 503), and the push.
HandlePostMessage ==
  /\ listening = "open" /\ client_connected_ /\ accepting + posted < MaxRequests
  /\ accepting' = accepting + 1
  /\ UNCHANGED <<flags, queues, stream, hand, clients, posted, sent, missed>>

PushRequest ==
  /\ accepting > 0
  /\ accepting' = accepting - 1 /\ posted' = posted + 1
  /\ \E k \in Kinds :
       incoming_messages_' = Append(incoming_messages_, [n |-> posted + 1, kind |-> k])
  /\ UNCHANGED <<flags, outgoing_messages_, stream, hand, clients, sent, missed>>

\* Mutant: a new connection first ends the one there is.
HandleSSEConnection_Replaces(s) ==
  /\ listening = "open" /\ stream[s] = "none"
  /\ client_connected_' = TRUE /\ sse_active_' = FALSE
  /\ gone' = gone \ {s}
  /\ StreamAt(s, "opening")
  /\ UNCHANGED <<server_running_, listening, queues, hand, departed, posts, sent, missed>>

\* HandleSSEConnection sets one flag after the other.
HandleSSEConnection(s) ==
  /\ listening = "open" /\ stream[s] = "none"
  /\ client_connected_' = TRUE
  /\ gone' = gone \ {s}
  /\ StreamAt(s, "opening")
  /\ UNCHANGED <<server_running_, sse_active_, listening, queues, hand, departed, posts,
                 sent, missed>>

Activate(s) ==
  /\ stream[s] = "opening"
  /\ sse_active_' = TRUE
  /\ StreamAt(s, "serving")
  /\ UNCHANGED <<server_running_, client_connected_, listening, queues, hand, clients, posts,
                 sent, missed>>

ClientLeaves(s) ==
  /\ stream[s] # "none"
  /\ gone' = gone \cup {s} /\ departed' = TRUE
  /\ UNCHANGED <<flags, queues, stream, hand, posts, sent, missed>>

-----------------------------------------------------------------------------
(* The content provider.  (The endpoint event and the pings matter only as *)
(* writes that may notice that the client has left.)                       *)

\* Mutant: the message stays in the queue.
TakeOutgoing_Copies(s) ==
  /\ stream[s] = "serving" /\ sse_active_ /\ outgoing_messages_ # <<>>
  /\ hand' = [hand EXCEPT ![s] = <<Head(outgoing_messages_)>>]
  /\ StreamAt(s, "writing")
  /\ UNCHANGED <<flags, queues, clients, posts, sent, missed>>

TakeOutgoing(s) ==
  /\ stream[s] = "serving" /\ sse_active_ /\ outgoing_messages_ # <<>>
  /\ hand' = [hand EXCEPT ![s] = <<Head(outgoing_messages_)>>]
  /\ outgoing_messages_' = Tail(outgoing_messages_)
  /\ StreamAt(s, "writing")
  /\ UNCHANGED <<flags, incoming_messages_, clients, posts, sent, missed>>

\* Mutant: a message that was not written is queued again.
WriteEvent_Requeues(s) ==
  /\ stream[s] = "writing"
  /\ hand' = [hand EXCEPT ![s] = <<>>]
  /\ IF s \in gone
     THEN /\ outgoing_messages_' = Append(outgoing_messages_, Head(hand[s]))
          /\ StreamAt(s, "terminating") /\ UNCHANGED sent
     ELSE /\ sent' = [sent EXCEPT ![s] = Append(@, Head(hand[s]))]
          /\ StreamAt(s, "serving") /\ UNCHANGED outgoing_messages_
  /\ UNCHANGED <<flags, incoming_messages_, clients, posts, missed>>

\* sink.write: what is written to a client that has left is lost, and the
\* write may or may not tell.
WriteEvent(s) ==
  /\ stream[s] = "writing"
  /\ hand' = [hand EXCEPT ![s] = <<>>]
  /\ IF s \in gone
     THEN /\ missed' = missed \cup {Head(hand[s])} /\ UNCHANGED sent
          /\ \E l \in {"serving", "terminating"} : StreamAt(s, l)
     ELSE /\ sent' = [sent EXCEPT ![s] = Append(@, Head(hand[s]))] /\ UNCHANGED missed
          /\ StreamAt(s, "serving")
  /\ UNCHANGED <<flags, queues, clients, posts>>

\* A write without a message fails, or the stream is found inactive.
GiveUp(s) ==
  /\ stream[s] = "serving"
  /\ s \in gone \/ ~sse_active_
  /\ StreamAt(s, "terminating")
  /\ UNCHANGED <<flags, queues, hand, clients, posts, sent, missed>>

\* terminate: first one flag, then the other, whoever else is connected.
Terminate(s) ==
  /\ \/ stream[s] = "terminating" /\ sse_active_' = FALSE /\ StreamAt(s, "closing")
        /\ UNCHANGED client_connected_
     \/ stream[s] = "closing" /\ client_connected_' = FALSE /\ StreamAt(s, "none")
        /\ UNCHANGED sse_active_
  /\ UNCHANGED <<server_running_, listening, queues, hand, clients, posts, sent, missed>>

\* write_content_without_length: before each call of the provider the HTTP
\* library looks whether it shuts down and whether the client can be written to;
\* if so, or if not, it ends the stream without a word to the transport.
LibraryCloses(s) ==
  /\ stream[s] = "serving"
  /\ s \in gone \/ listening = "closed"
  /\ StreamAt(s, "none")
  /\ UNCHANGED <<flags, queues, hand, clients, posts, sent, missed>>

Provide(s) ==
  \/ Activate(s)
  \/ TakeOutgoing(s) \/ WriteEvent(s)
  \/ GiveUp(s) \/ Terminate(s) \/ LibraryCloses(s)

Client(s) == HandleSSEConnection(s) \/ ClientLeaves(s)

-----------------------------------------------------------------------------
(* What the server calls.                                                  *)

\* Read waits on incoming_cv_ for a request and takes the first.
Read ==
  /\ incoming_messages_ # <<>>
  /\ incoming_messages_' = Tail(incoming_messages_)
  /\ UNCHANGED <<flags, outgoing_messages_, stream, hand, clients, posts, sent, missed>>

\* Write drops the message when no client is connected ...
Drop(m) ==
  /\ missed' = missed \cup {m}
  /\ UNCHANGED <<flags, queues, stream, hand, clients, posts, sent>>

\* ... and else queues it.
Write(m) ==
  /\ outgoing_messages_' = Append(outgoing_messages_, m)
  /\ UNCHANGED <<flags, incoming_messages_, stream, hand, clients, posts, sent, missed>>

\* Start: the flag, and the thread that listens.
Start ==
  /\ server_running_' = TRUE /\ listening' = "binding"
  /\ UNCHANGED <<client_connected_, sse_active_, traffic>>

Binds ==
  /\ listening = "binding" /\ listening' = "open"
  /\ UNCHANGED <<server_running_, client_connected_, sse_active_, traffic>>

StreamsEnded == accepting = 0 /\ \A s \in Streams : stream[s] = "none"

\* listen fails: the port is taken, or no more connections are accepted; it
\* returns when the threads of the pool have ended.
ListenFails ==
  /\ listening \in {"binding", "open"} /\ StreamsEnded
  /\ server_running_' = FALSE /\ listening' = "failed"
  /\ UNCHANGED <<client_connected_, sse_active_, traffic>>

\* Stop: the three flags, one after the other ...
StopRunning ==
  /\ server_running_' = FALSE
  /\ UNCHANGED <<client_connected_, sse_active_, listening, traffic>>

StopConnected ==
  /\ client_connected_' = FALSE
  /\ UNCHANGED <<server_running_, sse_active_, listening, traffic>>

StopActive ==
  /\ sse_active_' = FALSE
  /\ UNCHANGED <<server_running_, client_connected_, listening, traffic>>

\* ... and the socket.  The library's stop does nothing while it is not open.
CloseSocket ==
  /\ listening' = IF listening = "open" THEN "closed" ELSE listening
  /\ UNCHANGED <<server_running_, client_connected_, sse_active_, traffic>>

\* The thread that listens has returned, and waited for the pool.
ListenerEnded == listening \in {"closed", "failed"} /\ StreamsEnded

TransportTypeOK ==
  /\ server_running_ \in BOOLEAN /\ client_connected_ \in BOOLEAN /\ sse_active_ \in BOOLEAN
  /\ incoming_messages_ \in Seq([n : 1..MaxRequests, kind : Kinds])
  /\ outgoing_messages_ \in Seq({"answer", "note"} \X (Nat \ {0}))
  /\ stream \in [Streams -> StreamLocations]
  /\ hand \in [Streams -> Seq({"answer", "note"} \X (Nat \ {0}))]
  /\ gone \subseteq Streams
  /\ listening \in {"no", "binding", "open", "closed", "failed"} /\ departed \in BOOLEAN
  /\ accepting \in 0..MaxRequests /\ posted \in 0..MaxRequests
  /\ accepting + posted <= MaxRequests
  /\ sent \in [Streams -> Seq({"answer", "note"} \X (Nat \ {0}))]
  /\ missed \subseteq {"answer", "note"} \X (Nat \ {0})

=============================================================================
