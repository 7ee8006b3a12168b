------------------------------ MODULE McpClient ------------------------------
(***************************************************************************)
(* The MCP client (mcp_client.cpp) and the tool manager and integrator     *)
(* that sit on it (mcp_tool_manager.cpp).  Threads call the client; its    *)
(* reader thread puts what the server writes into response_queue_, or runs *)
(* the notification callback, which may itself call the client; a control  *)
(* thread connects, initialises, shuts down and disconnects.  There is one  *)
(* client at a time: an application's own, over stdio or SSE, or that of    *)
(* an integrator, which makes a new one, over stdio, when it initialises.   *)
(*                                                                         *)
(* A call takes the first response in the queue, whatever its id: ids are  *)
(* the second of the call, and nobody compares them.  Here requests are    *)
(* numbered, and 0 stands for a message that answers none.                 *)
(***************************************************************************)
EXTENDS Naturals, Sequences

CONSTANTS
  Threads,       \* threads that call the client
  Reader, Control,
  MaxRequests, MaxMessages, MaxConnects   \* bounds

ASSUME McpClientAssumption ==
  /\ Reader \notin Threads /\ Control \notin Threads /\ Reader # Control
  /\ {MaxRequests, MaxMessages, MaxConnects} \subseteq Nat

VARIABLES
  transport_type_,     \* the configuration's: "stdio" or "sse"
  connected_, running_,
  channel,             \* the pipes, or curl_handle_, are there
  response_queue_,
  reader,              \* notification_thread_ or sse_event_thread_
  control,             \* what the control thread is in
  tool_manager_, initialized_,
  available_tools_,    \* the manager lists the server's tools
  at, id,              \* where each caller is, and its request
  detached,            \* threads that executeToolAsync has detached
  crashed,
  requests,            \* what each request asks for
  pending,             \* answers the server has still to write to the stream
  messages, connects,  \* messages that answer nothing, and connections, so far
  mixed,               \* history: see Mixed
  foreign              \* history: a call has returned the answer to another

connection == <<transport_type_, connected_, running_, channel, reader, control, connects>>
manager    == <<tool_manager_, initialized_, available_tools_>>
calls      == <<at, id, detached, requests>>
ghosts     == <<mixed, foreign>>
vars == <<connection, response_queue_, manager, calls, crashed, pending, messages, ghosts>>

Callers == Threads \cup {Reader, Control}

Init ==
  /\ transport_type_ \in {"stdio", "sse"}
  /\ connected_ = FALSE /\ running_ = FALSE /\ channel = FALSE
  /\ response_queue_ = <<>>
  /\ reader = "none" /\ control = "idle"
  /\ tool_manager_ = FALSE /\ initialized_ = FALSE /\ available_tools_ = FALSE
  /\ at = [c \in Callers |-> "idle"] /\ id = [c \in Callers |-> 0]
  /\ detached = {} /\ crashed = FALSE
  /\ requests = <<>> /\ pending = {} /\ messages = 0 /\ connects = 0
  /\ mixed = FALSE /\ foreign = FALSE

Push(r) == response_queue_' = Append(response_queue_, r)

\* A caller is told the wrong answer, if ever, after one of these: a call gave
\* up, two calls overlapped, or the queue took a message that answers none.
Mixed(b) == mixed' = (mixed \/ b)

-----------------------------------------------------------------------------
(* Connection                                                              *)

\* Over stdio the reader starts once the flags are set.
ConnectStdio ==
  /\ control = "idle" /\ ~connected_ /\ connects < MaxConnects
  /\ transport_type_ = "stdio"
  /\ connected_' = TRUE /\ running_' = TRUE /\ channel' = TRUE
  /\ reader' = "reading"
  /\ connects' = connects + 1
  /\ UNCHANGED <<transport_type_, control, response_queue_, manager, calls, crashed,
                 pending, messages, ghosts>>

\* Over SSE a first GET may already bring a message, and the reader starts
\* before the flags are set.
connectSSE ==
  /\ control = "idle" /\ ~connected_ /\ connects < MaxConnects
  /\ transport_type_ = "sse"
  /\ channel' = TRUE /\ reader' = "started" /\ control' = "connecting"
  /\ connects' = connects + 1
  /\ \/ UNCHANGED <<response_queue_, mixed, messages>>
     \/ messages < MaxMessages /\ messages' = messages + 1 /\ Push(0) /\ Mixed(TRUE)
  /\ UNCHANGED <<transport_type_, connected_, running_, manager, calls, crashed,
                 pending, foreign>>

SetConnected ==
  /\ control = "connecting"
  /\ connected_' = TRUE /\ running_' = TRUE
  /\ control' = "idle"
  /\ UNCHANGED <<transport_type_, channel, reader, connects, response_queue_, manager,
                 calls, crashed, pending, messages, ghosts>>

Leave ==
  /\ running_' = FALSE /\ connected_' = FALSE
  /\ control' = "leaving"

disconnect ==
  /\ control = "idle" /\ connected_
  /\ Leave
  /\ UNCHANGED <<transport_type_, channel, reader, connects, response_queue_, manager,
                 calls, crashed, pending, messages, ghosts>>

\* disconnect joins the reader; over stdio it then sends the server a SIGTERM
\* and waits for it, without a limit.
JoinReader ==
  /\ control = "leaving" /\ reader = "ended"
  /\ reader' = "none"
  /\ control' = IF transport_type_ = "stdio" THEN "waitpid" ELSE "closing"
  /\ UNCHANGED <<transport_type_, connected_, running_, channel, connects, response_queue_,
                 manager, calls, crashed, pending, messages, ghosts>>

\* The server's process ends, if it does not ignore the signal.
ServerExits ==
  /\ control = "waitpid"
  /\ control' = "closing"
  /\ UNCHANGED <<transport_type_, connected_, running_, channel, reader, connects,
                 response_queue_, manager, calls, crashed, pending, messages, ghosts>>

\* The pipes or the session are closed; the queue keeps what is in it.  Without
\* a manager that owns it the client is freed, under the threads that were
\* detached inside it.
Disconnected ==
  /\ control = "closing"
  /\ control' = "idle"
  /\ channel' = FALSE
  /\ pending' = {}
  /\ crashed' \in (IF detached # {} THEN BOOLEAN ELSE {FALSE})
  /\ UNCHANGED <<transport_type_, connected_, running_, reader, connects, response_queue_,
                 manager, calls, messages, ghosts>>

Connection ==
  \/ ConnectStdio \/ connectSSE \/ SetConnected
  \/ disconnect \/ JoinReader \/ ServerExits \/ Disconnected

-----------------------------------------------------------------------------
(* Calls.  listTools is a call like the others; its result is stored.      *)

Calling == {c \in Callers : at[c] \in {"sending", "waiting"}}

\* Each call first asks whether the client is connected.
Begin(c, what) ==
  /\ at[c] = "idle" /\ connected_ /\ Len(requests) < MaxRequests
  /\ at' = [at EXCEPT ![c] = "sending"]
  /\ requests' = Append(requests, what)
  /\ id' = [id EXCEPT ![c] = Len(requests) + 1]
  /\ Mixed(Calling # {})
  /\ UNCHANGED foreign

\* callTool and the calls for prompts and resources, straight to the client.
callTool(c) ==
  /\ Begin(c, "call")
  /\ UNCHANGED <<connection, response_queue_, manager, detached, crashed, pending, messages>>

\* executeTool, and executeToolAsync, whose thread holds only this.
executeTool(c) ==
  /\ initialized_ /\ available_tools_
  /\ Begin(c, "call")
  /\ detached' \in {detached, detached \cup {c}}
  /\ UNCHANGED <<connection, response_queue_, manager, crashed, pending, messages>>

refreshTools(c) ==
  /\ tool_manager_
  /\ Begin(c, "list")
  /\ UNCHANGED <<connection, response_queue_, manager, detached, crashed, pending, messages>>

\* Where a call goes that has not got its answer.
Return(c) ==
  /\ at' = [at EXCEPT ![c] = IF requests[id[c]] = "list" THEN "storing none" ELSE "idle"]
  /\ id' = [id EXCEPT ![c] = 0]
  /\ detached' = detached \ {c}

\* Where it goes that has been sent.
Sent(c) ==
  /\ channel
  /\ at' = [at EXCEPT ![c] = "waiting"]
  /\ UNCHANGED <<id, detached>>

\* stdin_pipe_ holds the number of the end that was closed: the write fails,
\* or goes to whatever was given that number since.
sendRequestStdio(c) ==
  /\ transport_type_ = "stdio" /\ at[c] = "sending"
  /\ \/ Return(c)
     \/ Sent(c)
  /\ UNCHANGED <<connection, response_queue_, manager, crashed, requests, pending,
                 messages, ghosts>>

\* Mutant: the body is queued although the transfer failed.
sendRequestSSE_PushesOnError(c) ==
  /\ transport_type_ = "sse" /\ at[c] = "sending"
  /\ \/ Return(c) /\ Push(id[c])
     \/ Sent(c) /\ Push(id[c])
  /\ UNCHANGED <<connection, manager, crashed, requests, pending, messages, ghosts>>

\* The POST may fail although it arrived; its body may be empty, the answer,
\* or some text ("Accepted"), which is queued all the same.
sendRequestSSE(c) ==
  /\ transport_type_ = "sse" /\ at[c] = "sending"
  /\ \/ /\ Return(c)
        /\ \/ UNCHANGED <<pending, mixed>>
           \/ channel /\ pending' = pending \cup {id[c]} /\ Mixed(TRUE)
        /\ UNCHANGED response_queue_
     \/ /\ Sent(c)
        /\ \/ Push(id[c]) /\ UNCHANGED <<pending, mixed>>
           \/ /\ pending' \in {pending, pending \cup {id[c]}}
              /\ \/ UNCHANGED <<response_queue_, mixed>>
                 \/ Push(0) /\ Mixed(TRUE)
  /\ UNCHANGED <<connection, manager, crashed, requests, messages, foreign>>

\* The first response, whatever it answers.
Receive(c) ==
  /\ at[c] = "waiting" /\ response_queue_ # <<>>
  /\ response_queue_' = Tail(response_queue_)
  /\ LET r == Head(response_queue_)
     IN  /\ foreign' = (foreign \/ r # id[c])
         /\ \/ Return(c)
            \/ /\ requests[id[c]] = "list" /\ r # 0 /\ requests[r] = "list"
               /\ at' = [at EXCEPT ![c] = "storing tools"]
               /\ id' = [id EXCEPT ![c] = 0]
               /\ UNCHANGED detached
  /\ UNCHANGED <<connection, manager, crashed, requests, pending, messages, mixed>>

\* Mutant: the wait has no limit.
RequestTimeout_Never(c) ==
  /\ FALSE
  /\ UNCHANGED <<vars, c>>

\* receiveResponse gives up after 30 seconds.
RequestTimeout(c) ==
  /\ at[c] = "waiting" /\ response_queue_ = <<>>
  /\ Return(c)
  /\ Mixed(TRUE)
  /\ UNCHANGED <<connection, response_queue_, manager, crashed, requests, pending,
                 messages, foreign>>

\* refreshTools replaces what the manager lists, by nothing if the call failed.
Store(c) ==
  /\ at[c] \in {"storing none", "storing tools"}
  /\ available_tools_' = (tool_manager_ /\ at[c] = "storing tools")
  /\ at' = [at EXCEPT ![c] = "idle"]
  /\ UNCHANGED <<connection, response_queue_, tool_manager_, initialized_, id, detached,
                 crashed, requests, pending, messages, ghosts>>

CallStep(c) ==
  sendRequestStdio(c) \/ sendRequestSSE(c) \/ Receive(c) \/ RequestTimeout(c) \/ Store(c)

-----------------------------------------------------------------------------
(* The manager's life, on the control thread                               *)

\* MCPServiceIntegrator::initialize: a new client, with a queue of its own.  (A
\* call still under way on the former client has nothing to do with the new
\* one; here there is none.)
initialize ==
  /\ control = "idle" /\ ~tool_manager_ /\ ~connected_ /\ connects < MaxConnects
  /\ transport_type_ = "stdio" /\ Calling = {}
  /\ connected_' = TRUE /\ running_' = TRUE /\ channel' = TRUE
  /\ reader' = "reading" /\ control' = "managing"
  /\ connects' = connects + 1
  /\ response_queue_' = <<>>
  /\ UNCHANGED <<transport_type_, manager, calls, crashed, pending, messages, ghosts>>

\* The manager, whose initialize lists the server's tools.
CreateManager ==
  /\ control = "managing"
  /\ tool_manager_' = TRUE /\ control' = "initializing"
  /\ Begin(Control, "list")
  /\ UNCHANGED <<transport_type_, connected_, running_, channel, reader, connects,
                 response_queue_, initialized_, available_tools_, detached, crashed,
                 pending, messages>>

Initialized ==
  /\ control = "initializing" /\ at[Control] = "idle"
  /\ initialized_' = TRUE
  /\ control' = "idle"
  /\ UNCHANGED <<transport_type_, connected_, running_, channel, reader, connects,
                 response_queue_, tool_manager_, available_tools_, calls, crashed,
                 pending, messages, ghosts>>

\* The manager goes first, under the reader if it is refreshing the tools.
shutdown ==
  /\ control = "idle" /\ initialized_
  /\ tool_manager_' = FALSE /\ initialized_' = FALSE /\ available_tools_' = FALSE
  /\ IF connected_ THEN Leave ELSE UNCHANGED <<connected_, running_, control>>
  /\ crashed' \in (IF at[Reader] # "idle" \/ detached # {} THEN BOOLEAN ELSE {FALSE})
  /\ UNCHANGED <<transport_type_, channel, reader, connects, response_queue_, calls,
                 pending, messages, ghosts>>

Management == initialize \/ CreateManager \/ Initialized \/ shutdown

-----------------------------------------------------------------------------
(* The reader                                                              *)

ReaderLoop(location) ==
  /\ reader' = location
  /\ UNCHANGED <<transport_type_, connected_, running_, channel, control, connects,
                 response_queue_, manager, calls, crashed, messages, ghosts>>

\* Mutant: the flag is not looked at while nothing arrives.
TestRunning_OnlyOnce ==
  /\ reader = "started"
  /\ ReaderLoop(IF running_ THEN "reading" ELSE "ended")
  /\ UNCHANGED pending

\* while (running_): the pipe is polled, and the flag with it; the stream is
\* waited for.
TestRunning ==
  /\ \/ reader = "started"
     \/ reader = "reading" /\ transport_type_ = "stdio" /\ ~running_ /\ at[Reader] = "idle"
  /\ ReaderLoop(IF running_ THEN "reading" ELSE "ended")
  /\ UNCHANGED pending

\* The end of the pipe ends the loop; a stream that ends, or that
\* sseWriteCallback aborts with the value it does not return, is opened again.
StreamEnds ==
  /\ reader = "reading" /\ at[Reader] = "idle"
  /\ ReaderLoop(IF transport_type_ = "sse" THEN "started" ELSE "ended")
  /\ pending' \in {pending, {}}

\* An answer on the stream.
ReadAnswer ==
  /\ reader = "reading" /\ at[Reader] = "idle"
  /\ \E r \in pending : pending' = pending \ {r} /\ Push(r)
  /\ UNCHANGED <<connection, manager, calls, crashed, messages, ghosts>>

\* A message that answers no request is queued as if it did (over stdio a
\* notification is, for want of an error; over SSE a request of the server's),
\* or is a notification for the callback, which refreshes the tools here, on
\* the reader's thread.
ReadMessage ==
  /\ reader = "reading" /\ at[Reader] = "idle" /\ messages < MaxMessages
  /\ messages' = messages + 1
  /\ \/ /\ Push(0) /\ Mixed(TRUE)
        /\ UNCHANGED <<at, id, requests, foreign>>
     \/ /\ tool_manager_
        /\ Begin(Reader, "list")
        /\ UNCHANGED response_queue_
  /\ UNCHANGED <<connection, manager, detached, crashed, pending>>

Reading == TestRunning \/ StreamEnds \/ ReadAnswer \/ ReadMessage

-----------------------------------------------------------------------------
Next ==
  /\ ~crashed
  /\ \/ Connection \/ Management \/ Reading
     \/ \E c \in Threads : callTool(c) \/ executeTool(c) \/ refreshTools(c)
     \/ \E c \in Callers : CallStep(c)

Spec == Init /\ [][Next]_vars

\* Threads are scheduled and time passes; the server owes nothing, not even
\* to exit when it is told to.
FairSpec ==
  /\ Spec
  /\ WF_vars(~crashed /\ (SetConnected \/ JoinReader \/ Disconnected \/ Initialized))
  /\ WF_vars(~crashed /\ TestRunning)
  /\ \A c \in Callers : WF_vars(~crashed /\ CallStep(c))

-----------------------------------------------------------------------------
(* Properties                                                              *)

\* The types; the reader calls only while it reads, the control thread only
\* while it initialises, and there is no reader without its channel.
TypeOK ==
  /\ transport_type_ \in {"stdio", "sse"}
  /\ {connected_, running_, channel, tool_manager_, initialized_, available_tools_,
      crashed, mixed, foreign} \subseteq BOOLEAN
  /\ response_queue_ \in Seq(0..Len(requests))
  /\ reader \in {"none", "started", "reading", "ended"}
  /\ control \in {"idle", "connecting", "leaving", "waitpid", "closing", "managing",
                 "initializing"}
  /\ \A c \in Callers :
       /\ at[c] \in {"idle", "sending", "waiting", "storing none", "storing tools"}
       /\ id[c] \in 0..Len(requests)
       /\ (id[c] # 0) = (at[c] \in {"sending", "waiting"})
  /\ at[Reader] # "idle" => reader = "reading"
  /\ at[Control] # "idle" => control = "initializing"
  /\ (reader # "none" \/ control \in {"waitpid", "closing"}) = channel
  /\ detached \subseteq {c \in Threads : at[c] # "idle"}
  /\ pending \subseteq 1..Len(requests)

\* A call returns the answer to its own request, although it takes whatever is
\* first, as long as no call ever gave up or overlapped another and the server
\* wrote nothing but answers; a queue that a disconnect leaves behind included.
OwnAnswer == TypeOK /\ (foreign => mixed)

\* disconnect returns over stdio, even when it comes while the reader's thread
\* waits for an answer that only it could read: nothing but a server that does
\* not end on a SIGTERM can keep it.
DisconnectReturns ==
  transport_type_ = "stdio" /\ control \in {"leaving", "closing"}
    ~> control \in {"idle", "waitpid"} \/ crashed

=============================================================================
