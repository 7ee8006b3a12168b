------------------------------ MODULE McpServer ------------------------------
(***************************************************************************)
(* The MCP server (mcp_server_integrated/src/server/Server.cpp and         *)
(* main.cpp) on its SSE transport.  The main thread runs Connect: it reads *)
(* a request, handles it and writes the answer.  Plugins called from there *)
(* may send notifications; these go through a queue to the writer thread.  *)
(* output_mutex_ guards that queue and the writes to the transport.        *)
(* Ctrl+C runs stop_handler on the main thread, wherever it is; it calls   *)
(* Stop and never returns.  The server also stops when Connect returns:    *)
(* the destructor of the global server calls Stop.                         *)
(*                                                                         *)
(* The kinds of requests: "call" (answered; a plugin that handles it may   *)
(* send notifications), "notification" (no answer), "broken" (no JSON),    *)
(* "odd" (an exception other than a parse error, as an unknown method with *)
(* an id that is no number).                                               *)
(***************************************************************************)
EXTENDS SseTransport, FiniteSets

CONSTANTS
  MAX_PARSER_ERRORS,
  MaxNotes             \* bound on the notifications sent

ASSUME ServerAssumption ==
  /\ MAX_PARSER_ERRORS \in Nat /\ MaxNotes \in Nat
  /\ Kinds \subseteq {"call", "notification", "broken", "odd"}

VARIABLES
  transport_,          \* the pointer is not null
  writer_running_,
  parserErrors_,
  notification_queue_, \* notifications, numbered
  output_mutex_,       \* "free", or the thread that holds it
  main, writer,        \* where the two threads are
  request,             \* the request the main thread handles, as a sequence
  note,                \* notification_to_send, as a sequence
  noted,               \* notifications sent so far
  silent               \* history: requests that got no answer by intent

serverVars == <<transport_, writer_running_, parserErrors_, notification_queue_,
                output_mutex_, main, writer, request, note, noted, silent>>
vars == <<transportVars, serverVars>>

MainLocations ==
  {"starting", "connecting", "reading", "parsing", "handling", "notifying", "writing", "pushing",
   "stopping", "disconnecting", "deactivating", "closing socket", "joining streams", "resetting", "stopping writer",
   "waking writer", "joining writer", "ended", "dead"}
WriterLocations ==
  {"loop", "locking", "parking", "waiting", "holding", "relocking", "sending",
   "pushing", "done"}

Init ==
  /\ TransportInit
  /\ transport_ = TRUE /\ writer_running_ = TRUE
  /\ parserErrors_ = 0 /\ notification_queue_ = <<>>
  /\ output_mutex_ = "free"
  /\ main = "starting" /\ writer = "loop"
  /\ request = <<>> /\ note = <<>>
  /\ noted = 0 /\ silent = {}

Answer == <<"answer", Head(request).n>>
Note   == <<"note", Head(note)>>

-----------------------------------------------------------------------------
(* Connect                                                                 *)

StartTransport ==
  /\ main = "starting"
  /\ Start
  /\ main' = "connecting"
  /\ UNCHANGED <<transport_, writer_running_, parserErrors_, notification_queue_,
                 output_mutex_, writer, request, note, noted, silent>>

\* Start has waited for 100 ms and looks whether listen has failed.  If so
\* Connect returns, and with it main; the process then dies of the transport's
\* thread, which nobody joins.
StartReturns ==
  /\ main = "connecting"
  /\ main' = IF server_running_ THEN "reading" ELSE "dead"
  /\ UNCHANGED <<transportVars, transport_, writer_running_, parserErrors_, notification_queue_,
                 output_mutex_, writer, request, note, noted, silent>>

\* listen failed later: Read returns nothing, and Connect ends with Stop.
ReadNothing ==
  /\ main = "reading" /\ ~server_running_ /\ incoming_messages_ = <<>>
  /\ main' = "stopping"
  /\ UNCHANGED <<transportVars, transport_, writer_running_, parserErrors_, notification_queue_,
                 output_mutex_, writer, request, note, noted, silent>>

ReadRequest ==
  /\ main = "reading"
  /\ Read
  /\ request' = <<Head(incoming_messages_)>>
  /\ main' = "parsing"
  /\ UNCHANGED <<transport_, writer_running_, parserErrors_, notification_queue_,
                 output_mutex_, writer, note, noted, silent>>

\* The requests without an answer: done with.
Forget ==
  /\ request' = <<>>
  /\ silent' = silent \cup {Head(request).n}

\* json::parse, then HandleRequest finds the method.
HandleRequest ==
  /\ main = "parsing"
  /\ \/ /\ Head(request).kind = "broken"
        /\ parserErrors_' = parserErrors_ + 1
        /\ main' = IF parserErrors_ + 1 > MAX_PARSER_ERRORS THEN "stopping" ELSE "reading"
        /\ Forget
     \/ /\ Head(request).kind = "odd"
        /\ parserErrors_' = 0
        /\ main' = "dead"
        /\ Forget
     \/ /\ Head(request).kind = "notification"
        /\ parserErrors_' = 0
        /\ main' = "reading"
        /\ Forget
     \/ /\ Head(request).kind = "call"
        /\ parserErrors_' = 0
        /\ main' = "handling"
        /\ UNCHANGED <<request, silent>>
  /\ UNCHANGED <<transportVars, transport_, writer_running_, notification_queue_,
                 output_mutex_, writer, note, noted>>

\* Mutant: the notification does not reach a thread that waits.
Wake_Nobody == UNCHANGED writer

\* queue_cv_.notify_one
Wake == writer' = IF writer = "waiting" THEN "locking" ELSE writer

\* Called by the plugin that handles the request: the push is under the
\* mutex, the notification of the writer is not.
SendNotification ==
  /\ main = "handling" /\ noted < MaxNotes
  /\ output_mutex_ = "free"
  /\ noted' = noted + 1
  /\ notification_queue_' = Append(notification_queue_, noted + 1)
  /\ main' = "notifying"
  /\ UNCHANGED <<transportVars, transport_, writer_running_, parserErrors_,
                 output_mutex_, writer, request, note, silent>>

NotifyWriter ==
  /\ main = "notifying"
  /\ Wake
  /\ main' = "handling"
  /\ UNCHANGED <<transportVars, transport_, writer_running_, parserErrors_,
                 notification_queue_, output_mutex_, request, note, noted, silent>>

LockOutput ==
  /\ main = "handling" /\ output_mutex_ = "free"
  /\ output_mutex_' = "main"
  /\ main' = "writing"
  /\ UNCHANGED <<transportVars, transport_, writer_running_, parserErrors_,
                 notification_queue_, writer, request, note, noted, silent>>

WriteResponse ==
  /\ main = "writing"
  /\ IF client_connected_
     THEN main' = "pushing" /\ UNCHANGED <<transportVars, request, output_mutex_>>
     ELSE main' = "reading" /\ Drop(Answer) /\ request' = <<>> /\ output_mutex_' = "free"
  /\ UNCHANGED <<transport_, writer_running_, parserErrors_, notification_queue_,
                 writer, note, noted, silent>>

PushResponse ==
  /\ main = "pushing"
  /\ Write(Answer)
  /\ request' = <<>> /\ output_mutex_' = "free"
  /\ main' = "reading"
  /\ UNCHANGED <<transport_, writer_running_, parserErrors_, notification_queue_,
                 writer, note, noted, silent>>

Connect ==
  \/ StartTransport \/ StartReturns \/ ReadNothing \/ ReadRequest \/ HandleRequest
  \/ SendNotification \/ NotifyWriter \/ LockOutput \/ WriteResponse \/ PushResponse

-----------------------------------------------------------------------------
(* WriterLoop                                                              *)

writerOnly == <<transport_, writer_running_, parserErrors_, main, request, noted, silent>>

\* while (writer_running_)
WriterTest ==
  /\ writer = "loop"
  /\ writer' = IF writer_running_ THEN "locking" ELSE "done"
  /\ UNCHANGED <<transportVars, writerOnly, notification_queue_, output_mutex_, note>>

\* The predicate of queue_cv_.wait, and what follows when it holds.
WriterLock ==
  /\ writer = "locking" /\ output_mutex_ = "free"
  /\ \/ /\ notification_queue_ # <<>>
        /\ note' = <<Head(notification_queue_)>>
        /\ notification_queue_' = Tail(notification_queue_)
        /\ writer' = "holding"
        /\ UNCHANGED output_mutex_
     \/ /\ notification_queue_ = <<>> /\ ~writer_running_
        /\ writer' = "done"
        /\ UNCHANGED <<note, notification_queue_, output_mutex_>>
     \/ /\ notification_queue_ = <<>> /\ writer_running_
        /\ writer' = "parking"
        /\ output_mutex_' = "writer"
        /\ UNCHANGED <<note, notification_queue_>>
  /\ UNCHANGED <<transportVars, writerOnly>>

\* The wait proper: it gives the mutex back and blocks.
WriterPark ==
  /\ writer = "parking"
  /\ writer' = "waiting"
  /\ output_mutex_' = "free"
  /\ UNCHANGED <<transportVars, writerOnly, notification_queue_, note>>

\* A condition variable may wake up without a reason.
SpuriousWakeup ==
  /\ writer = "waiting"
  /\ writer' = "locking"
  /\ UNCHANGED <<transportVars, writerOnly, notification_queue_, note, output_mutex_>>

\* Without a transport the notification is dropped.
WriterDrops == writer' = "loop" /\ note' = <<>> /\ Drop(Note)

\* transport_ is tested without the mutex, and again with it.
WriterCheck ==
  /\ writer = "holding"
  /\ IF transport_ THEN writer' = "relocking" /\ UNCHANGED <<transportVars, note>>
     ELSE WriterDrops
  /\ UNCHANGED <<writerOnly, notification_queue_, output_mutex_>>

WriterRelock ==
  /\ writer = "relocking" /\ output_mutex_ = "free"
  /\ IF transport_
     THEN writer' = "sending" /\ output_mutex_' = "writer" /\ UNCHANGED <<transportVars, note>>
     ELSE WriterDrops /\ UNCHANGED output_mutex_
  /\ UNCHANGED <<writerOnly, notification_queue_>>

\* Stop resets transport_ without the mutex: a pointer read after that may
\* be null.
WriterWrite ==
  /\ writer = "sending"
  /\ \/ /\ client_connected_
        /\ writer' = "pushing"
        /\ UNCHANGED <<transportVars, main, note, output_mutex_>>
     \/ /\ ~client_connected_
        /\ WriterDrops
        /\ output_mutex_' = "free"
        /\ UNCHANGED main
     \/ /\ ~transport_
        /\ main' = "dead"
        /\ UNCHANGED <<transportVars, writer, note, output_mutex_>>
  /\ UNCHANGED <<transport_, writer_running_, parserErrors_, notification_queue_,
                 request, noted, silent>>

WriterPush ==
  /\ writer = "pushing"
  /\ Write(Note)
  /\ writer' = "loop"
  /\ note' = <<>> /\ output_mutex_' = "free"
  /\ UNCHANGED <<writerOnly, notification_queue_>>

WriterLoop ==
  \/ WriterTest \/ WriterLock \/ WriterPark
  \/ WriterCheck \/ WriterRelock \/ WriterWrite \/ WriterPush

-----------------------------------------------------------------------------
(* Stop                                                                    *)

Running ==
  main \in {"starting", "connecting", "reading", "parsing", "handling", "notifying",
            "writing", "pushing"}

\* SIGINT: the main thread leaves what it does, and keeps what it has locked.
stop_handler ==
  /\ Running
  /\ main' = "stopping"
  /\ UNCHANGED <<transportVars, transport_, writer_running_, parserErrors_,
                 notification_queue_, output_mutex_, writer, request, note, noted, silent>>

stopOnly == <<parserErrors_, notification_queue_, output_mutex_, request, note, noted, silent>>

\* A transport that is not running has nothing to stop.
StopTransport ==
  /\ main = "stopping"
  /\ IF server_running_ THEN StopRunning /\ main' = "disconnecting"
     ELSE main' = "resetting" /\ UNCHANGED transportVars
  /\ UNCHANGED <<stopOnly, transport_, writer_running_, writer>>

StopFlags ==
  /\ \/ main = "disconnecting"  /\ StopConnected /\ main' = "deactivating"
     \/ main = "deactivating"   /\ StopActive    /\ main' = "closing socket"
     \/ main = "closing socket" /\ CloseSocket   /\ main' = "joining streams"
  /\ UNCHANGED <<stopOnly, transport_, writer_running_, writer>>

\* A library that was about to listen when its socket was to be closed goes on,
\* and the join waits for ever.
JoinStreams ==
  /\ main = "joining streams"
  /\ ListenerEnded
  /\ main' = "resetting"
  /\ UNCHANGED <<stopOnly, transportVars, transport_, writer_running_, writer>>

ResetTransport ==
  /\ main = "resetting"
  /\ transport_' = FALSE
  /\ main' = "stopping writer"
  /\ UNCHANGED <<stopOnly, transportVars, writer_running_, writer>>

\* Neither the store nor the notification is under output_mutex_.
StopWriter ==
  /\ main = "stopping writer"
  /\ writer_running_' = FALSE
  /\ main' = "waking writer"
  /\ UNCHANGED <<stopOnly, transportVars, transport_, writer>>

WakeWriter ==
  /\ main = "waking writer"
  /\ Wake
  /\ main' = "joining writer"
  /\ UNCHANGED <<stopOnly, transportVars, transport_, writer_running_>>

JoinWriter ==
  /\ main = "joining writer" /\ writer = "done"
  /\ main' = "ended"
  /\ UNCHANGED <<stopOnly, transportVars, transport_, writer_running_, writer>>

StopServer ==
  \/ StopTransport \/ StopFlags \/ JoinStreams \/ ResetTransport
  \/ StopWriter \/ WakeWriter \/ JoinWriter

-----------------------------------------------------------------------------
\* What the clients and the threads of the pool do.
Transport ==
  /\ \/ HandlePostMessage \/ PushRequest
     \/ Binds \/ ListenFails
     \/ \E s \in Streams : Provide(s) \/ Client(s)
  /\ UNCHANGED serverVars

Alive == main \notin {"ended", "dead"}

Next ==
  /\ Alive
  /\ Connect \/ WriterLoop \/ StopServer \/ stop_handler \/ SpuriousWakeup \/ Transport

Spec == Init /\ [][Next]_vars

-----------------------------------------------------------------------------
(* Properties                                                              *)

TypeOK ==
  /\ TransportTypeOK
  /\ transport_ \in BOOLEAN /\ writer_running_ \in BOOLEAN
  /\ parserErrors_ \in 0..(MAX_PARSER_ERRORS + 1)
  /\ notification_queue_ \in Seq(1..MaxNotes)
  /\ output_mutex_ \in {"free", "main", "writer"}
  /\ main \in MainLocations /\ writer \in WriterLocations
  /\ request \in Seq([n : 1..MaxRequests, kind : Kinds]) /\ Len(request) <= 1
  /\ note \in Seq(1..MaxNotes) /\ Len(note) <= 1
  /\ noted \in 0..MaxNotes
  /\ silent \subseteq 1..MaxRequests
  /\ Running => (output_mutex_ = "main" <=> main \in {"writing", "pushing"})
  /\ output_mutex_ = "writer" <=> writer \in {"parking", "sending", "pushing"}

\* The places where a message is: queues, hands, what was sent, what was missed.
Places(m) ==
  {<<"queue", i>> : i \in {j \in DOMAIN notification_queue_ : <<"note", notification_queue_[j]>> = m}}
    \cup {<<"writer", i>> : i \in {j \in DOMAIN note : <<"note", note[j]>> = m}}
    \cup {<<"outgoing", i>> : i \in {j \in DOMAIN outgoing_messages_ : outgoing_messages_[j] = m}}
    \cup {<<"missed", x>> : x \in missed \cap {m}}
    \cup (UNION {{<<"hand", s, i>> : i \in {j \in DOMAIN hand[s] : hand[s][j] = m}} : s \in Streams})
    \cup (UNION {{<<"sent", s, i>> : i \in {j \in DOMAIN sent[s] : sent[s][j] = m}} : s \in Streams})

\* Request n: not read yet, read and not answered, or answered with nothing.
Pending(n) ==
  {<<"incoming", i>> : i \in {j \in DOMAIN incoming_messages_ : incoming_messages_[j].n = n}}
    \cup {<<"request", i>> : i \in {j \in DOMAIN request : request[j].n = n}}
    \cup {<<"silent", x>> : x \in silent \cap {n}}

\* Every notification and every answer is in exactly one place, and every
\* request has one answer or is still to get it, although three kinds of
\* threads pass messages on, clients come and go, and the server stops.
Accounted ==
  /\ TypeOK
  /\ \A n \in 1..noted : Cardinality(Places(<<"note", n>>)) = 1
  /\ \A n \in 1..posted : Cardinality(Places(<<"answer", n>>) \cup Pending(n)) = 1

\* Each client gets the answers in the order of the requests, and the
\* notifications in the order in which plugins sent them, whichever stream
\* takes which message from the queue.
SentInOrder ==
  \A s \in Streams : \A i, j \in DOMAIN sent[s] :
    i < j /\ sent[s][i][1] = sent[s][j][1] => sent[s][i][2] < sent[s][j][2]

\* As long as no client has left, every stream sees the whole of a connection
\* and no message is dropped: however GETs, POSTs and answers overlap and wherever
\* a thread is between two stores, only the end of one stream takes the flags
\* from another.
WholeUntilDeparture ==
  Running /\ ~departed =>
    /\ missed = {}
    /\ \A s \in Streams :
         /\ stream[s] \notin {"terminating", "closing"}
         /\ stream[s] \in {"serving", "writing"} => client_connected_ /\ sse_active_

\* However Connect, a plugin and the writer interleave, the writer does not
\* sleep while notifications are queued: none is late until the next one.
WriterAwake ==
  writer = "waiting" /\ notification_queue_ # <<>> => main = "notifying" \/ ~Running

=============================================================================
