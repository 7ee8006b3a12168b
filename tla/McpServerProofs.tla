--------------------------- MODULE McpServerProofs ---------------------------
(***************************************************************************)
(* Invariants of the MCP server, for any number of streams, requests and   *)
(* notifications: the writer thread is never asleep on a full queue, until *)
(* a client leaves every stream is whole, each stream writes in order, and *)
(* every message is in exactly one place.                                  *)
(***************************************************************************)
EXTENDS McpServer, FiniteSetTheorems, TLAPS

-----------------------------------------------------------------------------
(* The writer                                                              *)

\* The writer holds the mutex between testing the queue and waiting, so what
\* it has seen empty stays empty until it waits.
Parking ==
  /\ output_mutex_ = "writer" <=> writer \in {"parking", "sending", "pushing"}
  /\ main \in {"writing", "pushing"} => output_mutex_ = "main"
  /\ writer = "parking" => notification_queue_ = <<>>

WriterInv == Parking /\ WriterAwake

\* The transport, with its clients and its streams, does not touch the writer.
LEMMA TransportKeepsWriter ==
  ASSUME WriterInv, UNCHANGED serverVars
  PROVE  WriterInv'
BY DEF WriterInv, Parking, WriterAwake, Running, serverVars

\* Steps of the main thread, one for each that sends or may disturb the mutex.
LEMMA ConnectKeepsWriter ==
  ASSUME WriterInv, Connect
  PROVE  WriterInv'
<1>1. CASE StartTransport \/ StartReturns \/ ReadNothing
  BY <1>1 DEF StartTransport, StartReturns, ReadNothing, WriterInv, Parking, WriterAwake, Running
<1>2. CASE ReadRequest
  BY <1>2 DEF ReadRequest, WriterInv, Parking, WriterAwake, Running
<1>3. CASE HandleRequest
  <2>1. UNCHANGED <<writer, notification_queue_, output_mutex_>> /\ main = "parsing"
        /\ main' \notin {"notifying", "writing", "pushing"}
    BY <1>3 DEF HandleRequest
  <2> QED BY <2>1 DEF WriterInv, Parking, WriterAwake, Running
<1>4. CASE SendNotification
  <2>1. writer # "parking"
    BY <1>4 DEF SendNotification, WriterInv, Parking
  <2> QED BY <1>4, <2>1 DEF SendNotification, WriterInv, Parking, WriterAwake
<1>5. CASE NotifyWriter
  <2>1. UNCHANGED <<notification_queue_, output_mutex_>> /\ main = "notifying" /\ main' = "handling"
    BY <1>5 DEF NotifyWriter
  <2>2. writer' = IF writer = "waiting" THEN "locking" ELSE writer
    BY <1>5 DEF NotifyWriter, Wake
  <2>3. CASE writer = "waiting"
    <3>1. writer' = "locking"
      BY <2>2, <2>3
    <3> QED BY <2>1, <2>3, <3>1 DEF WriterInv, Parking, WriterAwake, Running
  <2>4. CASE writer # "waiting"
    <3>1. writer' = writer
      BY <2>2, <2>4
    <3> QED BY <2>1, <2>4, <3>1 DEF WriterInv, Parking, WriterAwake, Running
  <2> QED BY <2>3, <2>4
<1>6. CASE LockOutput
  BY <1>6 DEF LockOutput, WriterInv, Parking, WriterAwake, Running
<1>7. CASE WriteResponse
  <2>1. /\ UNCHANGED <<writer, notification_queue_>> /\ main = "writing"
        /\ \/ main' = "pushing" /\ output_mutex_' = output_mutex_
           \/ main' = "reading" /\ output_mutex_' = "free"
    <3>1. CASE client_connected_
      <4>1. main' = "pushing" /\ UNCHANGED <<transportVars, request, output_mutex_>>
        BY <1>7, <3>1, Zenon DEF WriteResponse
      <4>2. main = "writing" /\ UNCHANGED <<writer, notification_queue_>>
        BY <1>7, Zenon DEF WriteResponse
      <4> QED BY <4>1, <4>2
    <3>2. CASE ~client_connected_
      BY <1>7, <3>2 DEF WriteResponse
    <3> QED BY <3>1, <3>2
  <2> QED BY <2>1 DEF WriterInv, Parking, WriterAwake, Running
<1>8. CASE PushResponse
  BY <1>8 DEF PushResponse, WriterInv, Parking, WriterAwake, Running
<1> QED BY <1>1, <1>2, <1>3, <1>4, <1>5, <1>6, <1>7, <1>8 DEF Connect

LEMMA LoopKeepsWriter ==
  ASSUME WriterInv, WriterLoop \/ SpuriousWakeup
  PROVE  WriterInv'
<1> USE DEF WriterInv, Parking, WriterAwake, Running, writerOnly
<1>1. CASE WriterTest
  BY <1>1 DEF WriterTest
<1>2. CASE WriterLock
  BY <1>2 DEF WriterLock
<1>3. CASE WriterPark
  BY <1>3 DEF WriterPark
<1>4. CASE WriterCheck
  BY <1>4 DEF WriterCheck, WriterDrops
<1>5. CASE WriterRelock
  BY <1>5 DEF WriterRelock, WriterDrops
<1>6. CASE WriterWrite
  BY <1>6 DEF WriterWrite, WriterDrops
<1>7. CASE WriterPush
  BY <1>7 DEF WriterPush
<1>8. CASE SpuriousWakeup
  BY <1>8 DEF SpuriousWakeup
<1> QED BY <1>1, <1>2, <1>3, <1>4, <1>5, <1>6, <1>7, <1>8 DEF WriterLoop

LEMMA StopKeepsWriter ==
  ASSUME WriterInv, StopServer \/ stop_handler
  PROVE  WriterInv'
<1> USE DEF WriterInv, Parking, WriterAwake, Running, stopOnly
<1>1. CASE StopTransport
  BY <1>1 DEF StopTransport
<1>8. CASE StopFlags
  BY <1>8 DEF StopFlags
<1>2. CASE JoinStreams
  BY <1>2 DEF JoinStreams
<1>3. CASE ResetTransport
  BY <1>3 DEF ResetTransport
<1>4. CASE StopWriter
  BY <1>4 DEF StopWriter
<1>5. CASE WakeWriter
  BY <1>5 DEF WakeWriter, Wake
<1>6. CASE JoinWriter
  BY <1>6 DEF JoinWriter
<1>7. CASE stop_handler
  BY <1>7 DEF stop_handler
<1> QED BY <1>1, <1>2, <1>3, <1>4, <1>5, <1>6, <1>7, <1>8 DEF StopServer

\* The writer never sleeps on queued notifications while the server runs: the
\* push is under the mutex that the writer gives back only in its wait.
THEOREM WriterAwakeHolds == Spec => []WriterAwake
<1>1. Init => WriterInv
  BY DEF Init, WriterInv, Parking, WriterAwake
<1>2. WriterInv /\ [Next]_vars => WriterInv'
  <2> SUFFICES ASSUME WriterInv, [Next]_vars PROVE WriterInv'
    OBVIOUS
  <2>1. CASE UNCHANGED vars
    BY <2>1, TransportKeepsWriter DEF vars
  <2>2. CASE Transport
    BY <2>2, TransportKeepsWriter DEF Transport
  <2> QED BY <2>1, <2>2, ConnectKeepsWriter, LoopKeepsWriter, StopKeepsWriter DEF Next
<1>3. WriterInv => WriterAwake
  BY DEF WriterInv
<1> QED BY <1>1, <1>2, <1>3, PTL DEF Spec

-----------------------------------------------------------------------------
(* Types, and who holds what                                               *)

Message == {"answer", "note"} \X (Nat \ {0})
Request == [n : 1..MaxRequests, kind : Kinds]

\* The queues, and what was passed on.
Queues ==
  /\ incoming_messages_ \in Seq(Request)
  /\ accepting \in 0..MaxRequests /\ posted \in 0..MaxRequests
  /\ accepting + posted <= MaxRequests
  /\ notification_queue_ \in Seq(1..MaxNotes) /\ noted \in 0..MaxNotes
  /\ outgoing_messages_ \in Seq(Message)
  /\ request \in Seq(Request) /\ Len(request) <= 1
  /\ note \in Seq(1..MaxNotes) /\ Len(note) <= 1
  /\ hand \in [Streams -> Seq(Message)] /\ \A s \in Streams : Len(hand[s]) <= 1
  /\ sent \in [Streams -> Seq(Message)]
  /\ missed \subseteq Message /\ silent \subseteq 1..MaxRequests

\* What a thread has taken and not yet passed on, it has where it works on it.
Hands ==
  /\ main \in {"parsing", "handling", "notifying", "writing", "pushing"} => request # <<>>
  /\ main \in {"starting", "connecting", "reading"} => request = <<>>
  /\ writer \in {"holding", "relocking", "sending", "pushing"} => note # <<>>
  /\ writer \in {"loop", "locking", "parking", "waiting"} => note = <<>>
  /\ \A s \in Streams : stream[s] = "writing" <=> hand[s] # <<>>

Seats ==
  /\ main \in MainLocations /\ writer \in WriterLocations
  /\ stream \in [Streams -> StreamLocations] /\ gone \subseteq Streams
  /\ output_mutex_ \in {"free", "main", "writer"}
  /\ output_mutex_ = "writer" <=> writer \in {"parking", "sending", "pushing"}
  /\ Running => (output_mutex_ = "main" <=> main \in {"writing", "pushing"})

Switches ==
  /\ server_running_ \in BOOLEAN /\ client_connected_ \in BOOLEAN /\ sse_active_ \in BOOLEAN
  /\ transport_ \in BOOLEAN /\ writer_running_ \in BOOLEAN
  /\ listening \in {"no", "binding", "open", "closed", "failed"} /\ departed \in BOOLEAN
  /\ parserErrors_ \in 0..(MAX_PARSER_ERRORS + 1)
  /\ Running => parserErrors_ <= MAX_PARSER_ERRORS

Typed == Queues /\ Hands /\ Seats /\ Switches

LEMMA TypedTypeOK == Typed => TypeOK
BY DEF Typed, Queues, Seats, Switches, TypeOK, TransportTypeOK, Request, Message

LEMMA InitTyped == Init => Typed
<1> SUFFICES ASSUME Init PROVE Typed
  OBVIOUS
<1> USE TransportAssumption, ServerAssumption
    DEF Init, TransportInit, Running, MainLocations, WriterLocations, StreamLocations,
        TransportAssumption, ServerAssumption
<1>1. Queues
  BY DEF Queues
<1>2. Hands /\ Seats
  BY DEF Hands, Seats
<1>3. parserErrors_ \in 0..(MAX_PARSER_ERRORS + 1) /\ parserErrors_ <= MAX_PARSER_ERRORS
  OBVIOUS
<1>4. Switches
  BY <1>3 DEF Switches
<1> QED BY <1>1, <1>2, <1>4 DEF Typed

\* The threads in their places: every step at once.
LEMMA SwitchesStep ==
  ASSUME Typed, Next
  PROVE  Switches'
<1> USE DEF Typed, Switches, Running
<1>1. CASE StartTransport
  BY <1>1 DEF StartTransport, Start, traffic, clients
<1>7. CASE StartReturns \/ ReadNothing
  <2>1. /\ UNCHANGED <<server_running_, client_connected_, sse_active_, listening, departed,
                       transport_, writer_running_, parserErrors_>>
        /\ Running
    BY <1>7 DEF StartReturns, ReadNothing, transportVars, flags, traffic, clients
  <2> QED BY <2>1
<1>2. CASE HandleRequest
  <2>1. main = "parsing" /\ parserErrors_ \in 0..MAX_PARSER_ERRORS
    BY <1>2, ServerAssumption DEF HandleRequest, ServerAssumption
  <2>2. UNCHANGED <<server_running_, client_connected_, sse_active_, listening, departed, transport_, writer_running_>>
    BY <1>2 DEF HandleRequest, transportVars, flags, queues, posts, clients, traffic
  <2>3. \/ parserErrors_' = 0
        \/ /\ parserErrors_' = parserErrors_ + 1
           /\ main' = IF parserErrors_ + 1 > MAX_PARSER_ERRORS THEN "stopping" ELSE "reading"
    BY <1>2 DEF HandleRequest
  <2> QED BY <2>1, <2>2, <2>3, ServerAssumption DEF ServerAssumption
<1>3. CASE ReadRequest \/ SendNotification \/ NotifyWriter \/ LockOutput \/ WriteResponse \/ PushResponse
  <2>1. UNCHANGED <<server_running_, client_connected_, sse_active_, listening, departed, transport_, writer_running_,
                    parserErrors_>> /\ Running
    BY <1>3 DEF ReadRequest, Read, SendNotification, NotifyWriter, LockOutput, WriteResponse,
       PushResponse, Drop, Write, transportVars, flags, queues, posts, clients, traffic
  <2> QED BY <2>1
<1>4. CASE WriterLoop \/ SpuriousWakeup
  <2>1. /\ UNCHANGED <<server_running_, client_connected_, sse_active_, listening, departed, transport_, writer_running_,
                       parserErrors_>>
        /\ main' \in {main, "dead"}
    BY <1>4 DEF WriterLoop, SpuriousWakeup, WriterTest, WriterLock, WriterPark,
       WriterCheck, WriterRelock, WriterWrite, WriterPush, WriterDrops, Drop, Write,
       writerOnly, transportVars, flags, queues, posts, clients, traffic
  <2> QED BY <2>1
<1>5. CASE StopServer \/ stop_handler
  <2>1. parserErrors_' = parserErrors_ /\ ~(Running')
    BY <1>5 DEF StopServer, stop_handler, StopTransport, StopFlags, StopRunning, StopConnected, StopActive, CloseSocket, JoinStreams, ResetTransport, StopWriter,
       WakeWriter, JoinWriter, stopOnly
  <2>2. /\ server_running_' \in BOOLEAN /\ client_connected_' \in BOOLEAN /\ sse_active_' \in BOOLEAN
        /\ listening' \in {"no", "binding", "open", "closed", "failed"} /\ departed' \in BOOLEAN
        /\ transport_' \in BOOLEAN /\ writer_running_' \in BOOLEAN
    <3>1. CASE StopTransport \/ StopFlags
      <4>1. transport_' = transport_ /\ writer_running_' = writer_running_
        BY <3>1 DEF StopTransport, StopFlags
      <4>2. CASE StopTransport
        BY <4>1, <4>2 DEF StopTransport, StopRunning, transportVars, flags, clients, traffic
      <4>3. CASE StopFlags /\ main = "closing socket"
        <5>1. CloseSocket
          BY <4>3 DEF StopFlags
        <5> QED BY <4>1, <5>1 DEF CloseSocket, clients, traffic
      <4>4. CASE StopFlags /\ main # "closing socket"
        <5>1. StopConnected \/ StopActive
          BY <4>4 DEF StopFlags
        <5> QED BY <4>1, <5>1 DEF StopConnected, StopActive, clients, traffic
      <4> QED BY <3>1, <4>2, <4>3, <4>4
    <3>2. CASE ~(StopTransport \/ StopFlags)
      BY <1>5, <3>2 DEF StopServer, stop_handler, JoinStreams, ResetTransport, StopWriter,
         WakeWriter, JoinWriter, transportVars, flags, clients, traffic
    <3> QED BY <3>1, <3>2
  <2> QED BY <2>1, <2>2
<1>6. CASE Transport
  <2>1. UNCHANGED <<main, transport_, writer_running_, parserErrors_>>
    BY <1>6 DEF Transport, serverVars
  <2>2. /\ server_running_' \in BOOLEAN /\ client_connected_' \in BOOLEAN /\ sse_active_' \in BOOLEAN
        /\ listening' \in {"no", "binding", "open", "closed", "failed"} /\ departed' \in BOOLEAN
    <3>1. CASE HandlePostMessage \/ PushRequest \/ Binds \/ ListenFails
      BY <3>1 DEF HandlePostMessage, PushRequest, Binds, ListenFails, flags, clients, traffic
    <3>2. ASSUME NEW s \in Streams, Client(s) \/ Activate(s) \/ Terminate(s)
          PROVE  /\ server_running_' \in BOOLEAN /\ client_connected_' \in BOOLEAN
                 /\ sse_active_' \in BOOLEAN /\ listening' = listening /\ departed' \in BOOLEAN
      BY <3>2 DEF Client, HandleSSEConnection, ClientLeaves, Activate, Terminate, flags, clients
    <3>3. ASSUME NEW s \in Streams,
                 TakeOutgoing(s) \/ WriteEvent(s) \/ GiveUp(s) \/ LibraryCloses(s)
          PROVE  UNCHANGED <<flags, departed>>
      BY <3>3 DEF TakeOutgoing, WriteEvent, GiveUp, LibraryCloses, flags, clients
    <3>4. CASE \E s \in Streams : Provide(s) \/ Client(s)
      BY <3>2, <3>3, <3>4 DEF Provide, flags
    <3> QED BY <1>6, <3>1, <3>4 DEF Transport
  <2> QED BY <2>1, <2>2
<1> QED BY <1>1, <1>2, <1>3, <1>4, <1>5, <1>6, <1>7 DEF Next, Connect

LEMMA SeatsStep ==
  ASSUME Typed, Next
  PROVE  Seats'
<1> USE DEF Typed, Seats, Running, MainLocations, WriterLocations
<1>1. CASE Connect
  <2>1. UNCHANGED <<stream, gone>>
    BY <1>1 DEF Connect, StartTransport, StartReturns, ReadNothing, Start, HandleRequest, ReadRequest, Read, SendNotification,
       NotifyWriter, LockOutput, WriteResponse,
       PushResponse, Drop, Write, transportVars, flags, queues, posts, clients, traffic
  <2>2. CASE StartTransport \/ StartReturns \/ ReadNothing
    BY <2>1, <2>2 DEF StartTransport, StartReturns, ReadNothing
  <2>3. CASE ReadRequest
    BY <2>1, <2>3 DEF ReadRequest
  <2>4. CASE HandleRequest
    BY <2>1, <2>4 DEF HandleRequest
  <2>5. CASE SendNotification
    BY <2>1, <2>5 DEF SendNotification
  <2>6. CASE NotifyWriter
    BY <2>1, <2>6 DEF NotifyWriter, Wake
  <2>7. CASE LockOutput
    BY <2>1, <2>7 DEF LockOutput
  <2>8. CASE WriteResponse
    <3>1. \/ main' = "pushing" /\ output_mutex_' = output_mutex_
          \/ main' = "reading" /\ output_mutex_' = "free"
      BY <2>8, Zenon DEF WriteResponse
    <3>2. main = "writing" /\ writer' = writer
      BY <2>8 DEF WriteResponse
    <3> QED BY <2>1, <3>1, <3>2
  <2>9. CASE PushResponse
    BY <2>1, <2>9 DEF PushResponse
  <2> QED BY <1>1, <2>2, <2>3, <2>4, <2>5, <2>6, <2>7, <2>8, <2>9 DEF Connect
<1>2. CASE WriterLoop \/ SpuriousWakeup
  <2>1. UNCHANGED <<stream, gone>>
    BY <1>2 DEF WriterLoop, SpuriousWakeup, WriterTest, WriterLock, WriterPark,
       WriterCheck, WriterRelock, WriterWrite, WriterPush, WriterDrops, Drop, Write,
       writerOnly, transportVars, flags, queues, posts, clients, traffic
  <2> USE <2>1 DEF writerOnly, WriterDrops
  <2>2. CASE WriterTest \/ SpuriousWakeup
    BY <2>2 DEF WriterTest, SpuriousWakeup
  <2>3. CASE WriterLock
    BY <2>3 DEF WriterLock
  <2>4. CASE WriterPark
    BY <2>4 DEF WriterPark
  <2>5. CASE WriterCheck
    BY <2>5 DEF WriterCheck
  <2>6. CASE WriterRelock
    BY <2>6 DEF WriterRelock
  <2>7. CASE WriterWrite
    BY <2>7 DEF WriterWrite
  <2>8. CASE WriterPush
    BY <2>8 DEF WriterPush
  <2> QED BY <1>2, <2>2, <2>3, <2>4, <2>5, <2>6, <2>7, <2>8 DEF WriterLoop
<1>3. CASE StopServer \/ stop_handler
  <2>1. UNCHANGED <<stream, gone, output_mutex_>>
    BY <1>3 DEF StopServer, stop_handler, StopTransport, StopFlags, StopRunning, StopConnected, StopActive, CloseSocket, JoinStreams, ResetTransport, StopWriter,
       WakeWriter, JoinWriter, transportVars, flags, queues, posts, clients, traffic, stopOnly
  <2>2. main' \in MainLocations /\ ~(Running')
    BY <1>3 DEF StopServer, stop_handler, StopTransport, StopFlags, StopRunning, StopConnected, StopActive, CloseSocket, JoinStreams, ResetTransport, StopWriter,
       WakeWriter, JoinWriter
  <2>3. writer' = writer \/ (writer = "waiting" /\ writer' = "locking")
    BY <1>3 DEF StopServer, stop_handler, StopTransport, StopFlags, StopRunning, StopConnected, StopActive, CloseSocket, JoinStreams, ResetTransport, StopWriter,
       WakeWriter, JoinWriter, Wake
  <2> QED BY <2>1, <2>2, <2>3
<1>4. CASE Transport
  <2>1. UNCHANGED <<main, writer, output_mutex_>>
    BY <1>4 DEF Transport, serverVars
  <2>2. stream' \in [Streams -> StreamLocations] /\ gone' \subseteq Streams
    BY <1>4 DEF Transport, HandlePostMessage, PushRequest, Binds, ListenFails, Provide, Client, HandleSSEConnection, ClientLeaves,
       Activate, TakeOutgoing, WriteEvent, GiveUp, Terminate, LibraryCloses, flags, queues, posts, clients, traffic,
       StreamAt, StreamLocations
  <2> QED BY <2>1, <2>2
<1> QED BY <1>1, <1>2, <1>3, <1>4 DEF Next

LEMMA FirstOf ==
  ASSUME NEW S, NEW q \in Seq(S), q # <<>>
  PROVE  Head(q) \in S /\ Tail(q) \in Seq(S)
OBVIOUS

LEMMA OneOf ==
  ASSUME NEW S
  PROVE  /\ <<>> \in Seq(S) /\ Len(<<>>) <= 1
         /\ \A x \in S : <<x>> \in Seq(S) /\ Len(<<x>>) <= 1
OBVIOUS

LEMMA ItemOf ==
  ASSUME NEW S, NEW q \in Seq(S), NEW i \in DOMAIN q
  PROVE  i \in Nat /\ q[i] \in S
OBVIOUS

\* What the threads hold are messages.
LEMMA HeldItems ==
  ASSUME Typed
  PROVE  /\ request # <<>> => Head(request) \in Request /\ Answer \in Message
         /\ note # <<>> => Head(note) \in 1..MaxNotes /\ Note \in Message
         /\ \A s \in Streams : hand[s] # <<>> => Head(hand[s]) \in Message
<1>1. ASSUME request # <<>>  PROVE Head(request) \in Request
  BY <1>1 DEF Typed, Queues
<1>2. ASSUME request # <<>>  PROVE Answer \in Message
  <2>1. Head(request).n \in Nat \ {0}
    BY <1>1, <1>2, TransportAssumption DEF Request, TransportAssumption
  <2> QED BY <2>1 DEF Answer, Message
<1>3. ASSUME note # <<>>  PROVE Head(note) \in 1..MaxNotes
  BY <1>3, FirstOf DEF Typed, Queues
<1>4. ASSUME note # <<>>  PROVE Note \in Message
  <2>1. Head(note) \in Nat \ {0}
    BY <1>3, <1>4, ServerAssumption DEF ServerAssumption
  <2> QED BY <2>1 DEF Note, Message
<1>5. ASSUME NEW s \in Streams, hand[s] # <<>>  PROVE Head(hand[s]) \in Message
  BY <1>5 DEF Typed, Queues
<1> QED BY <1>1, <1>2, <1>3, <1>4, <1>5

LEMMA QueuesStep ==
  ASSUME Typed, Next
  PROVE  Queues'
<1> USE DEF Queues, transportVars, flags, queues, posts, clients, traffic
<1>0. Queues
  BY DEF Typed
<1>1. CASE Connect
  <2>1. CASE StartTransport \/ StartReturns \/ ReadNothing
    BY <1>0, <2>1 DEF StartTransport, StartReturns, ReadNothing, Start
  <2>2. CASE ReadRequest
    <3>1. Head(incoming_messages_) \in Request /\ Tail(incoming_messages_) \in Seq(Request)
      BY <1>0, <2>2 DEF ReadRequest, Read
    <3>2. request' \in Seq(Request) /\ Len(request') = 1
      BY <2>2, <3>1 DEF ReadRequest
    <3> QED BY <1>0, <2>2, <3>1, <3>2 DEF ReadRequest, Read
  <2>3. CASE HandleRequest
    <3>1. main = "parsing" /\ request # <<>>
      BY <2>3 DEF HandleRequest, Typed, Hands
    <3>2. Head(request).n \in 1..MaxRequests
      BY <3>1, HeldItems DEF Request
    <3>3. \/ request' = request /\ silent' = silent
          \/ request' = <<>> /\ silent' = silent \cup {Head(request).n}
      BY <2>3 DEF HandleRequest, Forget
    <3>6. request' \in Seq(Request) /\ Len(request') <= 1
      BY <1>0, <3>3, OneOf
    <3>7. silent' \subseteq 1..MaxRequests
      BY <1>0, <3>2, <3>3
    <3>4. request' \in Seq(Request) /\ Len(request') <= 1 /\ silent' \subseteq 1..MaxRequests
      BY <3>6, <3>7
    <3>5. UNCHANGED <<incoming_messages_, accepting, posted, notification_queue_, noted, outgoing_messages_,
                      note, hand, sent, missed>>
      BY <2>3 DEF HandleRequest
    <3> QED BY <1>0, <3>4, <3>5
  <2>4. CASE SendNotification
    <3>1. notification_queue_' \in Seq(1..MaxNotes) /\ noted' \in 0..MaxNotes
      BY <1>0, <2>4, ServerAssumption DEF SendNotification, ServerAssumption
    <3> QED BY <1>0, <2>4, <3>1 DEF SendNotification
  <2>5. CASE NotifyWriter \/ LockOutput
    BY <1>0, <2>5 DEF NotifyWriter, LockOutput
  <2>6. CASE WriteResponse
    <3>1. main = "writing" /\ request # <<>> /\ Answer \in Message
      BY <2>6, HeldItems DEF WriteResponse, Typed, Hands
    <3>2. \/ request' = request /\ missed' = missed
          \/ request' = <<>> /\ missed' = missed \cup {Answer}
      BY <2>6 DEF WriteResponse, Drop
    <3>3. UNCHANGED <<incoming_messages_, accepting, posted, notification_queue_, noted, outgoing_messages_,
                      note, hand, sent, silent>>
      BY <2>6 DEF WriteResponse, Drop
    <3>5. request' \in Seq(Request) /\ Len(request') <= 1
      BY <1>0, <3>2, OneOf
    <3>6. missed' \subseteq Message
      BY <1>0, <3>1, <3>2
    <3>4. request' \in Seq(Request) /\ Len(request') <= 1 /\ missed' \subseteq Message
      BY <3>5, <3>6
    <3> QED BY <1>0, <3>3, <3>4
  <2>7. CASE PushResponse
    <3>1. Answer \in Message
      BY <2>7, HeldItems DEF PushResponse, Typed, Hands
    <3>2. outgoing_messages_' \in Seq(Message)
      BY <1>0, <2>7, <3>1 DEF PushResponse, Write
    <3> QED BY <1>0, <2>7, <3>2 DEF PushResponse, Write
  <2> QED BY <1>1, <2>1, <2>2, <2>3, <2>4, <2>5, <2>6, <2>7 DEF Connect
<1>2. CASE WriterLoop \/ SpuriousWakeup
  <2>1. UNCHANGED <<incoming_messages_, accepting, posted, noted, request, hand, sent, silent>>
    BY <1>2 DEF WriterLoop, SpuriousWakeup, WriterTest, WriterLock, WriterPark,
       WriterCheck, WriterRelock, WriterWrite, WriterPush, WriterDrops, Drop, Write,
       writerOnly
  <2>2. CASE WriterTest \/ SpuriousWakeup \/ WriterPark
    BY <1>0, <2>1, <2>2 DEF WriterTest, SpuriousWakeup, WriterPark
  <2>3. CASE WriterLock
    <3>1. \/ UNCHANGED <<notification_queue_, note>>
          \/ notification_queue_ # <<>> /\ note' = <<Head(notification_queue_)>>
             /\ notification_queue_' = Tail(notification_queue_)
      BY <2>3 DEF WriterLock
    <3>2. notification_queue_' \in Seq(1..MaxNotes) /\ note' \in Seq(1..MaxNotes) /\ Len(note') <= 1
      BY <1>0, <3>1, FirstOf, OneOf
    <3>3. UNCHANGED <<outgoing_messages_, missed>>
      BY <2>3 DEF WriterLock
    <3> QED BY <1>0, <2>1, <3>2, <3>3
  <2>4. CASE WriterCheck \/ WriterRelock \/ WriterWrite
    <3>1. note # <<>> /\ Note \in Message
      BY <2>4, HeldItems DEF WriterCheck, WriterRelock, WriterWrite, Typed, Hands
    <3>2. \/ note' = note /\ missed' = missed
          \/ note' = <<>> /\ missed' = missed \cup {Note}
      BY <2>4 DEF WriterCheck, WriterRelock, WriterWrite, WriterDrops, Drop
    <3>3. UNCHANGED <<outgoing_messages_, notification_queue_>>
      BY <2>4 DEF WriterCheck, WriterRelock, WriterWrite, WriterDrops, Drop
    <3>5. note' \in Seq(1..MaxNotes) /\ Len(note') <= 1
      BY <1>0, <3>2, OneOf
    <3>6. missed' \subseteq Message
      BY <1>0, <3>1, <3>2
    <3>4. note' \in Seq(1..MaxNotes) /\ Len(note') <= 1 /\ missed' \subseteq Message
      BY <3>5, <3>6
    <3> QED BY <1>0, <2>1, <3>3, <3>4
  <2>5. CASE WriterPush
    <3>1. Note \in Message
      BY <2>5, HeldItems DEF WriterPush, Typed, Hands
    <3>2. outgoing_messages_' \in Seq(Message)
      BY <1>0, <2>5, <3>1 DEF WriterPush, Write
    <3> QED BY <1>0, <2>1, <2>5, <3>2 DEF WriterPush, Write
  <2> QED BY <1>2, <2>2, <2>3, <2>4, <2>5 DEF WriterLoop
<1>3. CASE StopServer \/ stop_handler
  <2>1. UNCHANGED <<incoming_messages_, accepting, posted, notification_queue_, noted, outgoing_messages_,
                    request, note, hand, sent, missed, silent>>
    BY <1>3 DEF StopServer, stop_handler, StopTransport, StopFlags, StopRunning, StopConnected, StopActive, CloseSocket, JoinStreams, ResetTransport, StopWriter,
       WakeWriter, JoinWriter, stopOnly
  <2> QED BY <1>0, <2>1
<1>4. CASE Transport
  <2>1. UNCHANGED <<notification_queue_, noted, request, note, silent>>
    BY <1>4 DEF Transport, serverVars
  <2>2. CASE PushRequest
    <3>0. /\ accepting' \in 0..MaxRequests /\ posted' \in 0..MaxRequests
          /\ accepting' + posted' <= MaxRequests /\ posted + 1 \in 1..MaxRequests
      <4>1. accepting > 0 /\ accepting' = accepting - 1 /\ posted' = posted + 1
        BY <2>2 DEF PushRequest
      <4>2. accepting \in 0..MaxRequests /\ posted \in 0..MaxRequests
            /\ accepting + posted <= MaxRequests /\ MaxRequests \in Nat
        BY <1>0, TransportAssumption DEF TransportAssumption
      <4> QED BY <4>1, <4>2
    <3>4. PICK k \in Kinds :
            incoming_messages_' = Append(incoming_messages_, [n |-> posted + 1, kind |-> k])
      BY <2>2 DEF PushRequest
    <3>5. [n |-> posted + 1, kind |-> k] \in Request
      BY <3>0 DEF Request
    <3>1. \E r \in Request : incoming_messages_' = Append(incoming_messages_, r)
      BY <3>4, <3>5
    <3>2. incoming_messages_' \in Seq(Request)
      BY <1>0, <3>1
    <3>3. UNCHANGED <<outgoing_messages_, hand, sent, missed>>
      BY <2>2 DEF PushRequest
    <3> QED BY <1>0, <2>1, <3>0, <3>2, <3>3
  <2>6. CASE HandlePostMessage
    <3>1. /\ accepting' \in 0..MaxRequests /\ accepting' + posted <= MaxRequests
      <4>1. accepting + posted < MaxRequests /\ accepting' = accepting + 1
        BY <2>6 DEF HandlePostMessage
      <4>2. accepting \in 0..MaxRequests /\ posted \in 0..MaxRequests /\ MaxRequests \in Nat
        BY <1>0, TransportAssumption DEF TransportAssumption
      <4> QED BY <4>1, <4>2
    <3>2. UNCHANGED <<incoming_messages_, posted, outgoing_messages_, hand, sent, missed>>
      BY <2>6 DEF HandlePostMessage
    <3> QED BY <1>0, <2>1, <3>1, <3>2
  <2>7. CASE Binds \/ ListenFails
    BY <1>0, <2>1, <2>7 DEF Binds, ListenFails
  <2>3. ASSUME NEW s \in Streams, TakeOutgoing(s)  PROVE Queues'
    <3>1. Head(outgoing_messages_) \in Message /\ Tail(outgoing_messages_) \in Seq(Message)
      BY <1>0, <2>3 DEF TakeOutgoing
    <3>2. hand' \in [Streams -> Seq(Message)] /\ \A t \in Streams : Len(hand'[t]) <= 1
      BY <1>0, <2>3, <3>1 DEF TakeOutgoing
    <3> QED BY <1>0, <2>1, <2>3, <3>1, <3>2 DEF TakeOutgoing
  <2>4. ASSUME NEW s \in Streams, WriteEvent(s)  PROVE Queues'
    <3>1. Head(hand[s]) \in Message
      BY <2>4, HeldItems DEF WriteEvent, Typed, Hands
    <3>2. hand' \in [Streams -> Seq(Message)] /\ \A t \in Streams : Len(hand'[t]) <= 1
      BY <1>0, <2>4 DEF WriteEvent
    <3>3. \/ sent' = sent /\ missed' = missed \cup {Head(hand[s])}
          \/ sent' = [sent EXCEPT ![s] = Append(sent[s], Head(hand[s]))] /\ missed' = missed
      BY <2>4 DEF WriteEvent
    <3>5. Append(sent[s], Head(hand[s])) \in Seq(Message)
      BY <1>0, <3>1
    <3>6. sent' \in [Streams -> Seq(Message)]
      BY <1>0, <3>3, <3>5
    <3>7. missed' \subseteq Message
      BY <1>0, <3>1, <3>3
    <3>4. sent' \in [Streams -> Seq(Message)] /\ missed' \subseteq Message
      BY <3>6, <3>7
    <3> QED BY <1>0, <2>1, <2>4, <3>2, <3>4 DEF WriteEvent
  <2>5. ASSUME NEW s \in Streams,
               HandleSSEConnection(s) \/ ClientLeaves(s) \/ Activate(s) \/ GiveUp(s) \/ Terminate(s)
               \/ LibraryCloses(s)
        PROVE  Queues'
    BY <1>0, <2>1, <2>5 DEF HandleSSEConnection, ClientLeaves, Activate, GiveUp, Terminate, LibraryCloses
  <2> QED BY <1>4, <2>2, <2>3, <2>4, <2>5, <2>6, <2>7 DEF Transport, Provide, Client
<1> QED BY <1>1, <1>2, <1>3, <1>4 DEF Next

LEMMA HandsStep ==
  ASSUME Typed, Next
  PROVE  Hands'
<1> USE DEF Hands, transportVars, flags, queues, posts, clients, traffic
<1>0. Hands /\ main \in MainLocations /\ writer \in WriterLocations
  BY DEF Typed, Seats
<1>1. CASE Connect
  <2>1. UNCHANGED <<stream, hand, note>>
    BY <1>1 DEF Connect, StartTransport, StartReturns, ReadNothing, Start, HandleRequest, ReadRequest, Read, SendNotification,
       NotifyWriter, LockOutput, WriteResponse, PushResponse, Drop, Write
  <2>2. writer' = writer \/ (writer = "waiting" /\ writer' = "locking")
    BY <1>1 DEF Connect, StartTransport, StartReturns, ReadNothing, HandleRequest, ReadRequest, SendNotification,
       NotifyWriter, LockOutput, WriteResponse, PushResponse, Wake
  <2>3. /\ main' \in {"parsing", "handling", "notifying", "writing", "pushing"} => request' # <<>>
        /\ main' \in {"starting", "connecting", "reading"} => request' = <<>>
    <3>1. CASE StartTransport \/ StartReturns \/ ReadNothing
      <4>1. UNCHANGED request /\ main \in {"starting", "connecting", "reading"}
            /\ main' \notin {"parsing", "handling", "notifying", "writing", "pushing"}
        BY <3>1 DEF StartTransport, StartReturns, ReadNothing
      <4> QED BY <1>0, <4>1
    <3>2. CASE ReadRequest
      BY <1>0, <3>2 DEF ReadRequest
    <3>3. CASE HandleRequest
      BY <1>0, <3>3 DEF HandleRequest, Forget
    <3>4. CASE SendNotification \/ NotifyWriter \/ LockOutput
      BY <1>0, <3>4 DEF SendNotification, NotifyWriter, LockOutput
    <3>5. CASE WriteResponse
      <4>1. main = "writing" /\ \/ main' = "pushing" /\ request' = request
                                \/ main' = "reading" /\ request' = <<>>
        BY <3>5, Zenon DEF WriteResponse
      <4> QED BY <1>0, <4>1
    <3>6. CASE PushResponse
      BY <3>6 DEF PushResponse
    <3> QED BY <1>1, <3>1, <3>2, <3>3, <3>4, <3>5, <3>6 DEF Connect
  <2> QED BY <1>0, <2>1, <2>2, <2>3
<1>2. CASE WriterLoop \/ SpuriousWakeup
  <2>1. UNCHANGED <<stream, hand, request>> /\ main' \in {main, "dead"}
    BY <1>2 DEF WriterLoop, SpuriousWakeup, WriterTest, WriterLock, WriterPark,
       WriterCheck, WriterRelock, WriterWrite, WriterPush, WriterDrops, Drop, Write, writerOnly
  <2>2. /\ writer' \in {"holding", "relocking", "sending", "pushing"} => note' # <<>>
        /\ writer' \in {"loop", "locking", "parking", "waiting"} => note' = <<>>
    <3>1. CASE WriterTest \/ WriterPark \/ SpuriousWakeup
      BY <1>0, <3>1 DEF WriterTest, WriterPark, SpuriousWakeup
    <3>2. CASE WriterLock
      <4>1. writer = "locking" /\ \/ note' = <<Head(notification_queue_)>> /\ writer' = "holding"
                                  \/ note' = note /\ writer' \in {"done", "parking"}
        BY <3>2 DEF WriterLock
      <4> QED BY <1>0, <4>1
    <3>3. CASE WriterCheck \/ WriterRelock \/ WriterPush
      BY <1>0, <3>3 DEF WriterCheck, WriterRelock, WriterPush, WriterDrops
    <3>4. CASE WriterWrite
      BY <1>0, <3>4 DEF WriterWrite, WriterDrops
    <3> QED BY <1>2, <3>1, <3>2, <3>3, <3>4 DEF WriterLoop
  <2> QED BY <1>0, <2>1, <2>2
<1>3. CASE StopServer \/ stop_handler
  <2>1. UNCHANGED <<stream, hand, request, note>>
    BY <1>3 DEF StopServer, stop_handler, StopTransport, StopFlags, StopRunning, StopConnected, StopActive, CloseSocket, JoinStreams, ResetTransport, StopWriter,
       WakeWriter, JoinWriter, stopOnly
  <2>2. /\ main' \in {"stopping", "disconnecting", "deactivating", "closing socket", "joining streams", "resetting", "stopping writer", "waking writer",
                      "joining writer", "ended"}
        /\ writer' = writer \/ (writer = "waiting" /\ writer' = "locking")
    BY <1>3 DEF StopServer, stop_handler, StopTransport, StopFlags, StopRunning, StopConnected, StopActive, CloseSocket, JoinStreams, ResetTransport, StopWriter,
       WakeWriter, JoinWriter, Wake
  <2> QED BY <1>0, <2>1, <2>2
<1>4. CASE Transport
  <2>1. UNCHANGED <<main, writer, request, note>>
    BY <1>4 DEF Transport, serverVars
  <2>2. /\ stream \in [Streams -> StreamLocations] /\ hand \in [Streams -> Seq(Message)]
    BY DEF Typed, Seats, Queues
  <2>3. CASE HandlePostMessage \/ PushRequest \/ Binds \/ ListenFails
    <3>1. UNCHANGED <<stream, hand>>
      BY <2>3 DEF HandlePostMessage, PushRequest, Binds, ListenFails
    <3> QED BY <1>0, <2>1, <3>1
  <2>4. ASSUME NEW s \in Streams, TakeOutgoing(s)  PROVE Hands'
    <3>1. stream'[s] = "writing" /\ hand'[s] # <<>>
      BY <2>2, <2>4 DEF TakeOutgoing, StreamAt
    <3>2. \A t \in Streams : t # s => stream'[t] = stream[t] /\ hand'[t] = hand[t]
      BY <2>2, <2>4 DEF TakeOutgoing, StreamAt
    <3> QED BY <1>0, <2>1, <3>1, <3>2
  <2>5. ASSUME NEW s \in Streams, WriteEvent(s)  PROVE Hands'
    <3>1. stream'[s] # "writing" /\ hand'[s] = <<>>
      BY <2>2, <2>5 DEF WriteEvent, StreamAt
    <3>2. \A t \in Streams : t # s => stream'[t] = stream[t] /\ hand'[t] = hand[t]
      BY <2>2, <2>5 DEF WriteEvent, StreamAt
    <3> QED BY <1>0, <2>1, <3>1, <3>2
  <2>6. ASSUME NEW s \in Streams,
               HandleSSEConnection(s) \/ ClientLeaves(s) \/ Activate(s) \/ GiveUp(s) \/ Terminate(s)
               \/ LibraryCloses(s)
        PROVE  Hands'
    <3>1. hand' = hand /\ (stream'[s] = "writing" <=> stream[s] = "writing")
      BY <2>2, <2>6 DEF HandleSSEConnection, ClientLeaves, Activate, GiveUp, Terminate, LibraryCloses, StreamAt
    <3>2. \A t \in Streams : t # s => stream'[t] = stream[t]
      BY <2>2, <2>6 DEF HandleSSEConnection, ClientLeaves, Activate, GiveUp, Terminate, LibraryCloses, StreamAt
    <3> QED BY <1>0, <2>1, <3>1, <3>2
  <2> QED BY <1>4, <2>3, <2>4, <2>5, <2>6 DEF Transport, Provide, Client
<1> QED BY <1>1, <1>2, <1>3, <1>4 DEF Next

LEMMA TypedStep ==
  ASSUME Typed, [Next]_vars
  PROVE  Typed'
<1>1. CASE Next
  BY <1>1, QueuesStep, HandsStep, SeatsStep, SwitchesStep DEF Typed
<1>2. CASE UNCHANGED vars
  BY <1>2 DEF vars, transportVars, flags, queues, posts, clients, traffic, serverVars, Typed, Queues, Hands, Seats, Switches, Running
<1> QED BY <1>1, <1>2

-----------------------------------------------------------------------------
(* Whole connections                                                       *)

Carrying ==
  \/ accepting > 0 \/ incoming_messages_ # <<>> \/ request # <<>>
  \/ notification_queue_ # <<>> \/ note # <<>>

Sound(s) ==
  /\ stream[s] \notin {"terminating", "closing"}
  /\ stream[s] = "opening" => client_connected_
  /\ stream[s] \in {"serving", "writing"} => client_connected_ /\ sse_active_

\* No flag has been taken back, and nothing is on its way that was not accepted
\* over a connection.
Whole ==
  Running /\ ~departed =>
    /\ missed = {} /\ gone = {} /\ transport_ /\ listening # "closed"
    /\ Carrying => client_connected_
    /\ \A s \in Streams : Sound(s)

\* What leaves the streams and the flags alone, and carries on what there is.
LEMMA WholeKept ==
  ASSUME Whole,
         Running' /\ ~departed' => Running /\ ~departed,
         UNCHANGED <<missed, gone, transport_, listening, client_connected_, sse_active_, stream>>,
         Running /\ ~departed => (Carrying' => Carrying)
  PROVE  Whole'
BY DEF Whole, Sound

LEMMA ConnectWhole ==
  ASSUME Typed, Whole, Connect
  PROVE  Whole'
<1> USE DEF transportVars, flags, queues, posts, clients, traffic
<1>0. Running /\ departed' = departed /\ gone' = gone /\ transport_' = transport_
      /\ client_connected_' = client_connected_ /\ sse_active_' = sse_active_ /\ stream' = stream
      /\ accepting' = accepting
  BY DEF Connect, StartTransport, StartReturns, ReadNothing, ReadRequest, HandleRequest, SendNotification,
     NotifyWriter, LockOutput, WriteResponse, PushResponse, Start, Read, Drop, Write, Running
<1>1. CASE StartTransport
  <2>1. UNCHANGED <<missed, accepting, incoming_messages_, request, notification_queue_, note>>
        /\ listening' = "binding"
    BY <1>1 DEF StartTransport, Start
  <2> QED BY <1>0, <2>1 DEF Whole, Sound, Carrying
<1>2. CASE StartReturns \/ ReadNothing \/ NotifyWriter \/ LockOutput
  <2>1. UNCHANGED <<missed, listening, incoming_messages_, request, notification_queue_, note>>
    BY <1>2 DEF StartReturns, ReadNothing, NotifyWriter, LockOutput
  <2> QED BY <1>0, <2>1, WholeKept DEF Carrying
<1>3. CASE ReadRequest
  <2>1. UNCHANGED <<missed, listening, notification_queue_, note>> /\ incoming_messages_ # <<>>
    BY <1>3 DEF ReadRequest, Read
  <2> QED BY <1>0, <2>1, WholeKept DEF Carrying
<1>4. CASE HandleRequest
  <2>1. UNCHANGED <<missed, listening, incoming_messages_, notification_queue_, note>>
        /\ request' \in {request, <<>>}
    BY <1>4 DEF HandleRequest, Forget
  <2> QED BY <1>0, <2>1, WholeKept DEF Carrying
<1>5. CASE SendNotification
  <2>1. UNCHANGED <<missed, listening, incoming_messages_, request, note>> /\ main = "handling"
    BY <1>5 DEF SendNotification
  <2>2. request # <<>>
    BY <2>1 DEF Typed, Hands
  <2> QED BY <1>0, <2>1, <2>2, WholeKept DEF Carrying
<1>6. CASE WriteResponse
  <2>1. request # <<>> /\ UNCHANGED <<listening, incoming_messages_, notification_queue_, note>>
    BY <1>6 DEF WriteResponse, Drop, Typed, Hands
  <2>2. CASE client_connected_
    <3>1. UNCHANGED <<transportVars, request, output_mutex_>>
      BY <1>6, <2>2, Zenon DEF WriteResponse
    <3> QED BY <1>0, <2>1, <3>1, WholeKept DEF Carrying
  <2>3. CASE ~client_connected_
    BY <1>0, <2>1, <2>3 DEF Whole, Carrying
  <2> QED BY <2>2, <2>3
<1>7. CASE PushResponse
  <2>1. UNCHANGED <<missed, listening, incoming_messages_, notification_queue_, note>> /\ request' = <<>>
    BY <1>7 DEF PushResponse, Write
  <2> QED BY <1>0, <2>1, WholeKept DEF Carrying
<1> QED BY <1>1, <1>2, <1>3, <1>4, <1>5, <1>6, <1>7 DEF Connect

LEMMA WriterWhole ==
  ASSUME Typed, Whole, WriterLoop \/ SpuriousWakeup
  PROVE  Whole'
<1> USE DEF transportVars, flags, queues, posts, clients, traffic, writerOnly
<1>0. /\ UNCHANGED <<departed, gone, transport_, listening, client_connected_, sse_active_, stream,
                     accepting, incoming_messages_, request>>
      /\ main' \in {main, "dead"}
  BY DEF WriterLoop, SpuriousWakeup, WriterTest, WriterLock, WriterPark, WriterCheck, WriterRelock,
     WriterWrite, WriterPush, WriterDrops, Drop, Write
<1>1. Running' => Running
  BY <1>0 DEF Running
<1>2. CASE WriterLock
  <2>1. missed' = missed /\ \/ notification_queue_ # <<>>
                            \/ UNCHANGED <<notification_queue_, note>>
    BY <1>2 DEF WriterLock
  <2> QED BY <1>0, <1>1, <2>1, WholeKept DEF Carrying
<1>3. CASE WriterTest \/ WriterPark \/ SpuriousWakeup
  <2>1. UNCHANGED <<missed, notification_queue_, note>>
    BY <1>3 DEF WriterTest, WriterPark, SpuriousWakeup
  <2> QED BY <1>0, <1>1, <2>1, WholeKept DEF Carrying
<1>4. CASE WriterCheck \/ WriterRelock \/ WriterWrite
  <2>1. note # <<>> /\ notification_queue_' = notification_queue_
    BY <1>4 DEF WriterCheck, WriterRelock, WriterWrite, Typed, Hands
  <2>2. CASE UNCHANGED <<missed, note>>
    BY <1>0, <1>1, <2>1, <2>2, WholeKept DEF Carrying
  <2>3. CASE ~transport_ \/ ~client_connected_
    BY <1>0, <1>1, <2>1, <2>3 DEF Whole, Carrying
  <2>4. CASE transport_ /\ client_connected_
    <3>1. UNCHANGED <<missed, note>>
      <4>1. CASE WriterCheck
        <5>1. writer' = "relocking" /\ UNCHANGED <<transportVars, note>>
          BY <4>1, <2>4, Zenon DEF WriterCheck
        <5> QED BY <5>1
      <4>2. CASE WriterRelock
        <5>1. writer' = "sending" /\ output_mutex_' = "writer" /\ UNCHANGED <<transportVars, note>>
          BY <4>2, <2>4, Zenon DEF WriterRelock
        <5> QED BY <5>1
      <4>3. CASE WriterWrite
        <5>1. UNCHANGED <<transportVars, main, note, output_mutex_>>
          BY <4>3, <2>4 DEF WriterWrite
        <5> QED BY <5>1
      <4> QED BY <1>4, <4>1, <4>2, <4>3
    <3> QED BY <3>1, <2>2
  <2> QED BY <2>3, <2>4
<1>5. CASE WriterPush
  <2>1. UNCHANGED <<missed, notification_queue_>> /\ note' = <<>>
    BY <1>5 DEF WriterPush, Write
  <2> QED BY <1>0, <1>1, <2>1, WholeKept DEF Carrying
<1> QED BY <1>2, <1>3, <1>4, <1>5 DEF WriterLoop

LEMMA TransportWhole ==
  ASSUME Typed, Whole, Transport
  PROVE  Whole'
<1> USE DEF transportVars, flags, queues, posts, clients, traffic, serverVars, Sound
<1>0. Running' = Running /\ UNCHANGED serverVars /\ stream \in [Streams -> StreamLocations]
      /\ (departed => departed')
  BY DEF Transport, Running, Typed, Seats, HandlePostMessage, PushRequest, Binds, ListenFails, Provide, Client,
     HandleSSEConnection, ClientLeaves, Activate, TakeOutgoing, WriteEvent, GiveUp, Terminate, LibraryCloses
<1>1. CASE HandlePostMessage
  <2>1. client_connected_ /\ UNCHANGED <<flags, clients, missed, stream>>
    BY <1>1 DEF HandlePostMessage
  <2> QED BY <1>0, <2>1 DEF Whole, Carrying
<1>2. CASE PushRequest
  <2>1. accepting > 0 /\ UNCHANGED <<flags, clients, missed, stream>>
    BY <1>2 DEF PushRequest
  <2> QED BY <1>0, <2>1 DEF Whole, Carrying
<1>3. CASE Binds \/ ListenFails
  <2>1. UNCHANGED <<client_connected_, sse_active_, traffic>> /\ listening' \in {"open", "failed"}
    BY <1>3 DEF Binds, ListenFails
  <2> QED BY <1>0, <2>1 DEF Whole, Carrying
<1>4. ASSUME NEW s \in Streams, Running, ~(departed'), Provide(s) \/ Client(s)
      PROVE  Whole'
  <2>1. /\ missed = {} /\ gone = {} /\ transport_ /\ listening # "closed"
        /\ Carrying => client_connected_
        /\ \A t \in Streams : Sound(t)
    BY <1>0, <1>4 DEF Whole
  <2>2. CASE HandleSSEConnection(s)
    <3>1. /\ UNCHANGED <<sse_active_, listening, departed, posts, missed, incoming_messages_>>
          /\ client_connected_' = TRUE /\ gone' = gone \ {s} /\ stream' = [stream EXCEPT ![s] = "opening"]
      BY <2>2 DEF HandleSSEConnection, StreamAt
    <3> QED BY <1>0, <2>1, <3>1 DEF Whole, Carrying
  <2>3. CASE ClientLeaves(s)
    BY <1>4, <2>3 DEF ClientLeaves
  <2>4. CASE Activate(s)
    <3>1. /\ UNCHANGED <<client_connected_, listening, gone, posts, missed, incoming_messages_>>
          /\ stream[s] = "opening" /\ sse_active_' = TRUE /\ stream' = [stream EXCEPT ![s] = "serving"]
      BY <2>4 DEF Activate, StreamAt
    <3> QED BY <1>0, <2>1, <3>1 DEF Whole, Carrying
  <2>5. CASE TakeOutgoing(s)
    <3>1. /\ UNCHANGED <<flags, gone, posts, missed, incoming_messages_>>
          /\ stream[s] = "serving" /\ stream' = [stream EXCEPT ![s] = "writing"]
      BY <2>5 DEF TakeOutgoing, StreamAt
    <3> QED BY <1>0, <2>1, <3>1 DEF Whole, Carrying
  <2>6. CASE WriteEvent(s)
    <3>1. UNCHANGED <<flags, gone, posts, incoming_messages_>> /\ stream[s] = "writing" /\ s \notin gone
      BY <2>1, <2>6 DEF WriteEvent
    <3>2. missed' = missed /\ stream' = [stream EXCEPT ![s] = "serving"]
      BY <2>6, <3>1 DEF WriteEvent, StreamAt
    <3> QED BY <1>0, <2>1, <3>1, <3>2 DEF Whole, Carrying
  <2>7. CASE GiveUp(s)
    BY <2>1, <2>7 DEF GiveUp
  <2>8. CASE Terminate(s)
    BY <2>1, <2>8 DEF Terminate
  <2>9. CASE LibraryCloses(s)
    BY <2>1, <2>9 DEF LibraryCloses
  <2> QED BY <1>4, <2>2, <2>3, <2>4, <2>5, <2>6, <2>7, <2>8, <2>9 DEF Provide, Client
<1>5. ~(Running' /\ ~(departed')) => Whole'
  BY DEF Whole
<1> QED BY <1>0, <1>1, <1>2, <1>3, <1>4, <1>5 DEF Transport

\* As long as no client leaves, every stream that is served has both flags and
\* nothing is dropped, for any number of streams that connect, and are served,
\* at once.
THEOREM WholeUntilDepartureHolds == Spec => []WholeUntilDeparture
<1>1. Init => Typed /\ Whole
  <2>1. Init => Whole
    BY DEF Init, TransportInit, Whole, Sound, Carrying
  <2> QED BY <2>1, InitTyped
<1>2. Typed /\ Whole /\ [Next]_vars => Typed' /\ Whole'
  <2> SUFFICES ASSUME Typed, Whole, [Next]_vars PROVE Whole'
    BY TypedStep
  <2>1. CASE UNCHANGED vars
    BY <2>1 DEF vars, transportVars, flags, queues, posts, clients, traffic, serverVars, Whole, Sound,
       Carrying, Running
  <2>2. CASE StopServer \/ stop_handler
    <3>1. ~(Running')
      BY <2>2 DEF StopServer, stop_handler, StopTransport, StopFlags, JoinStreams, ResetTransport, StopWriter,
         WakeWriter, JoinWriter, Running
    <3> QED BY <3>1 DEF Whole
  <2> QED BY <2>1, <2>2, ConnectWhole, WriterWhole, TransportWhole DEF Next
<1>3. Whole => WholeUntilDeparture
  BY DEF Whole, Sound, WholeUntilDeparture
<1> QED BY <1>1, <1>2, <1>3, PTL DEF Spec

-----------------------------------------------------------------------------
(* The line of messages                                                    *)

Before(x, y) == x # y /\ (x[1] = y[1] => x[2] < y[2])
Below(S, T) == \A x \in S, y \in T : Before(x, y)

\* Messages on their way, from those that wait (W) over those a thread holds
\* (H) and the outgoing ones (O) to each stream's hand (P) and client (D);
\* off the way, those missed (M) and those without an answer (N); of all that
\* were ever accepted (A).
InLine(W, H, O, P, D) ==
  /\ Below(H, W) /\ Below(O, W) /\ Below(O, H)
  /\ \A s \in Streams :
       /\ Below(P[s], W) /\ Below(P[s], H) /\ Below(P[s], O)
       /\ Below(D[s], W) /\ Below(D[s], H) /\ Below(D[s], O) /\ Below(D[s], P[s])
  /\ \A x, y \in H : x[1] = y[1] => x = y

Apart(W, H, O, P, D, M, N) ==
  /\ \A x \in M : x \notin N /\ x \notin W /\ x \notin H /\ x \notin O
  /\ \A x \in N : x \notin W /\ x \notin H /\ x \notin O
  /\ \A s \in Streams : \A x : x \in P[s] \/ x \in D[s] =>
       /\ x \notin M /\ x \notin N
       /\ \A t \in Streams : t # s => x \notin P[t] /\ x \notin D[t]

Covered(W, H, O, P, D, M, N, A) ==
  \A x : x \in A <=> \/ x \in W \/ x \in H \/ x \in O \/ x \in M \/ x \in N
                     \/ \E s \in Streams : x \in P[s] \/ x \in D[s]

Line(W, H, O, P, D, M, N, A) ==
  InLine(W, H, O, P, D) /\ Apart(W, H, O, P, D, M, N) /\ Covered(W, H, O, P, D, M, N, A)

\* A new message gets behind all others.
LEMMA Enters ==
  ASSUME NEW W, NEW H, NEW O, NEW P, NEW D, NEW M, NEW N, NEW A, NEW W2, NEW A2, NEW x,
         Line(W, H, O, P, D, M, N, A),
         Below(A, {x}),
         W2 = W \cup {x}, A2 = A \cup {x}
  PROVE  Line(W2, H, O, P, D, M, N, A2)
<1>1. InLine(W2, H, O, P, D)
  BY DEF Line, InLine, Covered, Below
<1>2. Apart(W2, H, O, P, D, M, N)
  BY DEF Line, Apart, Covered, Below, Before
<1>3. Covered(W2, H, O, P, D, M, N, A2)
  BY DEF Line, Covered
<1> QED BY <1>1, <1>2, <1>3 DEF Line

\* The first that waits is taken.
LEMMA Taken ==
  ASSUME NEW W, NEW H, NEW O, NEW P, NEW D, NEW M, NEW N, NEW A, NEW W2, NEW H2, NEW x,
         Line(W, H, O, P, D, M, N, A),
         W = W2 \cup {x}, Below({x}, W2),
         H2 = H \cup {x}, \A y \in H : y[1] # x[1]
  PROVE  Line(W2, H2, O, P, D, M, N, A)
<1>1. InLine(W2, H2, O, P, D)
  BY DEF Line, InLine, Below, Before
<1>2. Apart(W2, H2, O, P, D, M, N)
  BY DEF Line, Apart
<1>3. Covered(W2, H2, O, P, D, M, N, A)
  BY DEF Line, Covered
<1> QED BY <1>1, <1>2, <1>3 DEF Line

\* What a thread holds becomes outgoing.
LEMMA Passed ==
  ASSUME NEW W, NEW H, NEW O, NEW P, NEW D, NEW M, NEW N, NEW A, NEW H2, NEW O2, NEW x,
         Line(W, H, O, P, D, M, N, A),
         x \in H, H2 = H \ {x}, O2 = O \cup {x}
  PROVE  Line(W, H2, O2, P, D, M, N, A)
<1>1. InLine(W, H2, O2, P, D)
  BY DEF Line, InLine, Below, Before
<1>2. Apart(W, H2, O2, P, D, M, N)
  BY DEF Line, Apart
<1>3. Covered(W, H2, O2, P, D, M, N, A)
  BY DEF Line, Covered
<1> QED BY <1>1, <1>2, <1>3 DEF Line

\* What a thread holds is missed, or is not answered.
LEMMA Missed ==
  ASSUME NEW W, NEW H, NEW O, NEW P, NEW D, NEW M, NEW N, NEW A, NEW H2, NEW M2, NEW x,
         Line(W, H, O, P, D, M, N, A),
         x \in H, H2 = H \ {x}, M2 = M \cup {x}
  PROVE  Line(W, H2, O, P, D, M2, N, A)
<1>1. InLine(W, H2, O, P, D)
  BY DEF Line, InLine, Below
<1>2. \A s \in Streams : x \notin P[s] /\ x \notin D[s]
  BY DEF Line, InLine, Below, Before
<1>4. x \notin W /\ x \notin O /\ x \notin M /\ x \notin N
  BY DEF Line, InLine, Below, Before, Apart
<1>3. Apart(W, H2, O, P, D, M2, N)
  BY <1>2, <1>4 DEF Line, Apart
<1>5. Covered(W, H2, O, P, D, M2, N, A)
  BY DEF Line, Covered
<1> QED BY <1>1, <1>3, <1>5 DEF Line

LEMMA Silenced ==
  ASSUME NEW W, NEW H, NEW O, NEW P, NEW D, NEW M, NEW N, NEW A, NEW H2, NEW N2, NEW x,
         Line(W, H, O, P, D, M, N, A),
         x \in H, H2 = H \ {x}, N2 = N \cup {x}
  PROVE  Line(W, H2, O, P, D, M, N2, A)
<1>1. InLine(W, H2, O, P, D)
  BY DEF Line, InLine, Below
<1>2. \A s \in Streams : x \notin P[s] /\ x \notin D[s]
  BY DEF Line, InLine, Below, Before
<1>3. x \notin W /\ x \notin O /\ x \notin M /\ x \notin N
  BY DEF Line, InLine, Below, Before, Apart
<1>4. Apart(W, H2, O, P, D, M, N2)
  BY <1>2, <1>3 DEF Line, Apart
<1>5. Covered(W, H2, O, P, D, M, N2, A)
  BY DEF Line, Covered
<1> QED BY <1>1, <1>4, <1>5 DEF Line

OthersKeep(F, G, s) == \A t \in Streams : t # s => G[t] = F[t]

\* A stream takes the first that is outgoing.
LEMMA Popped ==
  ASSUME NEW W, NEW H, NEW O, NEW P, NEW D, NEW M, NEW N, NEW A, NEW O2, NEW P2, NEW x,
         NEW s \in Streams,
         Line(W, H, O, P, D, M, N, A),
         O = O2 \cup {x}, Below({x}, O2),
         P[s] = {}, P2[s] = {x}, OthersKeep(P, P2, s)
  PROVE  Line(W, H, O2, P2, D, M, N, A)
<1> USE DEF OthersKeep
<1>1. InLine(W, H, O2, P2, D)
  <2>1. ASSUME NEW t \in Streams
        PROVE  /\ Below(P2[t], W) /\ Below(P2[t], H) /\ Below(P2[t], O2)
               /\ Below(D[t], O2) /\ Below(D[t], P2[t])
    <3>1. CASE t = s
      BY <3>1 DEF Line, InLine, Below
    <3>2. CASE t # s
      BY <3>2 DEF Line, InLine, Below
    <3> QED BY <3>1, <3>2
  <2> QED BY <2>1 DEF Line, InLine, Below
<1>2. \A t \in Streams : x \notin P[t] /\ x \notin D[t]
  BY DEF Line, InLine, Below, Before
<1>3. x \notin O2 /\ x \notin M /\ x \notin N
  BY DEF Line, InLine, Below, Before, Apart
<1>4. Apart(W, H, O2, P2, D, M, N)
  <2>1. ASSUME NEW t \in Streams, NEW y, y \in P2[t] \/ y \in D[t], NEW u \in Streams, u # t
        PROVE  y \notin M /\ y \notin N /\ y \notin P2[u] /\ y \notin D[u]
    <3>1. CASE y = x
      <4>1. t = s
        BY <1>2, <2>1, <3>1
      <4> QED BY <1>2, <1>3, <2>1, <3>1, <4>1
    <3>2. CASE y # x
      <4>1. y \in P[t] \/ y \in D[t]
        BY <2>1, <3>2
      <4>2. y \notin M /\ y \notin N /\ y \notin P[u] /\ y \notin D[u]
        BY <2>1, <4>1 DEF Line, Apart
      <4> QED BY <3>2, <4>2
    <3> QED BY <3>1, <3>2
  <2>2. ASSUME NEW t \in Streams, NEW y, y \in P2[t] \/ y \in D[t]
        PROVE  y \notin M /\ y \notin N
    <3>1. y = x \/ y \in P[t] \/ y \in D[t]
      BY <2>2
    <3> QED BY <1>3, <3>1 DEF Line, Apart
  <2> QED BY <2>1, <2>2 DEF Line, Apart
<1>5. Covered(W, H, O2, P2, D, M, N, A)
  <2> SUFFICES ASSUME NEW y
               PROVE  y \in A <=> \/ y \in W \/ y \in H \/ y \in O2 \/ y \in M \/ y \in N
                                  \/ \E t \in Streams : y \in P2[t] \/ y \in D[t]
    BY DEF Covered
  <2>1. y \in A <=> \/ y \in W \/ y \in H \/ y \in O \/ y \in M \/ y \in N
                    \/ \E t \in Streams : y \in P[t] \/ y \in D[t]
    BY DEF Line, Covered
  <2>2. (\E t \in Streams : y \in P2[t] \/ y \in D[t])
          <=> (y = x \/ \E t \in Streams : y \in P[t] \/ y \in D[t])
    OBVIOUS
  <2> QED BY <2>1, <2>2
<1> QED BY <1>1, <1>4, <1>5 DEF Line

\* What a stream holds reaches its client.
LEMMA Reached ==
  ASSUME NEW W, NEW H, NEW O, NEW P, NEW D, NEW M, NEW N, NEW A, NEW P2, NEW D2, NEW x,
         NEW s \in Streams,
         Line(W, H, O, P, D, M, N, A),
         P[s] = {x}, P2[s] = {}, OthersKeep(P, P2, s),
         D2[s] = D[s] \cup {x}, OthersKeep(D, D2, s)
  PROVE  Line(W, H, O, P2, D2, M, N, A)
<1> USE DEF OthersKeep
<1>1. InLine(W, H, O, P2, D2)
  <2>1. ASSUME NEW t \in Streams
        PROVE  /\ Below(P2[t], W) /\ Below(P2[t], H) /\ Below(P2[t], O)
               /\ Below(D2[t], W) /\ Below(D2[t], H) /\ Below(D2[t], O) /\ Below(D2[t], P2[t])
    <3>1. CASE t = s
      BY <3>1 DEF Line, InLine, Below
    <3>2. CASE t # s
      BY <3>2 DEF Line, InLine, Below
    <3> QED BY <3>1, <3>2
  <2> QED BY <2>1 DEF Line, InLine
<1>2. \A t \in Streams : \A y : (y \in P2[t] \/ y \in D2[t]) <=> (y \in P[t] \/ y \in D[t])
  OBVIOUS
<1>3. Apart(W, H, O, P2, D2, M, N)
  <2>1. ASSUME NEW t \in Streams, NEW y, y \in P2[t] \/ y \in D2[t]
        PROVE  /\ y \notin M /\ y \notin N
               /\ \A u \in Streams : u # t => y \notin P2[u] /\ y \notin D2[u]
    <3>1. y \in P[t] \/ y \in D[t]
      BY <1>2, <2>1
    <3>2. /\ y \notin M /\ y \notin N
          /\ \A u \in Streams : u # t => y \notin P[u] /\ y \notin D[u]
      BY <3>1 DEF Line, Apart
    <3> QED BY <1>2, <3>2
  <2> QED BY <2>1 DEF Line, Apart
<1>4. Covered(W, H, O, P2, D2, M, N, A)
  BY <1>2 DEF Line, Covered
<1> QED BY <1>1, <1>3, <1>4 DEF Line

\* What a stream holds is missed, for its client has left.
LEMMA Lost ==
  ASSUME NEW W, NEW H, NEW O, NEW P, NEW D, NEW M, NEW N, NEW A, NEW P2, NEW M2, NEW x,
         NEW s \in Streams,
         Line(W, H, O, P, D, M, N, A),
         P[s] = {x}, P2[s] = {}, OthersKeep(P, P2, s),
         M2 = M \cup {x}
  PROVE  Line(W, H, O, P2, D, M2, N, A)
<1> USE DEF OthersKeep
<1>1. \A t \in Streams : \A y : y \in P2[t] => y \in P[t] /\ y # x
  <2> SUFFICES ASSUME NEW t \in Streams, NEW y, y \in P2[t] PROVE y \in P[t] /\ y # x
    OBVIOUS
  <2>1. t # s /\ y \in P[t]
    OBVIOUS
  <2>2. x \in P[s]
    OBVIOUS
  <2> QED BY <2>1, <2>2 DEF Line, Apart
<1>2. \A t \in Streams : x \notin D[t]
  <2> SUFFICES ASSUME NEW t \in Streams PROVE x \notin D[t]
    OBVIOUS
  <2>1. x \in P[s]
    OBVIOUS
  <2>2. CASE t = s
    BY <2>1, <2>2 DEF Line, InLine, Below, Before
  <2>3. CASE t # s
    BY <2>1, <2>3 DEF Line, Apart
  <2> QED BY <2>2, <2>3
<1>3. x \in P[s] /\ x \notin W /\ x \notin H /\ x \notin O /\ x \notin M /\ x \notin N
  BY DEF Line, InLine, Below, Before, Apart
<1>4. InLine(W, H, O, P2, D)
  BY <1>1 DEF Line, InLine, Below
<1>5. Apart(W, H, O, P2, D, M2, N)
  <2>1. ASSUME NEW t \in Streams, NEW y, y \in P2[t] \/ y \in D[t]
        PROVE  /\ y \notin M2 /\ y \notin N
               /\ \A u \in Streams : u # t => y \notin P2[u] /\ y \notin D[u]
    <3>1. (y \in P[t] \/ y \in D[t]) /\ y # x
      BY <1>1, <1>2, <2>1
    <3>2. /\ y \notin M /\ y \notin N
          /\ \A u \in Streams : u # t => y \notin P[u] /\ y \notin D[u]
      BY <3>1 DEF Line, Apart
    <3> QED BY <1>1, <3>1, <3>2
  <2> QED BY <1>3, <2>1 DEF Line, Apart
<1>6. Covered(W, H, O, P2, D, M2, N, A)
  <2>1. \A y : (\E t \in Streams : y \in P[t] \/ y \in D[t])
               <=> (y = x \/ \E t \in Streams : y \in P2[t] \/ y \in D[t])
    BY <1>1, <1>3
  <2> QED BY <2>1 DEF Line, Covered
<1> QED BY <1>4, <1>5, <1>6 DEF Line

-----------------------------------------------------------------------------
(* The messages of the server                                              *)

Elements(q) == {q[i] : i \in DOMAIN q}

Waiting == {<<"note", x>> : x \in Elements(notification_queue_)}
             \cup {<<"answer", r.n>> : r \in Elements(incoming_messages_)}
Held == {<<"note", x>> : x \in Elements(note)} \cup {<<"answer", r.n>> : r \in Elements(request)}
Handed == [s \in Streams |-> Elements(hand[s])]
Delivered == [s \in Streams |-> Elements(sent[s])]
Unanswered == {<<"answer", n>> : n \in silent}
Accepted == {<<"note", n>> : n \in 1..noted} \cup {<<"answer", n>> : n \in 1..posted}

Rising(q) == \A i, j \in DOMAIN q : i < j => Before(q[i], q[j])

\* Every queue is in order, and so is the way from one to the next.
Flow ==
  /\ \A i, j \in DOMAIN notification_queue_ : i < j => notification_queue_[i] < notification_queue_[j]
  /\ \A i, j \in DOMAIN incoming_messages_ : i < j => incoming_messages_[i].n < incoming_messages_[j].n
  /\ Rising(outgoing_messages_)
  /\ \A s \in Streams : Rising(sent[s])
  /\ Line(Waiting, Held, Elements(outgoing_messages_), Handed, Delivered, missed, Unanswered, Accepted)

LEMMA ElementsTail ==
  ASSUME NEW S, NEW q \in Seq(S), q # <<>>
  PROVE  /\ Elements(q) = Elements(Tail(q)) \cup {Head(q)}
         /\ DOMAIN Tail(q) = 1..(Len(q) - 1) /\ DOMAIN q = 1..Len(q) /\ Len(q) \in Nat \ {0}
         /\ \A i \in 1..(Len(q) - 1) : Tail(q)[i] = q[i + 1]
<1>1. Len(q) \in Nat \ {0} /\ Tail(q) \in Seq(S) /\ Len(Tail(q)) = Len(q) - 1 /\ Head(q) = q[1]
  OBVIOUS
<1>2. DOMAIN Tail(q) = 1..(Len(q) - 1) /\ DOMAIN q = 1..Len(q)
  BY <1>1
<1>3. \A i \in 1..(Len(q) - 1) : Tail(q)[i] = q[i + 1]
  BY <1>1
<1>4. ASSUME NEW x \in Elements(q)  PROVE x \in Elements(Tail(q)) \cup {Head(q)}
  <2>1. PICK i \in 1..Len(q) : x = q[i]
    BY <1>2 DEF Elements
  <2>2. CASE i = 1
    BY <1>1, <2>1, <2>2
  <2>3. CASE i # 1
    <3>1. i - 1 \in 1..(Len(q) - 1) /\ (i - 1) + 1 = i
      BY <1>1, <2>1, <2>3
    <3>2. x = Tail(q)[i - 1]
      BY <1>3, <2>1, <3>1
    <3> QED BY <1>2, <3>1, <3>2 DEF Elements
  <2> QED BY <2>2, <2>3
<1>5. ASSUME NEW x \in Elements(Tail(q)) \cup {Head(q)}  PROVE x \in Elements(q)
  <2>1. CASE x = Head(q)
    <3>1. 1 \in DOMAIN q
      BY <1>1, <1>2
    <3> QED BY <1>1, <2>1, <3>1 DEF Elements
  <2>2. CASE x \in Elements(Tail(q))
    <3>1. PICK i \in 1..(Len(q) - 1) : x = Tail(q)[i]
      BY <1>2, <2>2 DEF Elements
    <3>2. i + 1 \in DOMAIN q
      BY <1>1, <1>2
    <3> QED BY <1>3, <3>1, <3>2 DEF Elements
  <2> QED BY <2>1, <2>2
<1> QED BY <1>1, <1>2, <1>3, <1>4, <1>5

LEMMA ElementsAppend ==
  ASSUME NEW S, NEW q \in Seq(S), NEW x \in S
  PROVE  /\ Elements(Append(q, x)) = Elements(q) \cup {x}
         /\ DOMAIN Append(q, x) = 1..(Len(q) + 1) /\ DOMAIN q = 1..Len(q) /\ Len(q) \in Nat
         /\ \A i \in 1..Len(q) : Append(q, x)[i] = q[i]
         /\ Append(q, x)[Len(q) + 1] = x
<1>1. /\ Len(q) \in Nat /\ Append(q, x) \in Seq(S) /\ Len(Append(q, x)) = Len(q) + 1
      /\ \A i \in 1..Len(q) : Append(q, x)[i] = q[i]
      /\ Append(q, x)[Len(q) + 1] = x
  OBVIOUS
<1>2. DOMAIN Append(q, x) = 1..(Len(q) + 1) /\ DOMAIN q = 1..Len(q)
  BY <1>1
<1>3. ASSUME NEW y \in Elements(q) \cup {x}  PROVE y \in Elements(Append(q, x))
  <2>1. CASE y = x
    <3>1. Len(q) + 1 \in DOMAIN Append(q, x)
      BY <1>1, <1>2
    <3> QED BY <1>1, <2>1, <3>1 DEF Elements
  <2>2. CASE y \in Elements(q)
    <3>1. PICK i \in 1..Len(q) : y = q[i]
      BY <1>2, <2>2 DEF Elements
    <3>2. i \in DOMAIN Append(q, x)
      BY <1>1, <1>2
    <3> QED BY <1>1, <3>1, <3>2 DEF Elements
  <2> QED BY <2>1, <2>2
<1>4. ASSUME NEW y \in Elements(Append(q, x))  PROVE y \in Elements(q) \cup {x}
  <2>1. PICK i \in 1..(Len(q) + 1) : y = Append(q, x)[i]
    BY <1>2 DEF Elements
  <2>2. CASE i = Len(q) + 1
    BY <1>1, <2>1, <2>2
  <2>3. CASE i # Len(q) + 1
    <3>1. i \in 1..Len(q)
      BY <1>1, <2>3
    <3> QED BY <1>1, <1>2, <2>1, <3>1 DEF Elements
  <2> QED BY <2>2, <2>3
<1> QED BY <1>1, <1>2, <1>3, <1>4

LEMMA ElementsFew ==
  ASSUME NEW S
  PROVE  /\ Elements(<<>>) = {}
         /\ \A x : Elements(<<x>>) = {x}
         /\ \A q \in Seq(S) : Len(q) <= 1 /\ q # <<>> => Elements(q) = {Head(q)}
<1>1. Elements(<<>>) = {}
  BY DEF Elements
<1>2. ASSUME NEW x  PROVE Elements(<<x>>) = {x}
  <2>1. DOMAIN <<x>> = {1} /\ <<x>>[1] = x
    OBVIOUS
  <2> QED BY <2>1 DEF Elements
<1>3. ASSUME NEW q \in Seq(S), Len(q) <= 1, q # <<>>  PROVE Elements(q) = {Head(q)}
  <2>1. DOMAIN q = {1} /\ Head(q) = q[1]
    <3>1. Len(q) \in Nat \ {0}
      BY <1>3
    <3>2. Len(q) = 1 /\ DOMAIN q = 1..1
      BY <1>3, <3>1
    <3> QED BY <1>3, <3>2
  <2> QED BY <2>1 DEF Elements
<1> QED BY <1>1, <1>2, <1>3

LEMMA RisingTail ==
  ASSUME NEW q \in Seq(Message), q # <<>>, Rising(q)
  PROVE  Rising(Tail(q)) /\ Below({Head(q)}, Elements(Tail(q)))
<1>1. /\ DOMAIN Tail(q) = 1..(Len(q) - 1) /\ DOMAIN q = 1..Len(q) /\ Len(q) \in Nat \ {0}
      /\ \A i \in 1..(Len(q) - 1) : Tail(q)[i] = q[i + 1]
  BY ElementsTail
<1>2. Head(q) = q[1]
  OBVIOUS
<1>3. ASSUME NEW i \in 1..(Len(q) - 1), NEW j \in 1..(Len(q) - 1), i < j
      PROVE  Before(Tail(q)[i], Tail(q)[j])
  <2>1. i + 1 \in 1..Len(q) /\ j + 1 \in 1..Len(q) /\ i + 1 < j + 1
    BY <1>1, <1>3
  <2>2. Before(q[i + 1], q[j + 1])
    BY <1>1, <2>1 DEF Rising
  <2> QED BY <1>1, <2>2
<1>4. ASSUME NEW i \in 1..(Len(q) - 1)  PROVE Before(Head(q), Tail(q)[i])
  <2>1. 1 \in 1..Len(q) /\ i + 1 \in 1..Len(q) /\ 1 < i + 1
    BY <1>1
  <2>2. Before(q[1], q[i + 1])
    BY <1>1, <2>1 DEF Rising
  <2> QED BY <1>1, <1>2, <2>2
<1>5. Rising(Tail(q))
  BY <1>1, <1>3 DEF Rising
<1>6. Below({Head(q)}, Elements(Tail(q)))
  BY <1>1, <1>4 DEF Below, Elements
<1> QED BY <1>5, <1>6

LEMMA RisingAppend ==
  ASSUME NEW q \in Seq(Message), NEW x \in Message, Rising(q), Below(Elements(q), {x})
  PROVE  Rising(Append(q, x))
<1>1. /\ DOMAIN Append(q, x) = 1..(Len(q) + 1) /\ DOMAIN q = 1..Len(q) /\ Len(q) \in Nat
      /\ \A i \in 1..Len(q) : Append(q, x)[i] = q[i]
      /\ Append(q, x)[Len(q) + 1] = x
  BY ElementsAppend
<1>2. \A i \in 1..Len(q) : Before(q[i], x)
  BY <1>1 DEF Below, Elements
<1>3. ASSUME NEW i \in 1..(Len(q) + 1), NEW j \in 1..(Len(q) + 1), i < j
      PROVE  Before(Append(q, x)[i], Append(q, x)[j])
  <2>1. i \in 1..Len(q)
    BY <1>1, <1>3
  <2>2. CASE j \in 1..Len(q)
    BY <1>1, <1>3, <2>1, <2>2 DEF Rising
  <2>3. CASE j = Len(q) + 1
    BY <1>1, <1>2, <2>1, <2>3
  <2> QED BY <1>1, <2>2, <2>3
<1> QED BY <1>1, <1>3 DEF Rising

lineVars == <<notification_queue_, incoming_messages_, request, note, outgoing_messages_,
              hand, sent, missed, silent, noted, posted>>

LEMMA FlowSame ==
  ASSUME Flow, UNCHANGED lineVars
  PROVE  Flow'
<1>1. /\ Waiting' = Waiting /\ Held' = Held /\ Handed' = Handed /\ Delivered' = Delivered
      /\ Unanswered' = Unanswered /\ Accepted' = Accepted
      /\ Elements(outgoing_messages_)' = Elements(outgoing_messages_)
  BY DEF lineVars, Waiting, Held, Handed, Delivered, Unanswered, Accepted, Elements
<1> QED BY <1>1 DEF Flow, lineVars, Rising

LEMMA PostFlow ==
  ASSUME Typed, Flow, Transport, PushRequest
  PROVE  Flow'
<1> DEFINE x == <<"answer", posted + 1>>
<1>1. PICK k \in Kinds :
        incoming_messages_' = Append(incoming_messages_, [n |-> posted + 1, kind |-> k])
  BY DEF HandlePostMessage, PushRequest, Binds, ListenFails
<1> DEFINE r == [n |-> posted + 1, kind |-> k]
<1>2. /\ posted \in Nat /\ posted' = posted + 1 /\ noted \in Nat /\ r \in Request
      /\ incoming_messages_ \in Seq(Request) /\ r.n = posted + 1
  BY TransportAssumption DEF Typed, Queues, HandlePostMessage, PushRequest, Binds, ListenFails, Request, TransportAssumption
<1>3. /\ UNCHANGED <<notification_queue_, request, note, outgoing_messages_, hand, sent, missed,
                     silent, noted>>
  BY DEF Transport, HandlePostMessage, PushRequest, Binds, ListenFails, serverVars
<1> HIDE DEF r
<1>4. /\ Elements(incoming_messages_') = Elements(incoming_messages_) \cup {r}
      /\ DOMAIN incoming_messages_' = 1..(Len(incoming_messages_) + 1)
      /\ DOMAIN incoming_messages_ = 1..Len(incoming_messages_) /\ Len(incoming_messages_) \in Nat
      /\ \A i \in 1..Len(incoming_messages_) : incoming_messages_'[i] = incoming_messages_[i]
      /\ incoming_messages_'[Len(incoming_messages_) + 1] = r
  BY <1>1, <1>2, ElementsAppend DEF r
<1>5. Waiting' = Waiting \cup {x}
  BY <1>2, <1>3, <1>4 DEF Waiting
<1>6. Accepted' = Accepted \cup {x} /\ Below(Accepted, {x})
  <2>1. \A y \in Accepted : \/ y[1] = "note"
                            \/ y[1] = "answer" /\ y[2] \in 1..posted
    BY DEF Accepted
  <2>2. Below(Accepted, {x})
    BY <1>2, <2>1 DEF Below, Before
  <2>3. 1..(posted + 1) = (1..posted) \cup {posted + 1}
    BY <1>2
  <2> QED BY <1>2, <1>3, <2>2, <2>3 DEF Accepted
<1>7. Held' = Held /\ Handed' = Handed /\ Delivered' = Delivered /\ Unanswered' = Unanswered
      /\ Elements(outgoing_messages_)' = Elements(outgoing_messages_)
  BY <1>3 DEF Held, Handed, Delivered, Unanswered, Elements
<1> HIDE DEF x
<1>8. Line(Waiting, Held, Elements(outgoing_messages_), Handed, Delivered, missed, Unanswered, Accepted)
  BY DEF Flow
<1>9. Line(Waiting', Held, Elements(outgoing_messages_), Handed, Delivered, missed, Unanswered, Accepted')
  BY <1>5, <1>6, <1>8, Enters
<1>10. \A i \in 1..Len(incoming_messages_) : incoming_messages_[i].n < posted + 1
  <2> TAKE i \in 1..Len(incoming_messages_)
  <2>1. <<"answer", incoming_messages_[i].n>> \in Waiting
    BY <1>4 DEF Waiting, Elements
  <2>2. <<"answer", incoming_messages_[i].n>> \in Accepted
    BY <1>8, <2>1 DEF Line, Covered
  <2> QED BY <1>2, <2>2 DEF Accepted
<1>11. ASSUME NEW i \in DOMAIN incoming_messages_', NEW j \in DOMAIN incoming_messages_', i < j
       PROVE  incoming_messages_'[i].n < incoming_messages_'[j].n
  <2>1. i \in 1..Len(incoming_messages_)
    BY <1>4, <1>11
  <2>2. CASE j \in 1..Len(incoming_messages_)
    BY <1>4, <1>11, <2>1, <2>2 DEF Flow
  <2>3. CASE j = Len(incoming_messages_) + 1
    BY <1>2, <1>4, <1>10, <2>1, <2>3 DEF r
  <2> QED BY <1>4, <1>11, <2>2, <2>3
<1> QED BY <1>3, <1>7, <1>9, <1>11 DEF Flow, Rising

LEMMA ReadFlow ==
  ASSUME Typed, Flow, ReadRequest
  PROVE  Flow'
<1> DEFINE q == incoming_messages_
           x == <<"answer", Head(q).n>>
           W2 == {<<"note", y>> : y \in Elements(notification_queue_)}
                   \cup {<<"answer", r.n>> : r \in Elements(Tail(q))}
<1>1. /\ q \in Seq(Request) /\ q # <<>> /\ q' = Tail(q) /\ request = <<>> /\ request' = <<Head(q)>>
  BY DEF Typed, Queues, Hands, ReadRequest, Read
<1>2. UNCHANGED <<notification_queue_, note, outgoing_messages_, hand, sent, missed, silent, noted, posted>>
  BY DEF ReadRequest, Read, posts
<1>3. /\ Elements(q) = Elements(Tail(q)) \cup {Head(q)}
      /\ DOMAIN Tail(q) = 1..(Len(q) - 1) /\ DOMAIN q = 1..Len(q) /\ Len(q) \in Nat \ {0}
      /\ \A i \in 1..(Len(q) - 1) : Tail(q)[i] = q[i + 1]
      /\ Head(q) = q[1]
  BY <1>1, ElementsTail
<1>4. ASSUME NEW i \in DOMAIN Tail(q)  PROVE Head(q).n < Tail(q)[i].n
  <2>1. 1 \in DOMAIN q /\ i + 1 \in DOMAIN q /\ 1 < i + 1 /\ Tail(q)[i] = q[i + 1]
    BY <1>3
  <2>2. q[1].n < q[i + 1].n
    BY <2>1 DEF Flow
  <2> QED BY <1>3, <2>1, <2>2
<1>5. ASSUME NEW i \in DOMAIN Tail(q), NEW j \in DOMAIN Tail(q), i < j  PROVE Tail(q)[i].n < Tail(q)[j].n
  <2>1. /\ i + 1 \in DOMAIN q /\ j + 1 \in DOMAIN q /\ i + 1 < j + 1
        /\ Tail(q)[i] = q[i + 1] /\ Tail(q)[j] = q[j + 1]
    BY <1>3, <1>5
  <2>2. q[i + 1].n < q[j + 1].n
    BY <2>1 DEF Flow
  <2> QED BY <2>1, <2>2
<1>6. Waiting = W2 \cup {x} /\ Waiting' = W2
  BY <1>1, <1>2, <1>3 DEF Waiting
<1>7. Below({x}, W2)
  <2>1. \A r \in Elements(Tail(q)) : Head(q).n < r.n /\ r \in Request
    <3>1. \A i \in DOMAIN Tail(q) : Tail(q)[i] \in Request
      BY <1>1, <1>3
    <3> QED BY <1>4, <3>1 DEF Elements
  <2>2. Head(q).n \in Nat /\ \A r \in Elements(Tail(q)) : r.n \in Nat
    <3>1. \A r \in Request : r.n \in Nat
      BY TransportAssumption DEF Request, TransportAssumption
    <3>2. Head(q) \in Request
      BY <1>1, FirstOf
    <3> QED BY <2>1, <3>1, <3>2
  <2> HIDE DEF q
  <2>3. ASSUME NEW y \in W2  PROVE Before(x, y)
    <3>1. CASE y[1] = "note"
      BY <3>1 DEF Before
    <3>2. CASE y[1] # "note"
      <4>1. PICK r \in Elements(Tail(q)) : y = <<"answer", r.n>>
        BY <2>3, <3>2
      <4>2. Head(q).n < r.n /\ Head(q).n \in Nat /\ r.n \in Nat
        BY <2>1, <2>2
      <4> QED BY <4>1, <4>2 DEF Before
    <3> QED BY <3>1, <3>2
  <2> QED BY <2>3 DEF Below
<1>8. Held' = Held \cup {x} /\ \A y \in Held : y[1] # x[1]
  <2>1. Elements(request) = {} /\ Elements(request') = {Head(q)}
    BY <1>1, ElementsFew
  <2> QED BY <1>2, <2>1 DEF Held
<1>9. Handed' = Handed /\ Delivered' = Delivered /\ Unanswered' = Unanswered /\ Accepted' = Accepted
      /\ Elements(outgoing_messages_)' = Elements(outgoing_messages_)
  BY <1>2 DEF Handed, Delivered, Unanswered, Accepted, Elements
<1> HIDE DEF x, W2
<1>10. Line(Waiting, Held, Elements(outgoing_messages_), Handed, Delivered, missed, Unanswered, Accepted)
  BY DEF Flow
<1>11. Line(Waiting', Held', Elements(outgoing_messages_), Handed, Delivered, missed, Unanswered, Accepted)
  BY <1>6, <1>7, <1>8, <1>10, Taken
<1> QED BY <1>1, <1>2, <1>5, <1>9, <1>11 DEF Flow, Rising

LEMMA NoteFlow ==
  ASSUME Typed, Flow, SendNotification
  PROVE  Flow'
<1> DEFINE q == notification_queue_
           x == <<"note", noted + 1>>
<1>1. /\ q \in Seq(1..MaxNotes) /\ q' = Append(q, noted + 1) /\ noted \in Nat /\ noted' = noted + 1
      /\ noted + 1 \in 1..MaxNotes /\ posted \in Nat
  BY ServerAssumption, TransportAssumption
  DEF Typed, Queues, SendNotification, ServerAssumption, TransportAssumption
<1>2. UNCHANGED <<incoming_messages_, request, note, outgoing_messages_, hand, sent, missed, silent, posted>>
  BY DEF SendNotification, transportVars, flags, queues, posts, clients, traffic
<1>3. /\ Elements(q') = Elements(q) \cup {noted + 1}
      /\ DOMAIN q' = 1..(Len(q) + 1) /\ DOMAIN q = 1..Len(q) /\ Len(q) \in Nat
      /\ \A i \in 1..Len(q) : q'[i] = q[i]
      /\ q'[Len(q) + 1] = noted + 1
  <2> DEFINE e == noted + 1
             S == 1..MaxNotes
  <2>1. q \in Seq(S) /\ e \in S /\ q' = Append(q, e)
    BY <1>1
  <2> HIDE DEF q, e, S
  <2>2. /\ Elements(Append(q, e)) = Elements(q) \cup {e}
        /\ DOMAIN Append(q, e) = 1..(Len(q) + 1) /\ DOMAIN q = 1..Len(q) /\ Len(q) \in Nat
        /\ \A i \in 1..Len(q) : Append(q, e)[i] = q[i]
        /\ Append(q, e)[Len(q) + 1] = e
    BY <2>1, ElementsAppend
  <2> QED BY <2>1, <2>2 DEF e
<1>4. Waiting' = Waiting \cup {x}
  BY <1>2, <1>3 DEF Waiting
<1>5. Accepted' = Accepted \cup {x} /\ Below(Accepted, {x})
  <2>1. \A y \in Accepted : \/ y[1] = "answer"
                            \/ y[1] = "note" /\ y[2] \in 1..noted
    BY DEF Accepted
  <2>2. Below(Accepted, {x})
    BY <1>1, <2>1 DEF Below, Before
  <2>3. 1..(noted + 1) = (1..noted) \cup {noted + 1}
    BY <1>1
  <2> QED BY <1>1, <1>2, <2>2, <2>3 DEF Accepted
<1>6. Held' = Held /\ Handed' = Handed /\ Delivered' = Delivered /\ Unanswered' = Unanswered
      /\ Elements(outgoing_messages_)' = Elements(outgoing_messages_)
  BY <1>2 DEF Held, Handed, Delivered, Unanswered, Elements
<1> HIDE DEF x
<1>7. Line(Waiting, Held, Elements(outgoing_messages_), Handed, Delivered, missed, Unanswered, Accepted)
  BY DEF Flow
<1>8. Line(Waiting', Held, Elements(outgoing_messages_), Handed, Delivered, missed, Unanswered, Accepted')
  BY <1>4, <1>5, <1>7, Enters
<1>9. \A i \in 1..Len(q) : q[i] < noted + 1
  <2> TAKE i \in 1..Len(q)
  <2>1. <<"note", q[i]>> \in Waiting
    BY <1>3 DEF Waiting, Elements
  <2>2. <<"note", q[i]>> \in Accepted
    BY <1>7, <2>1 DEF Line, Covered
  <2> QED BY <1>1, <2>2 DEF Accepted
<1>10. ASSUME NEW i \in DOMAIN q', NEW j \in DOMAIN q', i < j  PROVE q'[i] < q'[j]
  <2>1. i \in 1..Len(q)
    BY <1>3, <1>10
  <2>2. CASE j \in 1..Len(q)
    BY <1>3, <1>10, <2>1, <2>2 DEF Flow
  <2>3. CASE j = Len(q) + 1
    BY <1>3, <1>9, <2>1, <2>3
  <2> QED BY <1>3, <1>10, <2>2, <2>3
<1> QED BY <1>2, <1>6, <1>8, <1>10 DEF Flow, Rising

LEMMA WriterTakesFlow ==
  ASSUME Typed, Flow, WriterLock, notification_queue_ # <<>>
  PROVE  Flow'
<1> DEFINE q == notification_queue_
           x == <<"note", Head(q)>>
           W2 == {<<"note", y>> : y \in Elements(Tail(q))}
                   \cup {<<"answer", r.n>> : r \in Elements(incoming_messages_)}
<1>1. /\ q \in Seq(1..MaxNotes) /\ q # <<>> /\ q' = Tail(q) /\ note = <<>> /\ note' = <<Head(q)>>
  BY DEF Typed, Queues, Hands, WriterLock
<1>2. UNCHANGED <<incoming_messages_, request, outgoing_messages_, hand, sent, missed, silent, noted, posted>>
  BY DEF WriterLock, writerOnly, transportVars, flags, queues, posts, clients, traffic
<1>3. /\ Elements(q) = Elements(Tail(q)) \cup {Head(q)}
      /\ DOMAIN Tail(q) = 1..(Len(q) - 1) /\ DOMAIN q = 1..Len(q) /\ Len(q) \in Nat \ {0}
      /\ \A i \in 1..(Len(q) - 1) : Tail(q)[i] = q[i + 1]
      /\ Head(q) = q[1]
  <2> HIDE DEF q
  <2>1. Head(q) = q[1]
    BY <1>1
  <2> QED BY <1>1, <2>1, ElementsTail
<1>4. ASSUME NEW i \in DOMAIN Tail(q)  PROVE Head(q) < Tail(q)[i]
  <2>1. 1 \in DOMAIN q /\ i + 1 \in DOMAIN q /\ 1 < i + 1 /\ Tail(q)[i] = q[i + 1]
    BY <1>3
  <2>2. q[1] < q[i + 1]
    BY <2>1 DEF Flow
  <2> QED BY <1>3, <2>1, <2>2
<1>5. ASSUME NEW i \in DOMAIN Tail(q), NEW j \in DOMAIN Tail(q), i < j  PROVE Tail(q)[i] < Tail(q)[j]
  <2>1. /\ i + 1 \in DOMAIN q /\ j + 1 \in DOMAIN q /\ i + 1 < j + 1
        /\ Tail(q)[i] = q[i + 1] /\ Tail(q)[j] = q[j + 1]
    BY <1>3, <1>5
  <2>2. q[i + 1] < q[j + 1]
    BY <2>1 DEF Flow
  <2> QED BY <2>1, <2>2
<1>6. Waiting = W2 \cup {x} /\ Waiting' = W2
  BY <1>1, <1>2, <1>3 DEF Waiting
<1>7. Below({x}, W2)
  <2>1. \A y \in Elements(Tail(q)) : Head(q) < y
    BY <1>4 DEF Elements
  <2>2. \A y \in Elements(q) : y \in Nat
    BY <1>1, <1>3, ServerAssumption DEF Elements, ServerAssumption
  <2>3. Head(q) \in Nat /\ \A y \in Elements(Tail(q)) : y \in Nat
    BY <1>3, <2>2
  <2> HIDE DEF q
  <2>4. ASSUME NEW y \in W2  PROVE Before(x, y)
    <3>1. CASE y[1] = "answer"
      BY <3>1 DEF Before
    <3>2. CASE y[1] # "answer"
      <4>1. PICK z \in Elements(Tail(q)) : y = <<"note", z>>
        BY <2>4, <3>2
      <4>2. Head(q) < z /\ Head(q) \in Nat /\ z \in Nat
        BY <2>1, <2>3
      <4> QED BY <4>1, <4>2 DEF Before
    <3> QED BY <3>1, <3>2
  <2> QED BY <2>4 DEF Below
<1>8. Held' = Held \cup {x} /\ \A y \in Held : y[1] # x[1]
  <2>1. Elements(note) = {} /\ Elements(note') = {Head(q)}
    BY <1>1, ElementsFew
  <2> QED BY <1>2, <2>1 DEF Held
<1>9. Handed' = Handed /\ Delivered' = Delivered /\ Unanswered' = Unanswered /\ Accepted' = Accepted
      /\ Elements(outgoing_messages_)' = Elements(outgoing_messages_)
  BY <1>2 DEF Handed, Delivered, Unanswered, Accepted, Elements
<1> HIDE DEF x, W2
<1>10. Line(Waiting, Held, Elements(outgoing_messages_), Handed, Delivered, missed, Unanswered, Accepted)
  BY DEF Flow
<1>11. Line(Waiting', Held', Elements(outgoing_messages_), Handed, Delivered, missed, Unanswered, Accepted)
  BY <1>6, <1>7, <1>8, <1>10, Taken
<1> QED BY <1>1, <1>2, <1>5, <1>9, <1>11 DEF Flow, Rising

\* What the main thread and the writer hold, and what is left when one of them
\* has passed it on.
LEMMA HeldShape ==
  ASSUME Typed
  PROVE  /\ request # <<>> => /\ Answer \in Held
                              /\ (request' = <<>> /\ note' = note => Held' = Held \ {Answer})
         /\ note # <<>> => /\ Note \in Held
                           /\ (note' = <<>> /\ request' = request => Held' = Held \ {Note})
<1>1. request \in Seq(Request) /\ Len(request) <= 1 /\ note \in Seq(1..MaxNotes) /\ Len(note) <= 1
  BY DEF Typed, Queues
<1>2. ASSUME request # <<>>
      PROVE  /\ Answer \in Held
             /\ (request' = <<>> /\ note' = note => Held' = Held \ {Answer})
  <2>1. Elements(request) = {Head(request)} /\ (request' = <<>> => Elements(request') = {})
    BY <1>1, <1>2, ElementsFew
  <2> QED BY <2>1 DEF Held, Answer
<1>3. ASSUME note # <<>>
      PROVE  /\ Note \in Held
             /\ (note' = <<>> /\ request' = request => Held' = Held \ {Note})
  <2>1. Elements(note) = {Head(note)} /\ (note' = <<>> => Elements(note') = {})
    BY <1>1, <1>3, ElementsFew
  <2> QED BY <2>1 DEF Held, Note
<1> QED BY <1>2, <1>3

LEMMA MissedFlow ==
  ASSUME Flow, NEW x \in Held, Held' = Held \ {x}, missed' = missed \cup {x},
         UNCHANGED <<notification_queue_, incoming_messages_, outgoing_messages_, hand, sent, silent,
                     noted, posted>>
  PROVE  Flow'
<1>1. /\ Waiting' = Waiting /\ Handed' = Handed /\ Delivered' = Delivered
      /\ Unanswered' = Unanswered /\ Accepted' = Accepted
      /\ Elements(outgoing_messages_)' = Elements(outgoing_messages_)
  BY DEF Waiting, Handed, Delivered, Unanswered, Accepted, Elements
<1>2. Line(Waiting, Held, Elements(outgoing_messages_), Handed, Delivered, missed, Unanswered, Accepted)
  BY DEF Flow
<1>3. Line(Waiting, Held', Elements(outgoing_messages_), Handed, Delivered, missed', Unanswered, Accepted)
  BY <1>2, Missed
<1> QED BY <1>1, <1>3 DEF Flow, Rising

LEMMA SilentFlow ==
  ASSUME Flow, NEW n, <<"answer", n>> \in Held, Held' = Held \ {<<"answer", n>>},
         silent' = silent \cup {n},
         UNCHANGED <<notification_queue_, incoming_messages_, outgoing_messages_, hand, sent, missed,
                     noted, posted>>
  PROVE  Flow'
<1> DEFINE x == <<"answer", n>>
<1>1. /\ Waiting' = Waiting /\ Handed' = Handed /\ Delivered' = Delivered /\ Accepted' = Accepted
      /\ Elements(outgoing_messages_)' = Elements(outgoing_messages_)
  BY DEF Waiting, Handed, Delivered, Accepted, Elements
<1>2. Unanswered' = Unanswered \cup {x}
  BY DEF Unanswered
<1>3. x \in Held /\ Held' = Held \ {x}
  OBVIOUS
<1> HIDE DEF x
<1>4. Line(Waiting, Held, Elements(outgoing_messages_), Handed, Delivered, missed, Unanswered, Accepted)
  BY DEF Flow
<1>5. Line(Waiting, Held', Elements(outgoing_messages_), Handed, Delivered, missed, Unanswered', Accepted)
  BY <1>2, <1>3, <1>4, Silenced
<1> QED BY <1>1, <1>5 DEF Flow, Rising

LEMMA PassedFlow ==
  ASSUME Typed, Flow, NEW x \in Held, x \in Message, Held' = Held \ {x},
         outgoing_messages_' = Append(outgoing_messages_, x),
         UNCHANGED <<notification_queue_, incoming_messages_, hand, sent, missed, silent, noted, posted>>
  PROVE  Flow'
<1>1. /\ Waiting' = Waiting /\ Handed' = Handed /\ Delivered' = Delivered
      /\ Unanswered' = Unanswered /\ Accepted' = Accepted
  BY DEF Waiting, Handed, Delivered, Unanswered, Accepted, Elements
<1>2. outgoing_messages_ \in Seq(Message)
  BY DEF Typed, Queues
<1>3. Line(Waiting, Held, Elements(outgoing_messages_), Handed, Delivered, missed, Unanswered, Accepted)
  BY DEF Flow
<1>4. Elements(outgoing_messages_') = Elements(outgoing_messages_) \cup {x}
  BY <1>2, ElementsAppend
<1>5. Line(Waiting, Held', Elements(outgoing_messages_'), Handed, Delivered, missed, Unanswered, Accepted)
  BY <1>3, <1>4, Passed
<1>6. Below(Elements(outgoing_messages_), {x})
  BY <1>3 DEF Line, InLine, Below
<1>7. Rising(outgoing_messages_')
  BY <1>2, <1>6, RisingAppend DEF Flow
<1> QED BY <1>1, <1>5, <1>7 DEF Flow, Rising

LEMMA TakeFlow ==
  ASSUME Typed, Flow, Transport, NEW s \in Streams, TakeOutgoing(s)
  PROVE  Flow'
<1> DEFINE q == outgoing_messages_
           x == Head(q)
<1>1. /\ q \in Seq(Message) /\ q # <<>> /\ q' = Tail(q) /\ hand[s] = <<>>
      /\ hand' = [hand EXCEPT ![s] = <<x>>] /\ hand \in [Streams -> Seq(Message)]
  BY DEF Typed, Queues, Hands, TakeOutgoing
<1>2. UNCHANGED <<notification_queue_, incoming_messages_, request, note, sent, missed, silent, noted, posted>>
  BY DEF Transport, TakeOutgoing, serverVars, posts
<1>3. /\ Waiting' = Waiting /\ Held' = Held /\ Delivered' = Delivered
      /\ Unanswered' = Unanswered /\ Accepted' = Accepted
  BY <1>2 DEF Waiting, Held, Delivered, Unanswered, Accepted, Elements
<1>4. Elements(q) = Elements(Tail(q)) \cup {x}
  <2> HIDE DEF q
  <2> QED BY <1>1, ElementsTail
<1>5. Rising(Tail(q)) /\ Below({x}, Elements(Tail(q)))
  <2>1. Rising(q)
    BY DEF Flow
  <2> HIDE DEF q
  <2> QED BY <1>1, <2>1, RisingTail
<1> HIDE DEF x
<1>6. Handed[s] = {} /\ Handed'[s] = {x} /\ OthersKeep(Handed, Handed', s)
  <2>1. hand'[s] = <<x>> /\ \A t \in Streams : t # s => hand'[t] = hand[t]
    BY <1>1
  <2>2. Elements(<<>>) = {} /\ Elements(<<x>>) = {x}
    BY ElementsFew
  <2> QED BY <1>1, <2>1, <2>2 DEF Handed, OthersKeep
<1>7. Line(Waiting, Held, Elements(q), Handed, Delivered, missed, Unanswered, Accepted)
  BY DEF Flow
<1>8. Line(Waiting, Held, Elements(Tail(q)), Handed', Delivered, missed, Unanswered, Accepted)
  <2> HIDE DEF q
  <2> QED BY <1>4, <1>5, <1>6, <1>7, Popped
<1> QED BY <1>1, <1>2, <1>3, <1>5, <1>8 DEF Flow, Rising

LEMMA WriteFlow ==
  ASSUME Typed, Flow, Transport, NEW s \in Streams, WriteEvent(s)
  PROVE  Flow'
<1> DEFINE x == Head(hand[s])
<1>1. /\ hand[s] # <<>> /\ Len(hand[s]) <= 1 /\ hand \in [Streams -> Seq(Message)]
      /\ hand' = [hand EXCEPT ![s] = <<>>] /\ x \in Message
      /\ sent \in [Streams -> Seq(Message)]
  BY HeldItems DEF Typed, Queues, Hands, WriteEvent
<1>2. UNCHANGED <<notification_queue_, incoming_messages_, request, note, outgoing_messages_, silent,
                  noted, posted>>
  BY DEF Transport, WriteEvent, serverVars, flags, queues, posts, clients, traffic
<1>3. /\ Waiting' = Waiting /\ Held' = Held /\ Unanswered' = Unanswered /\ Accepted' = Accepted
      /\ Elements(outgoing_messages_)' = Elements(outgoing_messages_)
  BY <1>2 DEF Waiting, Held, Unanswered, Accepted, Elements
<1>4. Handed[s] = {x} /\ Handed'[s] = {} /\ OthersKeep(Handed, Handed', s)
  <2>1. hand'[s] = <<>> /\ \A t \in Streams : t # s => hand'[t] = hand[t]
    BY <1>1
  <2>2. Elements(<<>>) = {} /\ Elements(hand[s]) = {x}
    BY <1>1, ElementsFew
  <2> QED BY <2>1, <2>2 DEF Handed, OthersKeep
<1>5. Line(Waiting, Held, Elements(outgoing_messages_), Handed, Delivered, missed, Unanswered, Accepted)
  BY DEF Flow
<1>6. CASE s \in gone
  <2>1. missed' = missed \cup {x} /\ sent' = sent
    BY <1>6 DEF WriteEvent
  <2>2. Delivered' = Delivered
    BY <2>1 DEF Delivered
  <2> HIDE DEF x
  <2>3. Line(Waiting, Held, Elements(outgoing_messages_), Handed', Delivered, missed', Unanswered, Accepted)
    BY <1>4, <1>5, <2>1, Lost
  <2> QED BY <1>2, <1>3, <2>1, <2>2, <2>3 DEF Flow, Rising
<1>7. CASE s \notin gone
  <2>1. missed' = missed /\ sent' = [sent EXCEPT ![s] = Append(sent[s], x)]
    BY <1>7 DEF WriteEvent
  <2> HIDE DEF x
  <2>2. sent'[s] = Append(sent[s], x) /\ sent[s] \in Seq(Message)
        /\ \A t \in Streams : t # s => sent'[t] = sent[t]
    BY <1>1, <2>1
  <2>3. Delivered'[s] = Delivered[s] \cup {x} /\ OthersKeep(Delivered, Delivered', s)
    <3>1. Elements(Append(sent[s], x)) = Elements(sent[s]) \cup {x}
      BY <1>1, <2>2, ElementsAppend
    <3> QED BY <2>2, <3>1 DEF Delivered, OthersKeep
  <2>4. Line(Waiting, Held, Elements(outgoing_messages_), Handed', Delivered', missed, Unanswered, Accepted)
    BY <1>4, <1>5, <2>3, Reached
  <2>5. Below(Elements(sent[s]), {x})
    <3>1. Below(Delivered[s], Handed[s]) /\ Delivered[s] = Elements(sent[s])
      BY <1>5 DEF Line, InLine, Delivered
    <3> QED BY <1>4, <3>1
  <2>6. Rising(sent'[s])
    <3>1. Rising(sent[s])
      BY DEF Flow
    <3> QED BY <1>1, <2>2, <2>5, <3>1, RisingAppend
  <2>7. \A t \in Streams : Rising(sent'[t])
    BY <2>2, <2>6 DEF Flow
  <2> QED BY <1>2, <1>3, <2>1, <2>4, <2>7 DEF Flow, Rising
<1> QED BY <1>6, <1>7

LEMMA FlowStep ==
  ASSUME Typed, Flow, [Next]_vars
  PROVE  Flow'
<1>1. CASE UNCHANGED lineVars
  BY <1>1, FlowSame
<1>2. CASE Connect
  <2>1. CASE StartTransport \/ StartReturns \/ ReadNothing
    <3>1. UNCHANGED lineVars
      BY <2>1 DEF StartTransport, StartReturns, ReadNothing, Start, transportVars, traffic, queues,
         posts, lineVars
    <3> QED BY <1>1, <3>1
  <2>2. CASE HandleRequest
    <3>1. main = "parsing" /\ request # <<>>
      BY <2>2 DEF HandleRequest, Typed, Hands
    <3>2. /\ UNCHANGED <<notification_queue_, incoming_messages_, note, outgoing_messages_, hand, sent,
                         missed, noted, posted>>
          /\ \/ UNCHANGED <<request, silent>>
             \/ request' = <<>> /\ silent' = silent \cup {Head(request).n}
      BY <2>2 DEF HandleRequest, Forget, transportVars, flags, queues, posts, clients, traffic
    <3>3. CASE UNCHANGED <<request, silent>>
      BY <1>1, <3>2, <3>3 DEF lineVars
    <3>4. CASE request' = <<>> /\ silent' = silent \cup {Head(request).n}
      BY <3>1, <3>2, <3>4, HeldShape, SilentFlow DEF Answer
    <3> QED BY <3>2, <3>3, <3>4
  <2>3. CASE NotifyWriter \/ LockOutput
    BY <1>1, <2>3 DEF NotifyWriter, LockOutput, lineVars, transportVars, flags, queues, posts, clients, traffic
  <2>4. CASE WriteResponse
    <3>1. main = "writing" /\ request # <<>>
      BY <2>4 DEF WriteResponse, Typed, Hands
    <3>2. CASE client_connected_
      BY <1>1, <2>4, <3>2 DEF WriteResponse, lineVars, transportVars, flags, queues, posts, clients, traffic
    <3>3. CASE ~client_connected_
      <4>1. /\ request' = <<>> /\ missed' = missed \cup {Answer}
            /\ UNCHANGED <<notification_queue_, incoming_messages_, note, outgoing_messages_, hand, sent,
                           silent, noted, posted>>
        BY <2>4, <3>3 DEF WriteResponse, Drop, flags, queues, posts, clients, traffic
      <4>2. Answer \in Held /\ Held' = Held \ {Answer}
        BY <3>1, <4>1, HeldShape
      <4> QED BY <4>1, <4>2, MissedFlow
    <3> QED BY <3>2, <3>3
  <2>5. CASE PushResponse
    <3>1. main = "pushing" /\ request # <<>> /\ Answer \in Message
      BY <2>5, HeldItems DEF PushResponse, Typed, Hands
    <3>2. /\ request' = <<>> /\ outgoing_messages_' = Append(outgoing_messages_, Answer)
          /\ UNCHANGED <<notification_queue_, incoming_messages_, note, hand, sent, missed, silent,
                         noted, posted>>
      BY <2>5 DEF PushResponse, Write, flags, posts
    <3>3. Answer \in Held /\ Held' = Held \ {Answer}
      BY <3>1, <3>2, HeldShape
    <3> QED BY <3>1, <3>2, <3>3, PassedFlow
  <2> QED BY <1>2, <2>1, <2>2, <2>3, <2>4, <2>5, ReadFlow, NoteFlow DEF Connect
<1>3. CASE WriterLoop
  <2>1. CASE WriterTest \/ WriterPark
    BY <1>1, <2>1 DEF WriterTest, WriterPark, lineVars, writerOnly, transportVars, flags, queues, posts, clients, traffic
  <2>2. CASE WriterLock
    <3>1. CASE notification_queue_ # <<>>
      BY <2>2, <3>1, WriterTakesFlow
    <3>2. CASE notification_queue_ = <<>>
      BY <1>1, <2>2, <3>2 DEF WriterLock, lineVars, writerOnly, transportVars, flags, queues, posts, clients, traffic
    <3> QED BY <3>1, <3>2
  <2>3. CASE WriterCheck \/ WriterRelock \/ WriterWrite
    <3>1. note # <<>>
      BY <2>3 DEF WriterCheck, WriterRelock, WriterWrite, Typed, Hands
    <3>2. /\ UNCHANGED <<notification_queue_, incoming_messages_, request, outgoing_messages_, hand, sent,
                         silent, noted, posted>>
          /\ \/ UNCHANGED <<note, missed>>
             \/ note' = <<>> /\ missed' = missed \cup {Note}
      BY <2>3 DEF WriterCheck, WriterRelock, WriterWrite, WriterDrops, Drop, writerOnly, transportVars,
         flags, queues, posts, clients, traffic
    <3>3. CASE UNCHANGED <<note, missed>>
      BY <1>1, <3>2, <3>3 DEF lineVars
    <3>4. CASE note' = <<>> /\ missed' = missed \cup {Note}
      <4>1. Note \in Held /\ Held' = Held \ {Note}
        BY <3>1, <3>2, <3>4, HeldShape
      <4> QED BY <3>2, <3>4, <4>1, MissedFlow
    <3> QED BY <3>2, <3>3, <3>4
  <2>4. CASE WriterPush
    <3>1. note # <<>> /\ Note \in Message
      BY <2>4, HeldItems DEF WriterPush, Typed, Hands
    <3>2. /\ note' = <<>> /\ outgoing_messages_' = Append(outgoing_messages_, Note)
          /\ UNCHANGED <<notification_queue_, incoming_messages_, request, hand, sent, missed, silent,
                         noted, posted>>
      BY <2>4 DEF WriterPush, Write, writerOnly, flags, posts
    <3>3. Note \in Held /\ Held' = Held \ {Note}
      BY <3>1, <3>2, HeldShape
    <3> QED BY <3>1, <3>2, <3>3, PassedFlow
  <2> QED BY <1>3, <2>1, <2>2, <2>3, <2>4 DEF WriterLoop
<1>4. CASE StopServer \/ stop_handler \/ SpuriousWakeup
  <2>1. UNCHANGED lineVars
    BY <1>4 DEF StopServer, stop_handler, StopTransport, StopFlags, StopRunning, StopConnected, StopActive, CloseSocket, JoinStreams, ResetTransport, StopWriter,
       WakeWriter, JoinWriter, SpuriousWakeup, writerOnly, stopOnly, transportVars, flags, queues, posts, clients, traffic, lineVars
  <2> QED BY <1>1, <2>1
<1>5. CASE Transport
  <2>1. CASE PushRequest
    BY <1>5, <2>1, PostFlow
  <2>5. CASE HandlePostMessage \/ Binds \/ ListenFails
    <3>1. UNCHANGED lineVars
      BY <1>5, <2>5 DEF Transport, HandlePostMessage, Binds, ListenFails, serverVars, flags, queues,
         posts, clients, traffic, lineVars
    <3> QED BY <1>1, <3>1
  <2>2. ASSUME NEW s \in Streams, TakeOutgoing(s)  PROVE Flow'
    BY <1>5, <2>2, TakeFlow
  <2>3. ASSUME NEW s \in Streams, WriteEvent(s)  PROVE Flow'
    BY <1>5, <2>3, WriteFlow
  <2>4. ASSUME NEW s \in Streams,
               HandleSSEConnection(s) \/ ClientLeaves(s) \/ Activate(s) \/ GiveUp(s) \/ Terminate(s)
               \/ LibraryCloses(s)
        PROVE  Flow'
    <3>1. UNCHANGED lineVars
      BY <1>5, <2>4 DEF Transport, HandleSSEConnection, ClientLeaves, Activate, GiveUp, Terminate,
         LibraryCloses, serverVars, flags, queues, posts, clients, traffic, lineVars
    <3> QED BY <1>1, <3>1
  <2> QED BY <1>5, <2>1, <2>2, <2>3, <2>4, <2>5 DEF Transport, Provide, Client
<1>6. CASE UNCHANGED vars
  BY <1>1, <1>6 DEF vars, transportVars, flags, queues, posts, clients, traffic, serverVars, lineVars
<1> QED BY <1>2, <1>3, <1>4, <1>5, <1>6 DEF Next

LEMMA InitFlow == Init => Flow
<1> SUFFICES ASSUME Init PROVE Flow
  OBVIOUS
<1>1. /\ notification_queue_ = <<>> /\ incoming_messages_ = <<>> /\ request = <<>> /\ note = <<>>
      /\ outgoing_messages_ = <<>> /\ hand = [s \in Streams |-> <<>>] /\ sent = [s \in Streams |-> <<>>]
      /\ missed = {} /\ silent = {} /\ noted = 0 /\ posted = 0
  BY DEF Init, TransportInit
<1>2. Elements(<<>>) = {}
  BY ElementsFew
<1>3. /\ Waiting = {} /\ Held = {} /\ Elements(outgoing_messages_) = {} /\ Unanswered = {} /\ Accepted = {}
      /\ \A s \in Streams : Handed[s] = {} /\ Delivered[s] = {}
  BY <1>1, <1>2 DEF Waiting, Held, Handed, Delivered, Unanswered, Accepted
<1>4. Line(Waiting, Held, Elements(outgoing_messages_), Handed, Delivered, missed, Unanswered, Accepted)
  BY <1>1, <1>3 DEF Line, InLine, Apart, Covered, Below
<1>5. Rising(<<>>)
  BY DEF Rising
<1> QED BY <1>1, <1>4, <1>5 DEF Flow

FlowInv == Typed /\ Flow

LEMMA FlowHolds == Spec => []FlowInv
<1>1. Init => FlowInv
  BY InitTyped, InitFlow DEF FlowInv
<1>2. FlowInv /\ [Next]_vars => FlowInv'
  BY TypedStep, FlowStep DEF FlowInv
<1> QED BY <1>1, <1>2, PTL DEF Spec

\* Each client gets the answers in the order of the requests and the
\* notifications in the order in which they were sent, for any number of
\* streams that share one queue.
THEOREM SentInOrderHolds == Spec => []SentInOrder
<1>1. FlowInv => SentInOrder
  BY DEF FlowInv, Flow, Rising, Before, SentInOrder
<1> QED BY <1>1, FlowHolds, PTL

-----------------------------------------------------------------------------
(* Where each message is                                                   *)

\* The message m is in one of the places of the line, and in no other.
InOne(W, H, O, P, D, M, N, m) ==
  \/ /\ m \in W /\ m \notin H /\ m \notin O /\ m \notin M /\ m \notin N
     /\ \A s \in Streams : m \notin P[s] /\ m \notin D[s]
  \/ /\ m \in H /\ m \notin W /\ m \notin O /\ m \notin M /\ m \notin N
     /\ \A s \in Streams : m \notin P[s] /\ m \notin D[s]
  \/ /\ m \in O /\ m \notin W /\ m \notin H /\ m \notin M /\ m \notin N
     /\ \A s \in Streams : m \notin P[s] /\ m \notin D[s]
  \/ /\ m \in M /\ m \notin W /\ m \notin H /\ m \notin O /\ m \notin N
     /\ \A s \in Streams : m \notin P[s] /\ m \notin D[s]
  \/ /\ m \in N /\ m \notin W /\ m \notin H /\ m \notin O /\ m \notin M
     /\ \A s \in Streams : m \notin P[s] /\ m \notin D[s]
  \/ /\ m \notin W /\ m \notin H /\ m \notin O /\ m \notin M /\ m \notin N
     /\ \E s \in Streams :
          /\ m \in P[s] /\ m \notin D[s]
          /\ \A t \in Streams : t # s => m \notin P[t] /\ m \notin D[t]
  \/ /\ m \notin W /\ m \notin H /\ m \notin O /\ m \notin M /\ m \notin N
     /\ \E s \in Streams :
          /\ m \in D[s] /\ m \notin P[s]
          /\ \A t \in Streams : t # s => m \notin P[t] /\ m \notin D[t]

LEMMA OnePlace ==
  ASSUME NEW W, NEW H, NEW O, NEW P, NEW D, NEW M, NEW N, NEW A, NEW m \in A,
         Line(W, H, O, P, D, M, N, A)
  PROVE  InOne(W, H, O, P, D, M, N, m)
<1>1. /\ ~(m \in H /\ m \in W) /\ ~(m \in O /\ m \in W) /\ ~(m \in O /\ m \in H)
      /\ ~(m \in M /\ m \in N)
      /\ m \in M \/ m \in N => m \notin W /\ m \notin H /\ m \notin O
      /\ \A s \in Streams : m \in P[s] \/ m \in D[s] =>
           /\ m \notin W /\ m \notin H /\ m \notin O /\ m \notin M /\ m \notin N
           /\ ~(m \in P[s] /\ m \in D[s])
           /\ \A t \in Streams : t # s => m \notin P[t] /\ m \notin D[t]
  BY DEF Line, InLine, Apart, Below, Before
<1>2. \/ m \in W \/ m \in H \/ m \in O \/ m \in M \/ m \in N
      \/ \E s \in Streams : m \in P[s] \/ m \in D[s]
  BY DEF Line, Covered
<1>3. CASE \E s \in Streams : m \in P[s] \/ m \in D[s]
  <2>1. PICK s \in Streams : m \in P[s] \/ m \in D[s]
    BY <1>3
  <2> QED BY <1>1, <2>1 DEF InOne
<1>4. CASE ~(\E s \in Streams : m \in P[s] \/ m \in D[s])
  BY <1>1, <1>2, <1>4 DEF InOne
<1> QED BY <1>3, <1>4

Spots(q, m) == {i \in DOMAIN q : q[i] = m}

\* A message is at one index of a queue in order, or at none.
LEMMA SpotsOf ==
  ASSUME NEW q \in Seq(Message), Rising(q), NEW m
  PROVE  /\ m \notin Elements(q) => Spots(q, m) = {}
         /\ m \in Elements(q) => \E i : Spots(q, m) = {i}
<1>1. m \notin Elements(q) => Spots(q, m) = {}
  BY DEF Elements, Spots
<1>2. ASSUME m \in Elements(q)  PROVE \E i : Spots(q, m) = {i}
  <2>1. PICK i \in DOMAIN q : q[i] = m
    BY <1>2 DEF Elements
  <2>2. ASSUME NEW j \in DOMAIN q, q[j] = m  PROVE j = i
    <3>1. i \in Nat /\ j \in Nat
      OBVIOUS
    <3>2. ~(i < j) /\ ~(j < i)
      BY <2>1, <2>2 DEF Rising, Before
    <3> QED BY <3>1, <3>2
  <2>3. Spots(q, m) = {i}
    BY <2>1, <2>2 DEF Spots
  <2> QED BY <2>3
<1> QED BY <1>1, <1>2

AtQueue(m) == {<<"queue", i>> : i \in {j \in DOMAIN notification_queue_ : <<"note", notification_queue_[j]>> = m}}
AtWriter(m) == {<<"writer", i>> : i \in {j \in DOMAIN note : <<"note", note[j]>> = m}}
AtOutgoing(m) == {<<"outgoing", i>> : i \in {j \in DOMAIN outgoing_messages_ : outgoing_messages_[j] = m}}
AtMissed(m) == {<<"missed", x>> : x \in missed \cap {m}}
AtHand(m) == UNION {{<<"hand", s, i>> : i \in {j \in DOMAIN hand[s] : hand[s][j] = m}} : s \in Streams}
AtSent(m) == UNION {{<<"sent", s, i>> : i \in {j \in DOMAIN sent[s] : sent[s][j] = m}} : s \in Streams}
AtIncoming(n) == {<<"incoming", i>> : i \in {j \in DOMAIN incoming_messages_ : incoming_messages_[j].n = n}}
AtRequest(n) == {<<"request", i>> : i \in {j \in DOMAIN request : request[j].n = n}}
AtSilent(n) == {<<"silent", x>> : x \in silent \cap {n}}

None(S) == S = {}
One(S)  == \E p : S = {p}

LEMMA PlacesOf ==
  /\ \A m : Places(m) = AtQueue(m) \cup AtWriter(m) \cup AtOutgoing(m) \cup AtMissed(m)
                          \cup AtHand(m) \cup AtSent(m)
  /\ \A n : Pending(n) = AtIncoming(n) \cup AtRequest(n) \cup AtSilent(n)
<1>1. ASSUME NEW m
      PROVE  Places(m) = AtQueue(m) \cup AtWriter(m) \cup AtOutgoing(m) \cup AtMissed(m)
                           \cup AtHand(m) \cup AtSent(m)
  BY DEF Places, AtQueue, AtWriter, AtOutgoing, AtMissed, AtHand, AtSent
<1>2. ASSUME NEW n  PROVE Pending(n) = AtIncoming(n) \cup AtRequest(n) \cup AtSilent(n)
  BY Zenon DEF Pending, AtIncoming, AtRequest, AtSilent
<1> QED BY <1>1, <1>2

LEMMA OutgoingPlace ==
  ASSUME FlowInv, NEW m
  PROVE  /\ m \notin Elements(outgoing_messages_) => None(AtOutgoing(m))
         /\ m \in Elements(outgoing_messages_) => One(AtOutgoing(m))
         /\ m \notin missed => None(AtMissed(m))
         /\ m \in missed => One(AtMissed(m))
<1>1. outgoing_messages_ \in Seq(Message) /\ Rising(outgoing_messages_)
  BY DEF FlowInv, Typed, Queues, Flow
<1>2. AtOutgoing(m) = {<<"outgoing", i>> : i \in Spots(outgoing_messages_, m)}
  BY DEF AtOutgoing, Spots
<1>3. m \notin Elements(outgoing_messages_) => None(AtOutgoing(m))
  BY <1>1, <1>2, SpotsOf DEF None
<1>4. ASSUME m \in Elements(outgoing_messages_)  PROVE One(AtOutgoing(m))
  <2>1. PICK i : Spots(outgoing_messages_, m) = {i}
    BY <1>1, <1>4, SpotsOf
  <2>2. AtOutgoing(m) = {<<"outgoing", i>>}
    BY <1>2, <2>1
  <2> QED BY <2>2 DEF One
<1>5. m \notin missed => None(AtMissed(m))
  BY DEF AtMissed, None
<1>6. ASSUME m \in missed  PROVE One(AtMissed(m))
  <2>1. AtMissed(m) = {<<"missed", m>>}
    BY <1>6 DEF AtMissed
  <2> QED BY <2>1 DEF One
<1> QED BY <1>3, <1>4, <1>5, <1>6

LEMMA HandPlace ==
  ASSUME FlowInv, NEW m
  PROVE  /\ (\A s \in Streams : m \notin Handed[s]) => None(AtHand(m))
         /\ \A s \in Streams : m \in Handed[s] /\ (\A t \in Streams : t # s => m \notin Handed[t])
              => One(AtHand(m))
<1>1. /\ \A s \in Streams : hand[s] \in Seq(Message) /\ Handed[s] = Elements(hand[s]) /\ Len(hand[s]) <= 1
  BY DEF FlowInv, Typed, Queues, Handed
<1>2. \A s \in Streams : Rising(hand[s])
  <2> TAKE s \in Streams
  <2>1. \A i, j \in DOMAIN hand[s] : ~(i < j)
    BY <1>1
  <2> QED BY <2>1 DEF Rising
<1>3. AtHand(m) = UNION {{<<"hand", s, i>> : i \in Spots(hand[s], m)} : s \in Streams}
  BY DEF AtHand, Spots
<1>4. \A s \in Streams : m \notin Handed[s] => Spots(hand[s], m) = {}
  BY <1>1, <1>2, SpotsOf
<1>5. ASSUME NEW s \in Streams, m \in Handed[s], \A t \in Streams : t # s => m \notin Handed[t]
      PROVE  One(AtHand(m))
  <2>1. PICK i : Spots(hand[s], m) = {i}
    BY <1>1, <1>2, <1>5, SpotsOf
  <2>2. AtHand(m) = {<<"hand", s, i>>}
    BY <1>3, <1>4, <1>5, <2>1
  <2> QED BY <2>2 DEF One
<1>6. (\A s \in Streams : m \notin Handed[s]) => None(AtHand(m))
  BY <1>3, <1>4 DEF None
<1> QED BY <1>5, <1>6

LEMMA SentPlace ==
  ASSUME FlowInv, NEW m
  PROVE  /\ (\A s \in Streams : m \notin Delivered[s]) => None(AtSent(m))
         /\ \A s \in Streams : m \in Delivered[s] /\ (\A t \in Streams : t # s => m \notin Delivered[t])
              => One(AtSent(m))
<1>1. /\ \A s \in Streams : sent[s] \in Seq(Message) /\ Delivered[s] = Elements(sent[s]) /\ Rising(sent[s])
  BY DEF FlowInv, Typed, Queues, Flow, Delivered
<1>2. AtSent(m) = UNION {{<<"sent", s, i>> : i \in Spots(sent[s], m)} : s \in Streams}
  BY DEF AtSent, Spots
<1>3. \A s \in Streams : m \notin Delivered[s] => Spots(sent[s], m) = {}
  BY <1>1, SpotsOf
<1>4. ASSUME NEW s \in Streams, m \in Delivered[s], \A t \in Streams : t # s => m \notin Delivered[t]
      PROVE  One(AtSent(m))
  <2>1. PICK i : Spots(sent[s], m) = {i}
    BY <1>1, <1>4, SpotsOf
  <2>2. AtSent(m) = {<<"sent", s, i>>}
    BY <1>2, <1>3, <1>4, <2>1
  <2> QED BY <2>2 DEF One
<1>5. (\A s \in Streams : m \notin Delivered[s]) => None(AtSent(m))
  BY <1>2, <1>3 DEF None
<1> QED BY <1>4, <1>5

LEMMA NotePlace ==
  ASSUME FlowInv, NEW n, NEW m, m = <<"note", n>>
  PROVE  /\ m \notin Waiting => None(AtQueue(m))
         /\ m \in Waiting => One(AtQueue(m))
         /\ m \notin Held => None(AtWriter(m))
         /\ m \in Held => One(AtWriter(m))
         /\ m \notin Unanswered
<1>1. /\ notification_queue_ \in Seq(1..MaxNotes) /\ note \in Seq(1..MaxNotes) /\ Len(note) <= 1
      /\ \A i, j \in DOMAIN notification_queue_ : i < j => notification_queue_[i] < notification_queue_[j]
  BY DEF FlowInv, Typed, Queues, Flow
<1>2. m \in Waiting <=> \E i \in DOMAIN notification_queue_ : notification_queue_[i] = n
  BY DEF Waiting, Elements
<1>3. m \in Held <=> \E i \in DOMAIN note : note[i] = n
  BY DEF Held, Elements
<1>4. /\ m \notin Waiting => None(AtQueue(m))
      /\ m \notin Held => None(AtWriter(m))
  BY <1>2, <1>3 DEF None, AtQueue, AtWriter
<1>5. ASSUME m \in Waiting  PROVE One(AtQueue(m))
  <2>1. PICK i \in DOMAIN notification_queue_ : notification_queue_[i] = n
    BY <1>2, <1>5
  <2>2. ASSUME NEW j \in DOMAIN notification_queue_, notification_queue_[j] = n  PROVE j = i
    <3>0. i \in Nat /\ j \in Nat /\ notification_queue_[i] \in 1..MaxNotes
      BY <1>1, <2>1, <2>2, ItemOf
    <3>1. n \in Int
      BY <2>1, <3>0
    <3>2. ~(i < j) /\ ~(j < i)
      BY <1>1, <2>1, <2>2, <3>1
    <3> QED BY <3>0, <3>2
  <2>3. AtQueue(m) = {<<"queue", i>>}
    BY <2>1, <2>2 DEF AtQueue
  <2> QED BY <2>3 DEF One
<1>6. ASSUME m \in Held  PROVE One(AtWriter(m))
  <2>1. PICK i \in DOMAIN note : note[i] = n
    BY <1>3, <1>6
  <2>2. \A j \in DOMAIN note : j = i
    BY <1>1
  <2>3. AtWriter(m) = {<<"writer", i>>}
    BY <2>1, <2>2 DEF AtWriter
  <2> QED BY <2>3 DEF One
<1>7. m \notin Unanswered
  BY DEF Unanswered
<1> QED BY <1>4, <1>5, <1>6, <1>7

LEMMA AnswerPlace ==
  ASSUME FlowInv, NEW n, NEW m, m = <<"answer", n>>
  PROVE  /\ m \notin Waiting => None(AtIncoming(n))
         /\ m \in Waiting => One(AtIncoming(n))
         /\ m \notin Held => None(AtRequest(n))
         /\ m \in Held => One(AtRequest(n))
         /\ m \notin Unanswered => None(AtSilent(n))
         /\ m \in Unanswered => One(AtSilent(n))
         /\ None(AtQueue(m)) /\ None(AtWriter(m))
<1>1. /\ incoming_messages_ \in Seq(Request) /\ request \in Seq(Request) /\ Len(request) <= 1
      /\ \A i, j \in DOMAIN incoming_messages_ : i < j => incoming_messages_[i].n < incoming_messages_[j].n
  BY DEF FlowInv, Typed, Queues, Flow
<1>2. m \in Waiting <=> \E i \in DOMAIN incoming_messages_ : incoming_messages_[i].n = n
  BY DEF Waiting, Elements
<1>3. m \in Held <=> \E i \in DOMAIN request : request[i].n = n
  BY DEF Held, Elements
<1>4. m \in Unanswered <=> n \in silent
  BY DEF Unanswered
<1>5. /\ m \notin Waiting => None(AtIncoming(n))
      /\ m \notin Held => None(AtRequest(n))
      /\ m \notin Unanswered => None(AtSilent(n))
      /\ None(AtQueue(m)) /\ None(AtWriter(m))
  BY <1>2, <1>3, <1>4 DEF None, AtIncoming, AtRequest, AtSilent, AtQueue, AtWriter
<1>6. ASSUME m \in Waiting  PROVE One(AtIncoming(n))
  <2>1. PICK i \in DOMAIN incoming_messages_ : incoming_messages_[i].n = n
    BY <1>2, <1>6
  <2>2. ASSUME NEW j \in DOMAIN incoming_messages_, incoming_messages_[j].n = n  PROVE j = i
    <3>1. i \in Nat /\ j \in Nat /\ incoming_messages_[i] \in Request
      BY <1>1
    <3>2. n \in Int
      BY <2>1, <3>1, TransportAssumption DEF Request, TransportAssumption
    <3>3. ~(i < j) /\ ~(j < i)
      BY <1>1, <2>1, <2>2, <3>2
    <3> QED BY <3>1, <3>3
  <2>3. AtIncoming(n) = {<<"incoming", i>>}
    BY <2>1, <2>2 DEF AtIncoming
  <2> QED BY <2>3 DEF One
<1>7. ASSUME m \in Held  PROVE One(AtRequest(n))
  <2>1. PICK i \in DOMAIN request : request[i].n = n
    BY <1>3, <1>7
  <2>2. \A j \in DOMAIN request : j = i
    BY <1>1
  <2>3. AtRequest(n) = {<<"request", i>>}
    BY <2>1, <2>2 DEF AtRequest
  <2> QED BY <2>3 DEF One
<1>8. ASSUME m \in Unanswered  PROVE One(AtSilent(n))
  <2>1. AtSilent(n) = {<<"silent", n>>}
    BY <1>4, <1>8 DEF AtSilent
  <2> QED BY <2>1 DEF One
<1> QED BY <1>5, <1>6, <1>7, <1>8

LEMMA FlowAccounted == FlowInv => Accounted
<1> SUFFICES ASSUME FlowInv PROVE Accounted
  OBVIOUS
<1>1. TypeOK
  BY TypedTypeOK DEF FlowInv
<1>2. Line(Waiting, Held, Elements(outgoing_messages_), Handed, Delivered, missed, Unanswered, Accepted)
  BY DEF FlowInv, Flow
<1>3. \A S : One(S) => Cardinality(S) = 1
  BY FS_Singleton DEF One
<1>4. ASSUME NEW n \in 1..noted  PROVE Cardinality(Places(<<"note", n>>)) = 1
  <2> DEFINE m == <<"note", n>>
  <2>1. m \in Accepted
    BY DEF Accepted
  <2>2. InOne(Waiting, Held, Elements(outgoing_messages_), Handed, Delivered, missed, Unanswered, m)
    BY <1>2, <2>1, OnePlace
  <2>3. /\ m \notin Waiting => None(AtQueue(m))
        /\ m \in Waiting => One(AtQueue(m))
        /\ m \notin Held => None(AtWriter(m))
        /\ m \in Held => One(AtWriter(m))
        /\ m \notin Unanswered
    BY NotePlace
  <2> HIDE DEF m
  <2>4. One(Places(m))
    BY <2>2, <2>3, OutgoingPlace, HandPlace, SentPlace, PlacesOf DEF InOne, None, One
  <2> QED BY <1>3, <2>4 DEF m
<1>5. ASSUME NEW n \in 1..posted  PROVE Cardinality(Places(<<"answer", n>>) \cup Pending(n)) = 1
  <2> DEFINE m == <<"answer", n>>
  <2>1. m \in Accepted
    BY DEF Accepted
  <2>2. InOne(Waiting, Held, Elements(outgoing_messages_), Handed, Delivered, missed, Unanswered, m)
    BY <1>2, <2>1, OnePlace
  <2>3. /\ m \notin Waiting => None(AtIncoming(n))
        /\ m \in Waiting => One(AtIncoming(n))
        /\ m \notin Held => None(AtRequest(n))
        /\ m \in Held => One(AtRequest(n))
        /\ m \notin Unanswered => None(AtSilent(n))
        /\ m \in Unanswered => One(AtSilent(n))
        /\ None(AtQueue(m)) /\ None(AtWriter(m))
    BY AnswerPlace
  <2> HIDE DEF m
  <2>4. /\ m \notin Elements(outgoing_messages_) => None(AtOutgoing(m))
        /\ m \in Elements(outgoing_messages_) => One(AtOutgoing(m))
        /\ m \notin missed => None(AtMissed(m))
        /\ m \in missed => One(AtMissed(m))
    BY OutgoingPlace
  <2>5. Places(m) \cup Pending(n) = AtOutgoing(m) \cup AtMissed(m) \cup AtHand(m) \cup AtSent(m)
                                    \cup AtIncoming(n) \cup AtRequest(n) \cup AtSilent(n)
    BY <2>3, PlacesOf DEF None
  <2>6. ASSUME \A s \in Streams : m \notin Handed[s] /\ m \notin Delivered[s]
        PROVE  One(Places(m) \cup Pending(n))
    <3>1. None(AtHand(m)) /\ None(AtSent(m))
      BY <2>6, HandPlace, SentPlace
    <3>2. One(AtOutgoing(m) \cup AtMissed(m) \cup AtIncoming(n) \cup AtRequest(n) \cup AtSilent(n))
      <4>1. CASE m \in Waiting
        BY <2>2, <2>3, <2>4, <2>6, <4>1 DEF InOne, None, One
      <4>2. CASE m \in Held
        BY <2>2, <2>3, <2>4, <2>6, <4>2 DEF InOne, None, One
      <4>3. CASE m \in Elements(outgoing_messages_)
        BY <2>2, <2>3, <2>4, <2>6, <4>3 DEF InOne, None, One
      <4>4. CASE m \in missed
        BY <2>2, <2>3, <2>4, <2>6, <4>4 DEF InOne, None, One
      <4>5. CASE m \in Unanswered
        BY <2>2, <2>3, <2>4, <2>6, <4>5 DEF InOne, None, One
      <4> QED BY <2>2, <2>6, <4>1, <4>2, <4>3, <4>4, <4>5 DEF InOne
    <3>3. Places(m) \cup Pending(n)
            = AtOutgoing(m) \cup AtMissed(m) \cup AtIncoming(n) \cup AtRequest(n) \cup AtSilent(n)
      BY <2>5, <3>1 DEF None
    <3> QED BY <3>2, <3>3
  <2>7. ASSUME ~(\A s \in Streams : m \notin Handed[s] /\ m \notin Delivered[s])
        PROVE  One(Places(m) \cup Pending(n))
    <3>1. /\ m \notin Waiting /\ m \notin Held /\ m \notin Elements(outgoing_messages_)
          /\ m \notin missed /\ m \notin Unanswered
      BY <2>2, <2>7 DEF InOne
    <3>2. Places(m) \cup Pending(n) = AtHand(m) \cup AtSent(m)
      BY <2>3, <2>4, <2>5, <3>1 DEF None
    <3>3. PICK s \in Streams :
            /\ m \in Handed[s] <=> m \notin Delivered[s]
            /\ \A t \in Streams : t # s => m \notin Handed[t] /\ m \notin Delivered[t]
      BY <2>2, <2>7 DEF InOne
    <3>4. CASE m \in Handed[s]
      <4>1. One(AtHand(m)) /\ None(AtSent(m))
        BY <3>3, <3>4, HandPlace, SentPlace
      <4>2. Places(m) \cup Pending(n) = AtHand(m)
        BY <3>2, <4>1 DEF None
      <4> QED BY <4>1, <4>2
    <3>5. CASE m \in Delivered[s]
      <4>1. None(AtHand(m)) /\ One(AtSent(m))
        BY <3>3, <3>5, HandPlace, SentPlace
      <4>2. Places(m) \cup Pending(n) = AtSent(m)
        BY <3>2, <4>1 DEF None
      <4> QED BY <4>1, <4>2
    <3> QED BY <3>3, <3>4, <3>5
  <2>8. One(Places(m) \cup Pending(n))
    BY <2>6, <2>7
  <2> QED BY <1>3, <2>8 DEF m
<1> QED BY <1>1, <1>4, <1>5 DEF Accounted

\* Every notification and every request that was accepted is in exactly one
\* place, whichever threads pass it on, whatever clients come and go and
\* wherever the server stops.
THEOREM AccountedHolds == Spec => []Accounted
BY FlowHolds, FlowAccounted, PTL

=============================================================================
