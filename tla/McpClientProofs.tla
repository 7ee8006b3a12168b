--------------------------- MODULE McpClientProofs ---------------------------
(***************************************************************************)
(* What TLAPS proves of McpClient, for any number of calling threads and   *)
(* any bounds.  A call takes the first response in the queue; as long as   *)
(* nothing has mixed the answers up there is at most one call, and what is *)
(* in the queue or still to be written can only be the answer to it.       *)
(***************************************************************************)
EXTENDS McpClient, TLAPS

-----------------------------------------------------------------------------
(* Types.                                                                  *)

Stages == {"idle", "sending", "waiting", "storing none", "storing tools"}

Switches ==
  /\ transport_type_ \in {"stdio", "sse"}
  /\ connected_ \in BOOLEAN /\ running_ \in BOOLEAN /\ channel \in BOOLEAN
  /\ tool_manager_ \in BOOLEAN /\ initialized_ \in BOOLEAN /\ available_tools_ \in BOOLEAN
  /\ crashed \in BOOLEAN /\ mixed \in BOOLEAN /\ foreign \in BOOLEAN

\* A caller has a number as long as its request is under way; a detached
\* thread is one that calls a tool.
Seats ==
  /\ at \in [Callers -> Stages]
  /\ id \in [Callers -> Nat]
  /\ \A c \in Callers :
       /\ at[c] \in {"sending", "waiting"} => id[c] \in 1..Len(requests)
       /\ at[c] \notin {"sending", "waiting"} => id[c] = 0
  /\ detached \subseteq Threads
  /\ \A c \in detached : at[c] \in {"sending", "waiting"} /\ requests[id[c]] = "call"

\* The reader and the control thread call only where they may, and there is no
\* reader without its channel, nor once the client has disconnected.
Threaded ==
  /\ reader \in {"none", "started", "reading", "ended"}
  /\ control \in {"idle", "connecting", "leaving", "waitpid", "closing", "managing",
                 "initializing"}
  /\ at[Reader] # "idle" => reader = "reading"
  /\ at[Control] # "idle" => control = "initializing"
  /\ channel <=> (reader # "none" \/ control \in {"waitpid", "closing"})
  /\ control \in {"waitpid", "closing"} => reader = "none"
  /\ control \in {"idle", "managing", "initializing"} /\ ~connected_ => reader = "none"

Queues ==
  /\ requests \in Seq({"call", "list"})
  /\ response_queue_ \in Seq(0..Len(requests))
  /\ pending \subseteq 1..Len(requests)

Typed == Switches /\ Seats /\ Threaded /\ Queues

\* A queue of some elements is one of more of them.
LEMMA WiderQueue ==
  ASSUME NEW S, NEW T, S \subseteq T, NEW q \in Seq(S)
  PROVE  q \in Seq(T)
OBVIOUS

LEMMA TypedTypeOK == Typed => TypeOK
<1> SUFFICES ASSUME Typed PROVE TypeOK
  OBVIOUS
<1>1. {connected_, running_, channel, tool_manager_, initialized_, available_tools_,
       crashed, mixed, foreign} \subseteq BOOLEAN
  BY DEF Typed, Switches
<1>2. (reader # "none" \/ control \in {"waitpid", "closing"}) = channel
  BY Zenon DEF Typed, Switches, Threaded
<1>3. \A c \in Callers :
        /\ at[c] \in {"idle", "sending", "waiting", "storing none", "storing tools"}
        /\ id[c] \in 0..Len(requests)
        /\ (id[c] # 0) = (at[c] \in {"sending", "waiting"})
  <2> TAKE c \in Callers
  <2>1. Len(requests) \in Nat /\ at[c] \in Stages
    BY DEF Typed, Queues, Seats
  <2>2. CASE at[c] \in {"sending", "waiting"}
    <3>1. id[c] \in 1..Len(requests)
      BY <2>2 DEF Typed, Seats
    <3>2. id[c] \in 0..Len(requests) /\ id[c] # 0
      BY <2>1, <3>1
    <3>3. (id[c] # 0) = TRUE /\ (at[c] \in {"sending", "waiting"}) = TRUE
      BY <2>2, <3>2, Zenon
    <3> QED BY <2>1, <3>2, <3>3, Zenon DEF Stages
  <2>3. CASE at[c] \notin {"sending", "waiting"}
    <3>1. id[c] = 0
      BY <2>3 DEF Typed, Seats
    <3>2. id[c] \in 0..Len(requests)
      BY <2>1, <3>1
    <3>3. (id[c] # 0) = FALSE /\ (at[c] \in {"sending", "waiting"}) = FALSE
      <4>1. ~(id[c] # 0) /\ ~(at[c] \in {"sending", "waiting"})
        BY <2>3, <3>1
      <4> QED BY <4>1
    <3> QED BY <2>1, <3>2, <3>3, Zenon DEF Stages
  <2> QED BY <2>2, <2>3
<1> QED BY <1>1, <1>2, <1>3 DEF Typed, TypeOK, Switches, Seats, Threaded, Queues

LEMMA InitTyped == Init => Typed
<1> SUFFICES ASSUME Init PROVE Typed
  OBVIOUS
<1>1. Switches
  BY Zenon DEF Init, Switches
<1>2. Seats
  BY DEF Init, Seats, Stages
<1>3. Threaded
  BY DEF Init, Threaded, Callers
<1>4. Queues
  BY DEF Init, Queues
<1> QED BY <1>1, <1>2, <1>3, <1>4 DEF Typed

LEMMA SwitchesStep ==
  ASSUME Typed, Next
  PROVE  Switches'
<1> USE DEF Typed, Switches
<1>1. CASE Connection
  <2>1. CASE ConnectStdio
    BY <2>1, Zenon DEF ConnectStdio, manager, ghosts
  <2>2. CASE connectSSE
    <3>1. mixed' \in BOOLEAN
      BY <2>2, Zenon DEF connectSSE, Mixed
    <3> QED BY <2>2, <3>1, Zenon DEF connectSSE, manager
  <2>3. CASE SetConnected
    BY <2>3, Zenon DEF SetConnected, manager, ghosts
  <2>4. CASE disconnect
    BY <2>4, Zenon DEF disconnect, Leave, manager, ghosts
  <2>5. CASE JoinReader \/ ServerExits
    BY <2>5, Zenon DEF JoinReader, ServerExits, manager, ghosts
  <2>6. CASE Disconnected
    <3>1. crashed' \in BOOLEAN
      BY <2>6 DEF Disconnected
    <3> QED BY <2>6, <3>1, Zenon DEF Disconnected, manager, ghosts
  <2> QED BY <1>1, <2>1, <2>2, <2>3, <2>4, <2>5, <2>6 DEF Connection
<1>2. CASE Management
  <2>1. CASE initialize
    BY <2>1, Zenon DEF initialize, manager, ghosts
  <2>2. CASE CreateManager
    BY <2>2, Zenon DEF CreateManager, Begin, Mixed
  <2>3. CASE Initialized
    BY <2>3, Zenon DEF Initialized, ghosts
  <2>4. CASE shutdown
    <3>1. crashed' \in BOOLEAN
      BY <2>4 DEF shutdown
    <3> QED BY <2>4, <3>1, Zenon DEF shutdown, Leave, ghosts
  <2> QED BY <1>2, <2>1, <2>2, <2>3, <2>4 DEF Management
<1>3. CASE Reading
  <2>1. CASE TestRunning \/ StreamEnds
    BY <2>1, Zenon DEF TestRunning, StreamEnds, ReaderLoop, manager, ghosts
  <2>2. CASE ReadAnswer
    BY <2>2, Zenon DEF ReadAnswer, connection, manager, ghosts
  <2>3. CASE ReadMessage
    <3>1. mixed' \in BOOLEAN /\ foreign' = foreign
      BY <2>3, Zenon DEF ReadMessage, Begin, Mixed
    <3> QED BY <2>3, <3>1, Zenon DEF ReadMessage, connection, manager
  <2> QED BY <1>3, <2>1, <2>2, <2>3 DEF Reading
<1>4. ASSUME NEW c \in Threads, callTool(c) \/ executeTool(c) \/ refreshTools(c)
      PROVE  Switches'
  BY <1>4, Zenon DEF callTool, executeTool, refreshTools, Begin, Mixed, connection, manager
<1>5. ASSUME NEW c \in Callers, CallStep(c)  PROVE Switches'
  <2>1. CASE sendRequestStdio(c)
    BY <2>1, Zenon DEF sendRequestStdio, connection, manager, ghosts
  <2>2. CASE sendRequestSSE(c)
    <3>1. mixed' \in BOOLEAN
      BY <2>2, Zenon DEF sendRequestSSE, Mixed
    <3> QED BY <2>2, <3>1, Zenon DEF sendRequestSSE, connection, manager
  <2>3. CASE Receive(c)
    BY <2>3, Zenon DEF Receive, connection, manager
  <2>4. CASE RequestTimeout(c)
    BY <2>4, Zenon DEF RequestTimeout, Mixed, connection, manager
  <2>5. CASE Store(c)
    BY <2>5, Zenon DEF Store, connection, ghosts
  <2> QED BY <1>5, <2>1, <2>2, <2>3, <2>4, <2>5 DEF CallStep
<1> QED BY <1>1, <1>2, <1>3, <1>4, <1>5 DEF Next

-----------------------------------------------------------------------------
(* The callers.                                                            *)

\* A thread begins a call.
LEMMA BeginSeats ==
  ASSUME Typed, NEW c \in Callers, NEW what \in {"call", "list"}, Begin(c, what),
         detached' \in {detached, detached \cup ({c} \cap Threads)}, c \in detached' => what = "call"
  PROVE  /\ Seats' /\ requests' \in Seq({"call", "list"})
         /\ Len(requests') = Len(requests) + 1
<1>1. requests \in Seq({"call", "list"}) /\ Len(requests) \in Nat
  BY DEF Typed, Queues
<1>2. requests' \in Seq({"call", "list"}) /\ Len(requests') = Len(requests) + 1
  BY <1>1 DEF Begin
<1>3. at' = [at EXCEPT ![c] = "sending"] /\ id' = [id EXCEPT ![c] = Len(requests) + 1]
  BY DEF Begin
<1>4. at \in [Callers -> Stages] /\ id \in [Callers -> Nat]
  BY DEF Typed, Seats
<1>5. at' \in [Callers -> Stages] /\ id' \in [Callers -> Nat]
  <2>1. Len(requests) + 1 \in Nat /\ "sending" \in Stages
    BY <1>1 DEF Stages
  <2> QED BY <1>3, <1>4, <2>1
<1>6. \A d \in Callers :
        /\ at'[d] \in {"sending", "waiting"} => id'[d] \in 1..Len(requests')
        /\ at'[d] \notin {"sending", "waiting"} => id'[d] = 0
  BY <1>1, <1>2, <1>3, <1>4 DEF Typed, Seats
<1>7. detached' \subseteq Threads
  BY DEF Typed, Seats
<1>8. ASSUME NEW d \in detached'
      PROVE  at'[d] \in {"sending", "waiting"} /\ requests'[id'[d]] = "call"
  <2>1. CASE d = c
    BY <1>1, <1>3, <1>4, <2>1 DEF Begin
  <2>2. CASE d # c
    <3>1. d \in detached /\ d \in Callers
      BY <1>7, <1>8, <2>2 DEF Callers
    <3>2. at[d] \in {"sending", "waiting"} /\ requests[id[d]] = "call" /\ id[d] \in 1..Len(requests)
      BY <3>1 DEF Typed, Seats
    <3>3. at'[d] = at[d] /\ id'[d] = id[d] /\ requests'[id[d]] = requests[id[d]]
      BY <1>1, <1>3, <1>4, <2>2, <3>1, <3>2 DEF Begin
    <3> QED BY <3>2, <3>3
  <2> QED BY <2>1, <2>2
<1> QED BY <1>2, <1>5, <1>6, <1>7, <1>8 DEF Seats

\* A thread goes on with its call, or leaves it.
LEMMA GoSeats ==
  ASSUME Typed, NEW c \in Callers, NEW l \in Stages, at' = [at EXCEPT ![c] = l],
         requests' = requests,
         l \in {"sending", "waiting"} => at[c] \in {"sending", "waiting"} /\ id' = id,
         l \notin {"sending", "waiting"} => id' = [id EXCEPT ![c] = 0],
         detached' \subseteq detached, l \notin {"sending", "waiting"} => c \notin detached'
  PROVE  Seats'
<1>1. at \in [Callers -> Stages] /\ id \in [Callers -> Nat]
  BY DEF Typed, Seats
<1>2. at' \in [Callers -> Stages] /\ id' \in [Callers -> Nat]
  BY <1>1
<1>3. \A d \in Callers :
        /\ at'[d] \in {"sending", "waiting"} => id'[d] \in 1..Len(requests')
        /\ at'[d] \notin {"sending", "waiting"} => id'[d] = 0
  BY <1>1 DEF Typed, Seats
<1>4. detached' \subseteq Threads
  BY DEF Typed, Seats
<1>5. ASSUME NEW d \in detached'
      PROVE  at'[d] \in {"sending", "waiting"} /\ requests'[id'[d]] = "call"
  <2>1. d \in detached /\ d \in Callers
    BY <1>4, <1>5 DEF Callers
  <2>2. at[d] \in {"sending", "waiting"} /\ requests[id[d]] = "call"
    BY <2>1 DEF Typed, Seats
  <2>3. at'[d] \in {"sending", "waiting"} /\ id'[d] = id[d]
    BY <1>1, <1>5, <2>1, <2>2
  <2> QED BY <2>2, <2>3
<1> QED BY <1>2, <1>3, <1>4, <1>5 DEF Seats

LEMMA ReturnSeats ==
  ASSUME Typed, NEW c \in Callers, Return(c), requests' = requests
  PROVE  Seats' /\ \E l \in {"storing none", "idle"} : at' = [at EXCEPT ![c] = l]
<1>1. PICK l \in {"storing none", "idle"} : at' = [at EXCEPT ![c] = l]
  BY DEF Return
<1>2. id' = [id EXCEPT ![c] = 0] /\ detached' = detached \ {c}
  BY DEF Return
<1> QED BY <1>1, <1>2, GoSeats DEF Stages

\* What a step of a call does to its caller.
LEMMA StepSeats ==
  ASSUME Typed, NEW c \in Callers, CallStep(c)
  PROVE  Seats' /\ at[c] # "idle" /\ \E l \in Stages : at' = [at EXCEPT ![c] = l]
<1>1. ASSUME at[c] = "sending", Sent(c), requests' = requests  PROVE Seats'
  <2>1. at' = [at EXCEPT ![c] = "waiting"] /\ id' = id /\ detached' = detached
    BY <1>1 DEF Sent
  <2> QED BY <1>1, <2>1, GoSeats DEF Stages
<1>2. CASE sendRequestStdio(c)
  <2>1. at[c] = "sending" /\ requests' = requests
    BY <1>2 DEF sendRequestStdio
  <2>2. CASE Return(c)
    BY <2>1, <2>2, ReturnSeats DEF Stages
  <2>3. CASE Sent(c)
    BY <1>1, <2>1, <2>3 DEF Sent, Stages
  <2> QED BY <1>2, <2>2, <2>3 DEF sendRequestStdio
<1>3. CASE sendRequestSSE(c)
  <2>1. at[c] = "sending" /\ requests' = requests
    BY <1>3 DEF sendRequestSSE
  <2>2. CASE Return(c)
    BY <2>1, <2>2, ReturnSeats DEF Stages
  <2>3. CASE Sent(c)
    BY <1>1, <2>1, <2>3 DEF Sent, Stages
  <2> QED BY <1>3, <2>2, <2>3 DEF sendRequestSSE
<1>4. CASE Receive(c)
  <2>1. at[c] = "waiting" /\ requests' = requests
    BY <1>4 DEF Receive
  <2>2. CASE Return(c)
    BY <2>1, <2>2, ReturnSeats DEF Stages
  <2>3. CASE ~Return(c)
    <3>1. /\ at' = [at EXCEPT ![c] = "storing tools"] /\ id' = [id EXCEPT ![c] = 0]
          /\ detached' = detached /\ requests[id[c]] = "list"
      BY <1>4, <2>3 DEF Receive
    <3>2. c \notin detached
      BY <3>1 DEF Typed, Seats
    <3> QED BY <2>1, <3>1, <3>2, GoSeats DEF Stages
  <2> QED BY <2>2, <2>3
<1>5. CASE RequestTimeout(c)
  <2>1. at[c] = "waiting" /\ requests' = requests /\ Return(c)
    BY <1>5 DEF RequestTimeout
  <2> QED BY <2>1, ReturnSeats DEF Stages
<1>6. CASE Store(c)
  <2>1. /\ at[c] \in {"storing none", "storing tools"} /\ at' = [at EXCEPT ![c] = "idle"]
        /\ id' = id /\ detached' = detached /\ requests' = requests
    BY <1>6 DEF Store
  <2>2. c \notin detached /\ id[c] = 0 /\ id' = [id EXCEPT ![c] = 0]
    BY <2>1 DEF Typed, Seats
  <2> QED BY <2>1, <2>2, GoSeats DEF Stages
<1> QED BY <1>2, <1>3, <1>4, <1>5, <1>6 DEF CallStep

LEMMA TypedStep ==
  ASSUME Typed, Next
  PROVE  Typed'
<1>0. /\ Reader \in Callers /\ Control \in Callers /\ Reader # Control
      /\ Reader \notin Threads /\ Control \notin Threads /\ Threads \subseteq Callers
  BY McpClientAssumption DEF McpClientAssumption, Callers
<1>1. Switches'
  BY SwitchesStep
<1>2. /\ at \in [Callers -> Stages] /\ requests \in Seq({"call", "list"})
      /\ response_queue_ \in Seq(0..Len(requests)) /\ pending \subseteq 1..Len(requests)
      /\ Len(requests) \in Nat
  BY DEF Typed, Seats, Queues
<1>3. ASSUME UNCHANGED calls  PROVE Seats'
  BY <1>3 DEF calls, Typed, Seats
<1>4. ASSUME NEW r \in 0..Len(requests), Push(r)
      PROVE  response_queue_' \in Seq(0..Len(requests))
  BY <1>2, <1>4 DEF Push
<1>5. ASSUME requests' \in Seq({"call", "list"}), Len(requests') = Len(requests) + 1,
             response_queue_' = response_queue_, pending' = pending
      PROVE  Queues'
  <2>1. 0..Len(requests) \subseteq 0..Len(requests') /\ 1..Len(requests) \subseteq 1..Len(requests')
    BY <1>2, <1>5
  <2>2. response_queue_ \in Seq(0..Len(requests'))
    BY <1>2, <2>1, WiderQueue
  <2> QED BY <1>2, <1>5, <2>1, <2>2 DEF Queues
<1>6. CASE Connection
  <2>1. Seats'
    BY <1>3, <1>6 DEF Connection, ConnectStdio, connectSSE, SetConnected, disconnect, JoinReader,
                  ServerExits, Disconnected
  <2>2. Queues'
    <3>1. response_queue_' = response_queue_ \/ Push(0)
      BY <1>6 DEF Connection, ConnectStdio, connectSSE, SetConnected, disconnect, JoinReader,
                  ServerExits, Disconnected
    <3>2. pending' \in {pending, {}} /\ requests' = requests
      BY <1>6 DEF Connection, ConnectStdio, connectSSE, SetConnected, disconnect,
                  JoinReader, ServerExits, Disconnected, calls
    <3> QED BY <1>2, <1>4, <3>1, <3>2 DEF Queues
  <2>3. Threaded'
    <3> USE DEF calls, Typed, Threaded, Leave
    <3>1. CASE ConnectStdio   BY <3>1 DEF ConnectStdio
    <3>2. CASE connectSSE
      <4>1. control = "idle" /\ control' = "connecting" /\ reader' = "started" /\ channel' = TRUE
            /\ at' = at
        BY <3>2 DEF connectSSE
      <4>2. at[Reader] # "idle" => reader' = "reading"
        <5>1. reader = "none"
          BY <3>2 DEF connectSSE
        <5> QED BY <5>1
      <4> QED BY <4>1, <4>2
    <3>3. CASE SetConnected   BY <3>3 DEF SetConnected
    <3>4. CASE disconnect     BY <3>4 DEF disconnect
    <3>5. CASE JoinReader     BY <3>5 DEF JoinReader
    <3>6. CASE ServerExits    BY <3>6 DEF ServerExits
    <3>7. CASE Disconnected   BY <3>7 DEF Disconnected
    <3> QED BY <1>6, <3>1, <3>2, <3>3, <3>4, <3>5, <3>6, <3>7 DEF Connection
  <2> QED BY <1>1, <2>1, <2>2, <2>3 DEF Typed
<1>7. CASE Management
  <2>0. CASE initialize
    <3>1. UNCHANGED <<calls, pending>> /\ response_queue_' = <<>>
      BY <2>0 DEF initialize
    <3>2. Seats' /\ Queues'
      BY <1>2, <1>3, <3>1 DEF calls, Queues
    <3>3. Threaded'
      BY <2>0 DEF initialize, calls, Typed, Threaded
    <3> QED BY <1>1, <3>2, <3>3 DEF Typed
  <2>1. CASE CreateManager
    <3>1. /\ Begin(Control, "list") /\ detached' = detached
          /\ UNCHANGED <<connected_, channel, reader, response_queue_, pending>>
          /\ control = "managing" /\ control' = "initializing" /\ connected_
      BY <2>1 DEF CreateManager, Begin
    <3>2. Control \notin detached'
      BY <1>0, <3>1 DEF Typed, Seats
    <3>3. Seats' /\ Queues'
      BY <1>0, <1>5, <3>1, <3>2, BeginSeats
    <3>4. at'[Reader] = at[Reader]
      BY <1>0, <1>2, <3>1 DEF Begin
    <3>5. Threaded'
      BY <3>1, <3>4 DEF Typed, Threaded
    <3> QED BY <1>1, <3>3, <3>5 DEF Typed
  <2>2. CASE Initialized \/ shutdown
    <3>1. UNCHANGED <<calls, response_queue_, pending>>
      BY <2>2 DEF Initialized, shutdown
    <3>2. Seats' /\ Queues'
      BY <1>3, <3>1 DEF calls, Typed, Queues
    <3>3. CASE Initialized
      <4>1. Threaded'
        BY <3>1, <3>3 DEF Initialized, calls, Typed, Threaded
      <4> QED BY <1>1, <3>2, <4>1 DEF Typed
    <3>4. CASE shutdown
      <4>1. /\ control = "idle" /\ control' \in {"idle", "leaving"} /\ UNCHANGED <<channel, reader>>
            /\ control' = "idle" => connected_' = connected_
        BY <3>4 DEF shutdown, Leave
      <4>2. Threaded'
        BY <3>1, <4>1 DEF calls, Typed, Threaded
      <4> QED BY <1>1, <3>2, <4>2 DEF Typed
    <3> QED BY <2>2, <3>3, <3>4
  <2> QED BY <1>7, <2>0, <2>1, <2>2 DEF Management
<1>8. CASE Reading
  <2>1. CASE TestRunning \/ StreamEnds
    <3>1. /\ UNCHANGED <<calls, response_queue_, connected_, channel, control>>
          /\ pending' \in {pending, {}}
      BY <2>1 DEF TestRunning, StreamEnds, ReaderLoop, connection
    <3>2. Seats' /\ Queues'
      BY <1>2, <1>3, <3>1 DEF calls, Queues
    <3>3. /\ reader \in {"started", "reading"} /\ reader' \in {"started", "reading", "ended"}
          /\ at[Reader] = "idle"
      BY <2>1 DEF TestRunning, StreamEnds, ReaderLoop, Typed, Threaded
    <3>4. Threaded'
      BY <3>1, <3>3 DEF calls, Typed, Threaded
    <3> QED BY <1>1, <3>2, <3>4 DEF Typed
  <2>2. CASE ReadAnswer
    <3>1. PICK r \in pending : pending' = pending \ {r} /\ Push(r)
      BY <2>2 DEF ReadAnswer
    <3>2. UNCHANGED <<calls, connection>>
      BY <2>2 DEF ReadAnswer
    <3>3. response_queue_' \in Seq(0..Len(requests))
      BY <1>2, <1>4, <3>1
    <3>4. Seats' /\ Queues' /\ Threaded'
      BY <1>2, <1>3, <3>1, <3>2, <3>3 DEF calls, connection, Queues, Typed, Threaded
    <3> QED BY <1>1, <3>4 DEF Typed
  <2>3. CASE ReadMessage
    <3>1. reader = "reading" /\ UNCHANGED <<connection, detached, pending>>
      BY <2>3 DEF ReadMessage
    <3>2. CASE Push(0) /\ UNCHANGED <<at, id, requests>>
      <4>1. response_queue_' \in Seq(0..Len(requests))
        BY <1>2, <1>4, <3>2
      <4>2. Seats' /\ Queues' /\ Threaded'
        BY <1>2, <1>3, <3>1, <3>2, <4>1 DEF calls, connection, Queues, Typed, Threaded
      <4> QED BY <1>1, <4>2 DEF Typed
    <3>3. CASE Begin(Reader, "list") /\ response_queue_' = response_queue_
      <4>1. Reader \notin detached'
        BY <1>0, <3>1 DEF Typed, Seats
      <4>2. Seats' /\ Queues'
        BY <1>0, <1>5, <3>1, <3>3, <4>1, BeginSeats
      <4>3. at'[Control] = at[Control]
        BY <1>0, <1>2, <3>3 DEF Begin
      <4>4. Threaded'
        BY <3>1, <4>3 DEF connection, Typed, Threaded
      <4> QED BY <1>1, <4>2, <4>4 DEF Typed
    <3> QED BY <2>3, <3>2, <3>3 DEF ReadMessage
  <2> QED BY <1>8, <2>1, <2>2, <2>3 DEF Reading
<1>9. ASSUME NEW c \in Threads, callTool(c) \/ executeTool(c) \/ refreshTools(c)
      PROVE  Typed'
  <2>1. PICK what \in {"call", "list"} : Begin(c, what) /\ (what = "list" => detached' = detached)
    BY <1>9 DEF callTool, executeTool, refreshTools
  <2>2. UNCHANGED <<connection, response_queue_, pending>>
        /\ detached' \in {detached, detached \cup {c}}
    BY <1>9 DEF callTool, executeTool, refreshTools
  <2>3. c \notin detached /\ {c} \cap Threads = {c}
    BY <2>1 DEF Begin, Typed, Seats
  <2>4. Seats' /\ Queues'
    BY <1>0, <1>5, <2>1, <2>2, <2>3, BeginSeats
  <2>5. at'[Control] = at[Control] /\ at'[Reader] = at[Reader]
    BY <1>0, <1>2, <2>1 DEF Begin
  <2>6. Threaded'
    BY <2>2, <2>5 DEF connection, Typed, Threaded
  <2> QED BY <1>1, <2>4, <2>6 DEF Typed
<1>10. ASSUME NEW c \in Callers, CallStep(c)  PROVE Typed'
  <2>1. Seats' /\ at[c] # "idle"
    BY <1>10, StepSeats
  <2>2. PICK l \in Stages : at' = [at EXCEPT ![c] = l]
    BY <1>10, StepSeats
  <2>3. UNCHANGED <<connection, requests>>
    BY <1>10 DEF CallStep, sendRequestStdio, sendRequestSSE, Receive, RequestTimeout, Store
  <2>4. Threaded'
    BY <1>0, <1>2, <2>1, <2>2, <2>3 DEF connection, Typed, Threaded
  <2>5. at[c] = "sending" => id[c] \in 1..Len(requests) /\ id[c] \in 0..Len(requests)
    BY <1>2 DEF Typed, Seats
  <2>6. Queues'
    <3>1. CASE sendRequestStdio(c) \/ RequestTimeout(c) \/ Store(c)
      BY <1>2, <2>3, <3>1 DEF sendRequestStdio, RequestTimeout, Store, Queues
    <3>2. CASE sendRequestSSE(c)
      <4>0. at[c] = "sending" /\ (response_queue_' = response_queue_ \/ Push(0) \/ Push(id[c]))
        BY <3>2 DEF sendRequestSSE
      <4>1. response_queue_' \in Seq(0..Len(requests))
        BY <1>2, <1>4, <2>5, <4>0
      <4>2. pending' \subseteq 1..Len(requests)
        BY <1>2, <2>5, <3>2, <4>0 DEF sendRequestSSE
      <4> QED BY <1>2, <2>3, <4>1, <4>2 DEF Queues
    <3>3. CASE Receive(c)
      <4>0. /\ response_queue_ # <<>> /\ response_queue_' = Tail(response_queue_)
            /\ pending' = pending
        BY <3>3 DEF Receive
      <4>1. response_queue_' \in Seq(0..Len(requests))
        BY <1>2, <4>0
      <4>2. pending' \subseteq 1..Len(requests)
        BY <1>2, <4>0
      <4> QED BY <1>2, <2>3, <4>1, <4>2 DEF Queues
    <3> QED BY <1>10, <3>1, <3>2, <3>3 DEF CallStep
  <2> QED BY <1>1, <2>1, <2>4, <2>6 DEF Typed
<1> QED BY <1>6, <1>7, <1>8, <1>9, <1>10 DEF Next

-----------------------------------------------------------------------------
(* Whose answers there are.                                                *)

\* The request that a caller waits for.
Awaited(r) == \E c \in Callers : at[c] = "waiting" /\ id[c] = r

\* As long as nothing is mixed up: one call at a time, and one answer at most,
\* in the queue or at the server, to that call.
Single ==
  /\ ~foreign
  /\ \A c, d \in Calling : c = d
  /\ \A i \in DOMAIN response_queue_ : Awaited(response_queue_[i])
  /\ Len(response_queue_) <= 1
  /\ \A r \in pending : Awaited(r)
  /\ response_queue_ # <<>> => pending = {}

Unmixed == ~mixed => Single

\* Nobody calls, and nothing is left.
LEMMA SilentSingle ==
  ASSUME Typed, Single, \A c \in Callers : at[c] # "waiting"
  PROVE  response_queue_ = <<>> /\ pending = {}
<1>1. \A r : ~Awaited(r)
  BY DEF Awaited
<1>2. pending = {}
  BY <1>1 DEF Single
<1>3. response_queue_ = <<>>
  <2>1. \A i \in DOMAIN response_queue_ : FALSE
    BY <1>1 DEF Single
  <2>2. Len(response_queue_) \in Nat /\ DOMAIN response_queue_ = 1..Len(response_queue_)
    BY DEF Typed, Queues
  <2>3. Len(response_queue_) = 0
    BY <2>1, <2>2
  <2> QED BY <2>3 DEF Typed, Queues
<1> QED BY <1>2, <1>3

\* The callers, the queue and foreign stay, and pending may be emptied.
LEMMA StaySingle ==
  ASSUME Unmixed, UNCHANGED <<at, id, response_queue_, foreign>>,
         pending' \in {pending, {}}, ~mixed' => ~mixed
  PROVE  Unmixed'
BY DEF Unmixed, Single, Awaited, Calling

\* A call begins, alone, or mixes things up.
LEMMA BeginSingle ==
  ASSUME Typed, Unmixed, NEW c \in Callers, NEW what, Begin(c, what),
         UNCHANGED <<response_queue_, pending>>
  PROVE  Unmixed'
<1> SUFFICES ASSUME ~mixed' PROVE Single'
  BY DEF Unmixed
<1>1. ~mixed /\ Calling = {} /\ foreign' = foreign
  BY Zenon DEF Begin, Mixed
<1>2. Single
  BY <1>1 DEF Unmixed
<1>3. \A d \in Callers : at[d] \notin {"sending", "waiting"}
  BY <1>1 DEF Calling
<1>4. response_queue_ = <<>> /\ pending = {}
  BY <1>2, <1>3, SilentSingle
<1>5. at' = [at EXCEPT ![c] = "sending"] /\ at \in [Callers -> Stages]
  BY DEF Begin, Typed, Seats
<1>6. \A d, e \in Calling' : d = e
  BY <1>3, <1>5 DEF Calling
<1> QED BY <1>1, <1>2, <1>4, <1>6 DEF Single

\* A caller that is not waiting leaves, alone and with nothing left behind.
LEMMA ReturnSingle ==
  ASSUME Typed, Unmixed, ~mixed, NEW c \in Callers, at[c] = "sending", Return(c),
         UNCHANGED <<response_queue_, pending, foreign>>
  PROVE  Single'
<1>1. Single /\ c \in Calling
  BY DEF Unmixed, Calling
<1>2. \A d \in Callers : at[d] # "waiting"
  BY <1>1 DEF Single, Calling
<1>3. response_queue_ = <<>> /\ pending = {}
  BY <1>1, <1>2, SilentSingle
<1>4. \A d \in Calling' : d \in Calling
  BY DEF Return, Calling, Typed, Seats
<1> QED BY <1>1, <1>3, <1>4 DEF Single

\* The request is sent; its answer may be there at once, or to come.
LEMMA SentSingle ==
  ASSUME Typed, Unmixed, ~mixed, NEW c \in Callers, at[c] = "sending", Sent(c),
         foreign' = foreign,
         \/ Push(id[c]) /\ pending' = pending
         \/ response_queue_' = response_queue_ /\ pending' \in {pending, pending \cup {id[c]}}
  PROVE  Single'
<1>1. Single /\ c \in Calling
  BY DEF Unmixed, Calling
<1>2. \A d \in Callers : at[d] # "waiting"
  BY <1>1 DEF Single, Calling
<1>3. response_queue_ = <<>> /\ pending = {}
  BY <1>1, <1>2, SilentSingle
<1>4. at' = [at EXCEPT ![c] = "waiting"] /\ id' = id /\ at \in [Callers -> Stages]
  BY DEF Sent, Typed, Seats
<1>5. Awaited(id[c])' /\ \A d \in Calling' : d \in Calling
  BY <1>4 DEF Awaited, Calling
<1>6. CASE Push(id[c]) /\ pending' = pending
  <2>1. response_queue_' = <<id[c]>> /\ pending' = {}
    BY <1>3, <1>6 DEF Push
  <2>2. Len(response_queue_') = 1 /\ \A i \in DOMAIN response_queue_' : response_queue_'[i] = id[c]
    BY <2>1
  <2>3. (\A i \in DOMAIN response_queue_ : Awaited(response_queue_[i]))'
    BY <1>4, <1>5, <2>2 DEF Awaited
  <2> QED BY <1>1, <1>5, <2>1, <2>2, <2>3 DEF Single
<1>7. CASE response_queue_' = response_queue_ /\ pending' \in {pending, pending \cup {id[c]}}
  <2>1. response_queue_' = <<>> /\ \A r \in pending' : r = id[c]
    BY <1>3, <1>7
  <2>2. \A r \in pending' : Awaited(r)'
    BY <1>4, <1>5, <2>1 DEF Awaited
  <2> QED BY <1>1, <1>5, <2>1, <2>2 DEF Single
<1> QED BY <1>6, <1>7

\* A sequence of one.
LEMMA OnlyOne ==
  ASSUME NEW S, NEW q \in Seq(S), q # <<>>, Len(q) <= 1
  PROVE  Tail(q) = <<>> /\ 1 \in DOMAIN q /\ Head(q) = q[1]
<1>1. Len(q) \in Nat /\ Len(q) # 0
  OBVIOUS
<1>2. Len(q) = 1
  BY <1>1
<1>3. Tail(q) \in Seq(S) /\ Len(Tail(q)) = 0
  BY <1>2
<1>4. \A t \in Seq(S) : Len(t) = 0 => t = <<>>
  OBVIOUS
<1>5. 1 \in DOMAIN q
  BY <1>2
<1>6. Head(q) = q[1]
  BY <1>2
<1> QED BY <1>3, <1>4, <1>5, <1>6

\* The first response is the caller's own, and the last.
LEMMA ReceiveSingle ==
  ASSUME Typed, Unmixed, ~mixed, NEW c \in Callers, Receive(c)
  PROVE  Single'
<1>1. Single /\ c \in Calling /\ at[c] = "waiting" /\ response_queue_ # <<>>
  BY DEF Unmixed, Calling, Receive
<1>2. /\ Tail(response_queue_) = <<>> /\ 1 \in DOMAIN response_queue_
      /\ Head(response_queue_) = response_queue_[1]
  <2>1. response_queue_ \in Seq(0..Len(requests)) /\ Len(response_queue_) <= 1
    BY <1>1 DEF Single, Typed, Queues
  <2> QED BY <1>1, <2>1, OnlyOne
<1>3. Awaited(Head(response_queue_))
  BY <1>1, <1>2 DEF Single
<1>4. Head(response_queue_) = id[c]
  BY <1>1, <1>3 DEF Awaited, Single, Calling
<1>5. response_queue_' = <<>> /\ pending' = {}
  BY <1>1, <1>2 DEF Single, Receive
<1>6. ~foreign'
  BY <1>1, <1>4 DEF Single, Receive
<1>7. \A d \in Calling' : d \in Calling
  <2>1. PICK l \in {"storing none", "storing tools", "idle"} : at' = [at EXCEPT ![c] = l]
    BY DEF Receive, Return
  <2> QED BY <2>1 DEF Calling, Typed, Seats
<1> QED BY <1>1, <1>5, <1>6, <1>7 DEF Single

LEMMA CallSingle ==
  ASSUME Typed, Unmixed, NEW c \in Callers, CallStep(c)
  PROVE  Unmixed'
<1> SUFFICES ASSUME ~mixed' PROVE Single'
  BY DEF Unmixed
<1>0. ~mixed
  BY Zenon DEF CallStep, sendRequestStdio, sendRequestSSE, Receive, RequestTimeout, Store,
               Mixed, ghosts
<1>1. CASE sendRequestStdio(c)
  <2>1. at[c] = "sending" /\ UNCHANGED <<response_queue_, pending, foreign>>
    BY <1>1 DEF sendRequestStdio, ghosts
  <2> QED BY <1>0, <1>1, <2>1, ReturnSingle, SentSingle DEF sendRequestStdio
<1>2. CASE sendRequestSSE(c)
  <2>1. at[c] = "sending" /\ foreign' = foreign /\ ~Mixed(TRUE)
    BY <1>2, Zenon DEF sendRequestSSE, Mixed
  <2>2. CASE Return(c) /\ UNCHANGED <<response_queue_, pending>>
    BY <1>0, <2>1, <2>2, ReturnSingle
  <2>3. CASE Sent(c) /\ Push(id[c]) /\ UNCHANGED pending
    BY <1>0, <2>1, <2>3, SentSingle
  <2>4. CASE Sent(c) /\ UNCHANGED response_queue_ /\ pending' \in {pending, pending \cup {id[c]}}
    BY <1>0, <2>1, <2>4, SentSingle
  <2> QED BY <1>2, <2>1, <2>2, <2>3, <2>4 DEF sendRequestSSE
<1>3. CASE Receive(c)
  BY <1>0, <1>3, ReceiveSingle
<1>4. CASE RequestTimeout(c)
  BY <1>4, Zenon DEF RequestTimeout, Mixed
<1>5. CASE Store(c)
  <2>1. /\ at[c] \in {"storing none", "storing tools"} /\ at' = [at EXCEPT ![c] = "idle"]
        /\ UNCHANGED <<id, response_queue_, pending, foreign>>
    BY <1>5 DEF Store, ghosts
  <2>2. at \in [Callers -> Stages] /\ Single
    BY <1>0 DEF Typed, Seats, Unmixed
  <2>3. \A r : Awaited(r) => Awaited(r)'
    BY <2>1, <2>2 DEF Awaited
  <2>4. \A d \in Calling' : d \in Calling
    BY <2>1, <2>2 DEF Calling
  <2>5. (\A i \in DOMAIN response_queue_ : Awaited(response_queue_[i]))'
    BY <2>1, <2>2, <2>3 DEF Single
  <2> QED BY <2>1, <2>2, <2>3, <2>4, <2>5 DEF Single
<1> QED BY <1>1, <1>2, <1>3, <1>4, <1>5 DEF CallStep

LEMMA UnmixedStep ==
  ASSUME Typed, Unmixed, Next
  PROVE  Unmixed'
<1>0. Reader \in Callers /\ Control \in Callers /\ Threads \subseteq Callers
  BY DEF Callers
<1>1. CASE Connection
  <2>1. CASE connectSSE /\ Mixed(TRUE)
    BY <2>1, Zenon DEF Mixed, Unmixed
  <2>2. CASE ~(connectSSE /\ Mixed(TRUE))
    <3>1. UNCHANGED <<at, id, response_queue_, foreign, mixed>> /\ pending' \in {pending, {}}
      BY <1>1, <2>2 DEF Connection, ConnectStdio, connectSSE, SetConnected, disconnect,
                        JoinReader, ServerExits, Disconnected, calls, ghosts
    <3> QED BY <3>1, StaySingle
  <2> QED BY <2>1, <2>2
<1>2. CASE Management
  <2>0. CASE initialize
    <3>1. /\ UNCHANGED <<at, id, foreign, mixed, pending>> /\ Calling = {}
          /\ response_queue_' = <<>>
      BY <2>0 DEF initialize, calls, ghosts
    <3>2. Single => Single'
      BY <3>1 DEF Single, Calling, Awaited
    <3> QED BY <3>1, <3>2 DEF Unmixed
  <2>1. CASE CreateManager
    BY <1>0, <2>1, BeginSingle DEF CreateManager
  <2>2. CASE Initialized \/ shutdown
    <3>1. UNCHANGED <<at, id, response_queue_, foreign, mixed, pending>>
      BY <2>2 DEF Initialized, shutdown, calls, ghosts
    <3> QED BY <3>1, StaySingle
  <2> QED BY <1>2, <2>0, <2>1, <2>2 DEF Management
<1>3. CASE Reading
  <2>1. CASE TestRunning \/ StreamEnds
    <3>1. UNCHANGED <<at, id, response_queue_, foreign, mixed>> /\ pending' \in {pending, {}}
      BY <2>1 DEF TestRunning, StreamEnds, ReaderLoop, calls, ghosts
    <3> QED BY <3>1, StaySingle
  <2>2. CASE ReadAnswer
    <3> SUFFICES ASSUME ~mixed' PROVE Single'
      BY DEF Unmixed
    <3>1. PICK r \in pending : pending' = pending \ {r} /\ Push(r)
      BY <2>2 DEF ReadAnswer
    <3>2. UNCHANGED <<at, id, foreign, mixed>>
      BY <2>2 DEF ReadAnswer, calls, ghosts
    <3>3. Single
      BY <3>2 DEF Unmixed
    <3>4. response_queue_ = <<>> /\ \A s \in pending : s = r
      <4>1. response_queue_ = <<>> /\ Awaited(r)
        BY <3>1, <3>3 DEF Single
      <4>2. ASSUME NEW s \in pending  PROVE s = r
        <5>1. Awaited(s)
          BY <3>3 DEF Single
        <5> QED BY <3>3, <4>1, <5>1 DEF Single, Awaited, Calling
      <4> QED BY <4>1, <4>2
    <3>5. response_queue_' = <<r>> /\ pending' = {}
      BY <3>1, <3>4 DEF Push
    <3>6. Len(response_queue_') = 1 /\ \A i \in DOMAIN response_queue_' : response_queue_'[i] = r
      BY <3>5
    <3>7. (\A i \in DOMAIN response_queue_ : Awaited(response_queue_[i]))'
      BY <3>1, <3>2, <3>3, <3>6 DEF Single, Awaited
    <3> QED BY <3>2, <3>3, <3>5, <3>6, <3>7 DEF Single, Calling
  <2>3. CASE ReadMessage
    <3>1. CASE Mixed(TRUE)
      BY <3>1, Zenon DEF Mixed, Unmixed
    <3>2. CASE Begin(Reader, "list") /\ UNCHANGED response_queue_
      BY <1>0, <2>3, <3>2, BeginSingle DEF ReadMessage
    <3> QED BY <2>3, <3>1, <3>2 DEF ReadMessage
  <2> QED BY <1>3, <2>1, <2>2, <2>3 DEF Reading
<1>4. ASSUME NEW c \in Threads, callTool(c) \/ executeTool(c) \/ refreshTools(c)
      PROVE  Unmixed'
  BY <1>0, <1>4, BeginSingle DEF callTool, executeTool, refreshTools
<1>5. ASSUME NEW c \in Callers, CallStep(c)  PROVE Unmixed'
  BY <1>5, CallSingle
<1> QED BY <1>1, <1>2, <1>3, <1>4, <1>5 DEF Next

\* As long as no call gave up or overlapped another, and the server wrote
\* nothing but answers, each call returned the answer to its own request: for
\* any number of threads, over any connections and disconnections.
THEOREM OwnAnswerHolds == Spec => []OwnAnswer
<1> DEFINE Inv == Typed /\ Unmixed
<1>1. Init => Inv
  <2> SUFFICES ASSUME Init PROVE Inv
    OBVIOUS
  <2>1. Calling = {} /\ response_queue_ = <<>> /\ pending = {} /\ ~foreign
    BY DEF Init, Calling
  <2>2. Single
    BY <2>1 DEF Single
  <2> QED BY <2>2, InitTyped DEF Unmixed
<1>2. Inv /\ [Next]_vars => Inv'
  <2> SUFFICES ASSUME Inv, [Next]_vars PROVE Inv'
    OBVIOUS
  <2>1. CASE Next
    BY <2>1, TypedStep, UnmixedStep
  <2>2. CASE UNCHANGED vars
    <3>0. UNCHANGED <<connection, response_queue_, manager, calls, crashed, pending, ghosts>>
      BY <2>2 DEF vars
    <3>1. Typed'
      <4>1. Switches'
        BY <3>0, Zenon DEF connection, manager, ghosts, Typed, Switches
      <4>2. Seats'
        BY <3>0 DEF calls, Typed, Seats
      <4>3. Threaded'
        BY <3>0 DEF connection, calls, Typed, Threaded
      <4>4. Queues'
        BY <3>0 DEF calls, Typed, Queues
      <4> QED BY <4>1, <4>2, <4>3, <4>4 DEF Typed
    <3>2. Unmixed'
      BY <2>2, StaySingle DEF vars, calls, ghosts
    <3> QED BY <3>1, <3>2
  <2> QED BY <2>1, <2>2
<1>3. Inv => OwnAnswer
  <2>1. Unmixed => (foreign => mixed)
    BY DEF Unmixed, Single
  <2> QED BY <2>1, TypedTypeOK DEF OwnAnswer
<1> QED BY <1>1, <1>2, <1>3, PTL DEF Spec

=============================================================================
