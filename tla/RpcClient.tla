----------------------------- MODULE RpcClient -----------------------------
(***************************************************************************)
(* The client of the agent service (src/rpc_client.cpp) and its threads:   *)
(* the application's, which calls the client's methods one at a time; the  *)
(* heartbeat thread that registerAgent starts, which reconnects on its own *)
(* when a heartbeat fails; and the thread of the real-time stream.  The    *)
(* flags are atomics, and nothing else is shared under a lock.             *)
(*                                                                         *)
(* What a method of the application's thread still has to do is a sequence *)
(* of steps, todo, so that a method may run another.                       *)
(***************************************************************************)
EXTENDS Naturals, Sequences

CONSTANTS
  MAX_RETRY_COUNT,
  MaxIds           \* bound on the registrations

ASSUME ClientAssumption == MAX_RETRY_COUNT \in Nat \ {0} /\ MaxIds \in Nat

VARIABLES
  connected_, heartbeat_running, real_time_running_,
  connection_retry_count_,
  stub_,              \* the pointer is not null
  current_agent_id_,  \* 0 when empty
  heartbeat_thread_, real_time_thread_,   \* the objects are joinable
  real_time_stream_,  \* "null", "open", "half" (WritesDone), "ended"
  todo,               \* the steps the application's thread is in
  hb, rt,             \* where the other two threads are
  torn,               \* threads that use an object another thread replaced
  ids,                \* agent ids the server has given out
  fate,               \* what became of the process and the client
  unregistered        \* history: ids taken back from the server

flags   == <<connected_, heartbeat_running, real_time_running_>>
objects == <<heartbeat_thread_, real_time_thread_, real_time_stream_>>
vars    == <<flags, connection_retry_count_, stub_, current_agent_id_, objects,
             todo, hb, rt, torn, ids, fate, unregistered>>

HeartbeatLocations ==
  {"none", "testing", "checking", "beating", "failed", "reconnecting", "restoring", "exited"}
RealTimeLocations ==
  {"none", "unready", "opening", "testing", "reading", "finishing", "exited"}

Init ==
  /\ connected_ = FALSE /\ heartbeat_running = FALSE /\ real_time_running_ = FALSE
  /\ connection_retry_count_ = 0
  /\ stub_ = FALSE /\ current_agent_id_ = 0
  /\ heartbeat_thread_ = FALSE /\ real_time_thread_ = FALSE /\ real_time_stream_ = "null"
  /\ todo = <<>> /\ hb = "none" /\ rt = "none"
  /\ torn = {} /\ ids = 0 /\ fate = "alive"
  /\ unregistered = {}

Idle    == todo = <<>>
At(s)   == todo # <<>> /\ Head(todo) = s
Done    == todo' = Tail(todo)
Skip(n) == todo' = SubSeq(todo, n + 1, Len(todo))

\* The threads that are in a call through stub_.
Callers ==
  {t \in {"app"} : ~Idle /\ Head(todo)[1] \in {"call", "register", "unregister"}}
    \cup {t \in {"hb"} : hb = "beating"} \cup {t \in {"rt"} : rt \in {"unready", "opening"}}

\* setupChannel replaces the stub, under whoever uses it.
setupChannel ==
  /\ stub_' = TRUE
  /\ torn' = torn \cup Callers

-----------------------------------------------------------------------------
(* Connection                                                              *)

\* setupChannel may throw.
connect ==
  /\ Idle
  /\ \/ setupChannel /\ todo' = <<<<"connected">>>> /\ UNCHANGED connected_
     \/ connected_' = FALSE /\ UNCHANGED <<stub_, torn, todo>>
  /\ UNCHANGED <<heartbeat_running, real_time_running_, connection_retry_count_,
                 current_agent_id_, objects, hb, rt, ids, fate, unregistered>>

SetConnected ==
  /\ At(<<"connected">>)
  /\ connected_' = TRUE
  /\ connection_retry_count_' = 0
  /\ Done
  /\ UNCHANGED <<heartbeat_running, real_time_running_, stub_, current_agent_id_,
                 objects, hb, rt, torn, ids, fate, unregistered>>

StopHeartbeat == <<<<"stop heartbeat">>, <<"join heartbeat">>>>
StopRealTime  == <<<<"stop real time">>, <<"writes done">>, <<"join real time">>>>

\* Mutant: the stubs go before the threads that use them.
Disconnecting_StubFirst == <<<<"reset stub">>>> \o StopHeartbeat \o StopRealTime \o <<<<"disconnected">>>>

Disconnecting == StopHeartbeat \o StopRealTime \o <<<<"reset stub">>, <<"disconnected">>>>

\* disconnect does nothing unless the client is connected, which it is not
\* while its heartbeat reconnects.
disconnect ==
  /\ Idle /\ connected_
  /\ todo' = Disconnecting
  /\ UNCHANGED <<flags, connection_retry_count_, stub_, current_agent_id_, objects,
                 hb, rt, torn, ids, fate, unregistered>>

ResetStub ==
  /\ At(<<"reset stub">>)
  /\ stub_' = FALSE
  /\ torn' = torn \cup Callers
  /\ Done
  /\ UNCHANGED <<flags, connection_retry_count_, current_agent_id_, objects,
                 hb, rt, ids, fate, unregistered>>

SetDisconnected ==
  /\ At(<<"disconnected">>)
  /\ connected_' = FALSE
  /\ Done
  /\ UNCHANGED <<heartbeat_running, real_time_running_, connection_retry_count_, stub_,
                 current_agent_id_, objects, hb, rt, torn, ids, fate, unregistered>>

\* The destructor disconnects and stops again what disconnect has left; a
\* thread object that is still joinable ends the process.
Destroy ==
  /\ Idle
  /\ todo' = (IF connected_ THEN Disconnecting ELSE <<>>)
               \o StopHeartbeat \o StopRealTime \o <<<<"destroyed">>>>
  /\ UNCHANGED <<flags, connection_retry_count_, stub_, current_agent_id_, objects,
                 hb, rt, torn, ids, fate, unregistered>>

Destroyed ==
  /\ At(<<"destroyed">>)
  /\ fate' = IF heartbeat_thread_ \/ real_time_thread_ THEN "terminated" ELSE "destroyed"
  /\ UNCHANGED <<flags, connection_retry_count_, stub_, current_agent_id_, objects,
                 todo, hb, rt, torn, ids, unregistered>>

Connection ==
  connect \/ SetConnected \/ disconnect \/ ResetStub \/ SetDisconnected \/ Destroy \/ Destroyed

-----------------------------------------------------------------------------
(* Calls.  (Those that send, receive or list leave the client as it is.)   *)

Call ==
  /\ Idle /\ connected_
  /\ \/ todo' = <<<<"call">>>>
     \/ ids < MaxIds /\ todo' = <<<<"register">>>>
     \/ \E id \in 1..ids : todo' = StopHeartbeat \o <<<<"unregister", id>>>>
  /\ UNCHANGED <<flags, connection_retry_count_, stub_, current_agent_id_, objects,
                 hb, rt, torn, ids, fate, unregistered>>

CallReturns ==
  /\ At(<<"call">>)
  /\ Done
  /\ torn' = torn \ {"app"}
  /\ UNCHANGED <<flags, connection_retry_count_, stub_, current_agent_id_, objects,
                 hb, rt, ids, fate, unregistered>>

\* std::thread's assignment to a thread object that is joinable terminates.
startHeartbeat ==
  IF heartbeat_running THEN UNCHANGED <<heartbeat_running, heartbeat_thread_, hb, fate>>
  ELSE /\ heartbeat_running' = TRUE
       /\ IF heartbeat_thread_ THEN fate' = "terminated" /\ UNCHANGED <<heartbeat_thread_, hb>>
          ELSE heartbeat_thread_' = TRUE /\ hb' = "testing" /\ UNCHANGED fate

\* registerAgent: the answer may be lost or an error.  An id that replaces
\* another is written under the heartbeat that reads it.
Registered ==
  /\ At(<<"register">>)
  /\ Done
  /\ \/ /\ ids' = ids + 1
        /\ current_agent_id_' = ids + 1
        /\ torn' = (torn \ {"app"}) \cup {t \in {"hb"} : hb \in {"checking", "beating"}}
        /\ startHeartbeat
     \/ /\ ids' \in {ids, ids + 1}
        /\ torn' = torn \ {"app"}
        /\ UNCHANGED <<current_agent_id_, heartbeat_running, heartbeat_thread_, hb, fate>>
  /\ UNCHANGED <<connected_, real_time_running_, connection_retry_count_, stub_,
                 real_time_thread_, real_time_stream_, rt, unregistered>>

\* unregisterAgent, once the heartbeat has stopped.
Unregistered ==
  /\ \E id \in 1..ids :
       /\ At(<<"unregister", id>>)
       /\ unregistered' \in {unregistered, unregistered \cup {id}}
  /\ Done
  /\ torn' = torn \ {"app"}
  /\ UNCHANGED <<flags, connection_retry_count_, stub_, current_agent_id_, objects,
                 hb, rt, ids, fate>>

ClearHeartbeatRunning ==
  /\ At(<<"stop heartbeat">>)
  /\ heartbeat_running' = FALSE
  /\ IF heartbeat_running THEN Done ELSE Skip(2)
  /\ UNCHANGED <<connected_, real_time_running_, connection_retry_count_, stub_,
                 current_agent_id_, objects, hb, rt, torn, ids, fate, unregistered>>

\* Mutant: the thread is detached, not joined.
JoinHeartbeat_Detaches ==
  /\ At(<<"join heartbeat">>)
  /\ heartbeat_thread_' = FALSE
  /\ Done
  /\ UNCHANGED <<flags, connection_retry_count_, stub_, current_agent_id_,
                 real_time_thread_, real_time_stream_, hb, rt, torn, ids, fate, unregistered>>

JoinHeartbeat ==
  /\ At(<<"join heartbeat">>)
  /\ heartbeat_thread_ => hb = "exited"
  /\ heartbeat_thread_' = FALSE
  /\ hb' = "none"
  /\ Done
  /\ UNCHANGED <<flags, connection_retry_count_, stub_, current_agent_id_,
                 real_time_thread_, real_time_stream_, rt, torn, ids, fate, unregistered>>

Calls ==
  Call \/ CallReturns \/ Registered \/ Unregistered \/ ClearHeartbeatRunning \/ JoinHeartbeat

-----------------------------------------------------------------------------
(* Real-time communication                                                 *)

\* It is the one method that does not ask whether the client is connected: a
\* session started with no stub is "unready".
startRealTimeCommunication ==
  /\ Idle /\ ~real_time_running_
  /\ real_time_running_' = TRUE
  /\ IF real_time_thread_ THEN fate' = "terminated" /\ UNCHANGED <<real_time_thread_, rt>>
     ELSE /\ real_time_thread_' = TRUE
          /\ rt' = IF stub_ THEN "opening" ELSE "unready"
          /\ UNCHANGED fate
  /\ UNCHANGED <<connected_, heartbeat_running, connection_retry_count_, stub_,
                 current_agent_id_, heartbeat_thread_, real_time_stream_, todo, hb, torn,
                 ids, unregistered>>

stopRealTimeCommunication ==
  /\ Idle
  /\ todo' = StopRealTime
  /\ UNCHANGED <<flags, connection_retry_count_, stub_, current_agent_id_, objects,
                 hb, rt, torn, ids, fate, unregistered>>

ClearRealTimeRunning ==
  /\ At(<<"stop real time">>)
  /\ real_time_running_' = FALSE
  /\ IF real_time_running_ THEN Done ELSE Skip(3)
  /\ UNCHANGED <<connected_, heartbeat_running, connection_retry_count_, stub_,
                 current_agent_id_, objects, hb, rt, torn, ids, fate, unregistered>>

\* The stream may be that of a session whose thread, and with it the context
\* the stream refers to, is gone.
WritesDone ==
  /\ At(<<"writes done">>)
  /\ real_time_stream_' = IF real_time_stream_ = "open" THEN "half" ELSE real_time_stream_
  /\ torn' = IF real_time_stream_ = "ended" /\ rt \in {"unready", "opening", "exited"}
             THEN torn \cup {"app"} ELSE torn
  /\ Done
  /\ UNCHANGED <<flags, connection_retry_count_, stub_, current_agent_id_,
                 heartbeat_thread_, real_time_thread_, hb, rt, ids, fate, unregistered>>

JoinRealTime ==
  /\ At(<<"join real time">>)
  /\ real_time_thread_ => rt = "exited"
  /\ real_time_thread_' = FALSE
  /\ rt' = "none"
  /\ torn' = torn \ {"app"}
  /\ Done
  /\ UNCHANGED <<flags, connection_retry_count_, stub_, current_agent_id_,
                 heartbeat_thread_, real_time_stream_, hb, ids, fate, unregistered>>

rtOnly == <<flags, connection_retry_count_, stub_, current_agent_id_,
            heartbeat_thread_, real_time_thread_, todo, hb, ids, fate, unregistered>>

OpenStream ==
  /\ rt \in {"unready", "opening"} /\ stub_
  /\ rt' = "testing"
  /\ real_time_stream_' = "open"
  /\ torn' = torn \ {"rt"}
  /\ UNCHANGED rtOnly

\* The loop takes it for granted that there is a stub.
NoStub ==
  /\ rt \in {"unready", "opening"} /\ ~stub_
  /\ fate' = "crashed"
  /\ UNCHANGED <<flags, connection_retry_count_, stub_, current_agent_id_, objects,
                 todo, hb, rt, torn, ids, unregistered>>

\* while (real_time_running_ && Read): the server only writes back what the
\* client sends, and the client sends nothing.
TestRealTime ==
  /\ rt = "testing"
  /\ rt' = IF real_time_running_ THEN "reading" ELSE "finishing"
  /\ UNCHANGED <<rtOnly, torn, real_time_stream_>>

ReadStream ==
  /\ rt = "reading" /\ real_time_stream_ = "ended"
  /\ rt' = "finishing"
  /\ UNCHANGED <<rtOnly, torn, real_time_stream_>>

\* Finish waits for the server's status.
FinishStream ==
  /\ rt = "finishing" /\ real_time_stream_ = "ended"
  /\ rt' = "exited"
  /\ UNCHANGED <<rtOnly, torn, real_time_stream_>>

realTimeCommuncationLoop ==
  OpenStream \/ NoStub \/ TestRealTime \/ ReadStream \/ FinishStream

\* The server ends the stream once the client has, or the connection breaks.
StreamEnds ==
  /\ real_time_stream_ \in {"open", "half"}
  /\ real_time_stream_' = "ended"
  /\ UNCHANGED <<rtOnly, torn, rt>>

RealTime ==
  \/ startRealTimeCommunication \/ stopRealTimeCommunication
  \/ ClearRealTimeRunning \/ WritesDone \/ JoinRealTime
  \/ realTimeCommuncationLoop \/ StreamEnds

-----------------------------------------------------------------------------
(* heartbeatLoop                                                           *)

hbOnly == <<real_time_running_, current_agent_id_, objects, todo, rt, ids, fate, unregistered>>

\* Mutant: the loop does not look at the flag.
TestHeartbeat_Forever ==
  /\ hb = "testing"
  /\ hb' = "checking"
  /\ UNCHANGED <<hbOnly, connected_, heartbeat_running, connection_retry_count_, stub_, torn>>

TestHeartbeat ==
  /\ hb = "testing"
  /\ hb' = IF heartbeat_running THEN "checking" ELSE "exited"
  /\ UNCHANGED <<hbOnly, connected_, heartbeat_running, connection_retry_count_, stub_, torn>>

CheckHeartbeat ==
  /\ hb = "checking"
  /\ hb' = IF connected_ /\ current_agent_id_ # 0 THEN "beating" ELSE "testing"
  /\ UNCHANGED <<hbOnly, connected_, heartbeat_running, connection_retry_count_, stub_, torn>>

\* sendHeartbeat, with a deadline of 10 s.
sendHeartbeat ==
  /\ hb = "beating"
  /\ hb' \in {"testing", "failed"}
  /\ torn' = torn \ {"hb"}
  /\ UNCHANGED <<hbOnly, connected_, heartbeat_running, connection_retry_count_, stub_>>

HeartbeatFailed ==
  /\ hb = "failed"
  /\ connected_' = FALSE
  /\ hb' = "reconnecting"
  /\ UNCHANGED <<hbOnly, heartbeat_running, connection_retry_count_, stub_, torn>>

\* Mutant: a heartbeat that gives up clears its flag.
ReconnectFails_ClearsRunning ==
  /\ hb = "reconnecting"
  /\ connection_retry_count_' = connection_retry_count_ + 1
  /\ heartbeat_running' = FALSE
  /\ hb' = "exited"
  /\ UNCHANGED <<hbOnly, connected_, stub_, torn>>

\* reconnect gives up, at once or after one attempt; the thread ends and
\* leaves heartbeat_running as it is.
ReconnectFails ==
  /\ hb = "reconnecting"
  /\ connection_retry_count_' =
       IF connection_retry_count_ >= MAX_RETRY_COUNT THEN connection_retry_count_
       ELSE connection_retry_count_ + 1
  /\ hb' = "exited"
  /\ UNCHANGED <<hbOnly, connected_, heartbeat_running, stub_, torn>>

Reconnect ==
  /\ hb = "reconnecting" /\ connection_retry_count_ < MAX_RETRY_COUNT
  /\ setupChannel
  /\ hb' = "restoring"
  /\ UNCHANGED <<hbOnly, connected_, heartbeat_running, connection_retry_count_>>

Restore ==
  /\ hb = "restoring"
  /\ connected_' = TRUE
  /\ connection_retry_count_' = 0
  /\ hb' = "testing"
  /\ UNCHANGED <<hbOnly, heartbeat_running, stub_, torn>>

heartbeatLoop ==
  \/ TestHeartbeat \/ CheckHeartbeat \/ sendHeartbeat
  \/ HeartbeatFailed \/ ReconnectFails \/ Reconnect \/ Restore

-----------------------------------------------------------------------------
\* A thread whose object was replaced may crash, or go on as if it were not.
Crash ==
  /\ torn # {}
  /\ fate' = "crashed"
  /\ UNCHANGED <<flags, connection_retry_count_, stub_, current_agent_id_, objects,
                 todo, hb, rt, torn, ids, unregistered>>

Next ==
  /\ fate = "alive"
  /\ Connection \/ Calls \/ RealTime \/ heartbeatLoop \/ Crash

Spec == Init /\ [][Next]_vars

\* The heartbeat thread is scheduled, and its calls have deadlines; so is the
\* application's, which may call but need not.
FairSpec ==
  /\ Spec
  /\ WF_vars(fate = "alive" /\ heartbeatLoop)
  /\ WF_vars(fate = "alive" /\ ~Idle /\ (Connection \/ Calls))

-----------------------------------------------------------------------------
(* Properties                                                              *)

Steps ==
  {<<s>> : s \in {"connected", "call", "register", "stop heartbeat", "join heartbeat",
                  "stop real time", "writes done", "join real time", "reset stub",
                  "disconnected", "destroyed"}}
    \cup ({"unregister"} \X (1..MaxIds))

\* The types, and that a thread object is joinable as long as its thread is.
TypeOK ==
  /\ connected_ \in BOOLEAN /\ heartbeat_running \in BOOLEAN /\ real_time_running_ \in BOOLEAN
  /\ connection_retry_count_ \in 0..MAX_RETRY_COUNT
  /\ stub_ \in BOOLEAN /\ current_agent_id_ \in 0..ids
  /\ real_time_stream_ \in {"null", "open", "half", "ended"}
  /\ todo \in Seq(Steps)
  /\ hb \in HeartbeatLocations /\ rt \in RealTimeLocations
  /\ heartbeat_thread_ = (hb # "none") /\ real_time_thread_ = (rt # "none")
  /\ torn \subseteq {"app", "hb", "rt"}
  /\ ids \in 0..MaxIds
  /\ fate \in {"alive", "crashed", "terminated", "destroyed"}
  /\ unregistered \subseteq 1..ids

\* No order of registering, unregistering, connecting, losing the connection
\* and destroying the client assigns or destroys a joinable std::thread.
NeverTerminated == TypeOK /\ fate # "terminated"

\* Whoever calls through stub_ finds one, although the heartbeat reconnects on
\* its own and disconnect resets the stubs: it stops the threads first.  Only
\* a real-time session that was started without a stub, which
\* startRealTimeCommunication does not test, may find none.
StubExists == ~stub_ => Callers \subseteq {"rt"} /\ rt # "opening"

\* Once unregisterAgent has taken an id back from the server the client sends
\* no more heartbeats for it: it waits for the thread before it asks.
NoLateHeartbeat == hb = "beating" => current_agent_id_ \notin unregistered

\* stopHeartbeat waits for the thread, and the thread ends, even when it is
\* in the middle of a heartbeat or of reconnecting.
StopHeartbeatReturns == At(<<"join heartbeat">>) ~> ~At(<<"join heartbeat">>) \/ fate # "alive"

=============================================================================
