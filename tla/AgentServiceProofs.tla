------------------------- MODULE AgentServiceProofs -------------------------
(***************************************************************************)
(* The hub, for any number of handler threads and agents: its state is     *)
(* well typed, its two maps agree, no iterator dangles, it implements the  *)
(* mailboxes of Mailbox, and each accepted copy is in exactly one place.   *)
(***************************************************************************)
EXTENDS AgentService, FiniteSetTheorems, TLAPS

-----------------------------------------------------------------------------
(* Types.                                                                  *)

\* A handler that serves a request is left well typed.
LEMMA ServeType ==
  ASSUME TypeOK, NEW t \in Handlers, NEW l \in Locations, NEW r \in Request,
         Serve(t, l, r)
  PROVE  pc' \in [Handlers -> Locations] /\ req' \in [Handlers -> Request]
BY DEF TypeOK, Serve

\* The requests that the actions build.
LEMMA RequestType ==
  /\ NoRequest \in Request
  /\ \A a \in AgentId : [NoRequest EXCEPT !.agent = a] \in Request
  /\ \A a \in AgentId, n \in MsgId : [NoRequest EXCEPT !.agent = a, !.id = n] \in Request
  /\ \A n \in MsgId : [NoRequest EXCEPT !.id = n] \in Request
  /\ \A n \in MsgId, list \in Audiences :
       [NoRequest EXCEPT !.id = n, !.targets = list] \in Request
  /\ \A a \in AgentId, q \in Nat, w \in Ages :
       [NoRequest EXCEPT !.agent = a, !.left = q, !.wait = w] \in Request
  /\ \A r \in Request : [r EXCEPT !.age = 0] \in Request
  /\ \A r \in Request : r.left > 0 => [r EXCEPT !.left = @ - 1, !.age = 0] \in Request
<1>1. 0 \in Ages /\ AgentId \subseteq 0..MaxId
  BY BoundsAssumption DEF BoundsAssumption, Ages, AgentId
<1>2. 0 \in 0..MaxId
  BY BoundsAssumption DEF BoundsAssumption
<1>3. \A r \in Request : r.left > 0 => r.left - 1 \in Nat
  BY DEF Request
<1> QED
  BY <1>1, <1>2, <1>3 DEF NoRequest, Request

\* The counter yields ids of its range.
LEMMA NewIdType ==
  ASSUME message_id_counter_ \in 0..MaxId, generateMessageId
  PROVE  /\ NewId \in MsgId /\ NewId \in AgentId
         /\ message_id_counter_' = NewId
         /\ message_id_counter_' \in 0..MaxId
<1>1. MaxId \in Nat
  BY BoundsAssumption DEF BoundsAssumption
<1> QED BY <1>1 DEF generateMessageId, NewId, MsgId, AgentId

\* The lists of targets that calls push for, and how often they name an agent.
Lists == {list \in Seq(Nat) : Len(list) <= MaxCopies}

LEMMA ListsOfCalls ==
  ASSUME TypeOK, NEW t \in Handlers
  PROVE  <<>> \in Lists /\ <<req[t].agent>> \in Lists /\ req[t].targets \in Lists
<1>1. /\ MaxCopies \in Nat \ {0} /\ MaxId \in Nat /\ AgentId \subseteq Nat
      /\ Audiences \subseteq Seq(AgentId) /\ \A list \in Audiences : Len(list) <= MaxCopies
  BY BoundsAssumption DEF BoundsAssumption, AgentId
<1>2. <<>> \in Lists
  BY <1>1 DEF Lists
<1>3. req[t] \in Request
  BY DEF TypeOK
<1>4. req[t].agent \in Nat
  BY <1>1, <1>3 DEF Request
<1>5. <<req[t].agent>> \in Lists
  BY <1>1, <1>4 DEF Lists
<1>6. ASSUME NEW list \in Audiences PROVE list \in Lists
  <2>1. list \in Seq(AgentId) /\ Len(list) <= MaxCopies
    BY <1>1
  <2>2. list \in Seq(Nat)
    <3>1. Len(list) \in Nat /\ DOMAIN list = 1..Len(list) /\ \A i \in 1..Len(list) : list[i] \in AgentId
      BY <2>1
    <3>2. list = [i \in 1..Len(list) |-> list[i]]
      BY <2>1
    <3>3. \A i \in 1..Len(list) : list[i] \in Nat
      BY <1>1, <3>1
    <3> QED BY <3>1, <3>2, <3>3
  <2> QED BY <2>1, <2>2 DEF Lists
<1>7. req[t].targets \in Audiences \cup {<<>>}
  BY <1>3 DEF Request
<1> QED BY <1>2, <1>5, <1>6, <1>7

LEMMA TimesRange ==
  ASSUME NEW list \in Lists, NEW a
  PROVE  Times(list, a) \in 0..MaxCopies
<1>1. MaxCopies \in Nat \ {0} /\ list \in Seq(Nat) /\ Len(list) <= MaxCopies
  BY BoundsAssumption DEF BoundsAssumption, Lists
<1>2. CASE list = <<>>
  BY <1>1, <1>2 DEF Times
<1>3. CASE list # <<>>
  <2> DEFINE I == {i \in DOMAIN list : list[i] = a}
  <2>1. Len(list) \in Nat /\ I \subseteq 1..Len(list)
    BY <1>1
  <2>2. Times(list, a) = Cardinality(I)
    BY <1>3 DEF Times
  <2> HIDE DEF I
  <2>3. IsFiniteSet(1..Len(list)) /\ Cardinality(1..Len(list)) = Len(list)
    BY <2>1, FS_Interval
  <2>4. IsFiniteSet(I) /\ Cardinality(I) <= Len(list)
    BY <2>1, <2>3, FS_Subset
  <2>5. Cardinality(I) \in Nat
    BY <2>4, FS_CardinalityType
  <2> QED BY <1>1, <2>1, <2>2, <2>4, <2>5
<1> QED BY <1>2, <1>3

\* The copies of a message that one push leaves in one queue.
LEMMA CopiesType ==
  ASSUME NEW m \in MsgId, NEW n \in 0..MaxCopies
  PROVE  /\ CopiesOf(m, n) \in Seq(Copy) /\ Len(CopiesOf(m, n)) = n
         /\ \A k \in 1..n : CopiesOf(m, n)[k] = <<m, k>> /\ <<m, k>> \in Copy
<1>1. n \in Nat /\ MaxCopies \in Nat /\ 1..n \subseteq 1..MaxCopies
  BY BoundsAssumption DEF BoundsAssumption
<1>2. \A k \in 1..n : <<m, k>> \in Copy
  BY <1>1 DEF Copy
<1> QED BY <1>1, <1>2 DEF CopiesOf

\* The deliveries that a push accepts.
Posted(list, m) == UNION {{a} \X {<<m, k>> : k \in 1..Times(list, a)} : a \in DOMAIN queues}

LEMMA PostedIs ==
  ASSUME NEW list, NEW m
  PROVE  \A x : x \in Posted(list, m) <=>
                  \E a \in DOMAIN queues : \E k \in 1..Times(list, a) : x = <<a, <<m, k>>>>
BY DEF Posted

\* Push and Pop keep the queues and the histories well typed.
LEMMA PushType ==
  ASSUME TypeOK, NEW list \in Lists, NEW m \in MsgId, Push(list, m)
  PROVE  /\ queues' \in [DOMAIN queues' -> Seq(Copy)]
         /\ DOMAIN queues' \subseteq AgentId
         /\ accepted' \subseteq AgentId \X Copy
<1>1. /\ queues' = [a \in DOMAIN queues |-> queues[a] \o CopiesOf(m, Times(list, a))]
      /\ accepted' = accepted \cup Posted(list, m)
  BY DEF Push, Posted
<1>2. \A a : /\ CopiesOf(m, Times(list, a)) \in Seq(Copy)
             /\ \A k \in 1..Times(list, a) : <<m, k>> \in Copy
  BY TimesRange, CopiesType
<1>3. \A a \in DOMAIN queues : queues[a] \o CopiesOf(m, Times(list, a)) \in Seq(Copy)
  <2> SUFFICES ASSUME NEW a \in DOMAIN queues
               PROVE  queues[a] \o CopiesOf(m, Times(list, a)) \in Seq(Copy)
    OBVIOUS
  <2>1. queues[a] \in Seq(Copy) /\ CopiesOf(m, Times(list, a)) \in Seq(Copy)
    BY <1>2 DEF TypeOK
  <2> QED BY <2>1
<1>4. queues' \in [DOMAIN queues' -> Seq(Copy)] /\ DOMAIN queues' \subseteq AgentId
  BY <1>1, <1>3 DEF TypeOK
<1>5. \A x \in Posted(list, m) : x \in AgentId \X Copy
  BY <1>2, PostedIs DEF TypeOK
<1> QED BY <1>1, <1>4, <1>5 DEF TypeOK

LEMMA PopType ==
  ASSUME TypeOK, NEW t \in Handlers, NEW a \in DOMAIN queues, Pop(t, a)
  PROVE  /\ queues' \in [DOMAIN queues' -> Seq(Copy)]
         /\ DOMAIN queues' \subseteq AgentId
         /\ held' \in [Handlers -> Seq(Copy)]
BY DEF TypeOK, Pop

LEMMA LeaveType ==
  ASSUME TypeOK, NEW S \in SUBSET Nat, unregisterAgent(S)
  PROVE  /\ agents' \in [DOMAIN agents' -> Ages]
         /\ DOMAIN agents' \subseteq AgentId
         /\ queues' \in [DOMAIN queues' -> Seq(Copy)]
         /\ DOMAIN queues' \subseteq AgentId
         /\ dropped' \subseteq AgentId \X Copy
BY DEF TypeOK, unregisterAgent, Pending

-----------------------------------------------------------------------------
(* The inductive invariant.  TypeOK is not inductive by itself: what a     *)
(* handler pushes, hands out or registers is well typed only because of    *)
(* the request it serves at that point, and the queue it uses exists only  *)
(* because it holds the mutex.                                             *)

\* At each point of a call the fields the rest of the call uses are there.
CallsWellFormed ==
  \A t \in Handlers :
    /\ pc[t] \in {"receive", "respond", "listen", "register"} \cup Inside
         => req[t].agent \in AgentId
    /\ pc[t] \in {"send", "batchSend", "broadcast", "chatSend"} => req[t].id \in MsgId
    /\ pc[t] = "writing" => held[t] # <<>>

\* Ids of agents come from the counter, and each is registered at most once.
FreshIds ==
  /\ DOMAIN queues \subseteq joined
  /\ \A a \in joined : a <= message_id_counter_
  /\ \A t \in Handlers : pc[t] = "register" =>
       /\ req[t].agent <= message_id_counter_
       /\ req[t].agent \notin joined
  /\ \A t, s \in Handlers : pc[t] = "register" /\ pc[s] = "register" /\ t # s
       => req[t].agent # req[s].agent

IInv == TypeOK /\ CallsWellFormed /\ OneQueuePerAgent /\ IteratorStaysValid /\ FreshIds

LEMMA InitIInv == Init => IInv
<1> SUFFICES ASSUME Init PROVE IInv
  OBVIOUS
<1> USE DEF Init
<1>1. TypeOK
  <2>1. DOMAIN agents = {} /\ DOMAIN queues = {}
    OBVIOUS
  <2>2. agents \in [DOMAIN agents -> Ages] /\ queues \in [DOMAIN queues -> Seq(Copy)]
    BY <2>1
  <2>3. message_id_counter_ \in 0..MaxId
    BY BoundsAssumption DEF BoundsAssumption
  <2>4. pc \in [Handlers -> Locations] /\ held \in [Handlers -> Seq(Copy)]
    BY DEF Locations
  <2>5. req \in [Handlers -> Request]
    BY RequestType
  <2> QED
    BY <2>1, <2>2, <2>3, <2>4, <2>5 DEF TypeOK
<1>2. CallsWellFormed /\ IteratorStaysValid
  BY DEF CallsWellFormed, IteratorStaysValid, Inside
<1>3. OneQueuePerAgent /\ FreshIds
  BY DEF OneQueuePerAgent, FreshIds
<1> QED BY <1>1, <1>2, <1>3 DEF IInv

\* A call goes on at a place that needs no mutex, and no map changes.
LEMMA MoveKeeps ==
  ASSUME IInv, NEW t \in Handlers, NEW l \in Locations, NEW r \in Request,
         Serve(t, l, r),
         l \notin Inside \cup {"register"},
         l \in {"receive", "respond", "listen"} => r.agent \in AgentId,
         l \in {"send", "batchSend", "broadcast", "chatSend"} => r.id \in MsgId,
         UNCHANGED <<maps, sweep, held, cancelled, history>>,
         owner' \in Handlers \cup {Free},
         pc[t] \in Inside \/ owner' = owner,
         spoken' \subseteq ClientIds,
         message_id_counter_' \in {message_id_counter_, NewId},
         message_id_counter_' \in 0..MaxId
  PROVE  IInv'
<1> USE DEF IInv, maps, history
<1>1. TypeOK'
  BY ServeType DEF TypeOK
<1>2. CallsWellFormed'
  BY DEF Serve, TypeOK, CallsWellFormed, Inside
<1>3. OneQueuePerAgent'
  BY DEF OneQueuePerAgent
<1>4. IteratorStaysValid'
  <2> SUFFICES ASSUME NEW s \in Handlers, pc'[s] \in Inside
               PROVE  owner' = s /\ req'[s].agent \in DOMAIN queues'
    BY DEF IteratorStaysValid
  <2>1. s # t /\ pc'[s] = pc[s] /\ req'[s] = req[s]
    BY DEF Serve, TypeOK
  <2>2. owner = s /\ req[s].agent \in DOMAIN queues
    BY <2>1 DEF IteratorStaysValid
  <2>3. owner' = owner
    BY <2>1, <2>2 DEF IteratorStaysValid
  <2> QED BY <2>1, <2>2, <2>3
<1>5. FreshIds'
  <2>1. \A s \in Handlers : pc'[s] = "register" => pc[s] = "register" /\ req'[s] = req[s]
    BY DEF Serve, TypeOK
  <2>2. \A a \in Nat : a <= message_id_counter_ => a <= message_id_counter_'
    BY DEF TypeOK, NewId
  <2>3. AgentId \subseteq Nat
    BY BoundsAssumption DEF BoundsAssumption, AgentId
  <2>4. \A s \in Handlers : pc[s] = "register" => req[s].agent \in AgentId
    BY DEF CallsWellFormed
  <2> QED BY <2>1, <2>2, <2>3, <2>4 DEF FreshIds, TypeOK
<1> QED BY <1>1, <1>2, <1>3, <1>4, <1>5

-----------------------------------------------------------------------------
(* The steps that start a call, read from a stream or leave the mutex.     *)

LEMMA CallKeeps ==
  ASSUME IInv, NEW t \in Handlers, Call(t), ~ RegisterAgent(t)
  PROVE  IInv'
<1> USE DEF IInv
<1>1. Named \subseteq AgentId /\ Quotas \subseteq Nat /\ Waits \subseteq Ages
      /\ Audiences \subseteq Seq(AgentId)
  BY BoundsAssumption DEF BoundsAssumption
<1>2. ASSUME generateMessageId
      PROVE  NewId \in MsgId /\ message_id_counter_' = NewId /\ message_id_counter_' \in 0..MaxId
  BY <1>2, NewIdType DEF TypeOK
<1>3. message_id_counter_ \in 0..MaxId /\ owner \in Handlers \cup {Free} /\ spoken \subseteq ClientIds
  BY DEF TypeOK
<1>4. ASSUME NEW a \in Named, SendMessage(t, a) PROVE IInv'
  <2>1. [NoRequest EXCEPT !.agent = a, !.id = NewId] \in Request
        /\ [NoRequest EXCEPT !.agent = a, !.id = NewId].id = NewId
    BY <1>1, <1>2, <1>4, RequestType DEF SendMessage, NoRequest
  <2> QED BY <1>2, <1>3, <1>4, <2>1, MoveKeeps DEF SendMessage, Locations, Inside
<1>5. ASSUME NEW a \in Named, ListenMessages(t, a) \/ UnregisterAgent(t, a) \/ Heartbeat(t, a)
      PROVE  IInv'
  <2>1. [NoRequest EXCEPT !.agent = a] \in Request
        /\ [NoRequest EXCEPT !.agent = a].agent \in AgentId
    BY <1>1, RequestType DEF NoRequest
  <2> QED BY <1>3, <1>5, <2>1, MoveKeeps
          DEF ListenMessages, UnregisterAgent, Heartbeat, Locations, Inside
<1>6. ASSUME NEW a \in Named, NEW q \in Quotas, NEW w \in Waits, ReceiveMessage(t, a, q, w)
      PROVE  IInv'
  <2>1. [NoRequest EXCEPT !.agent = a, !.left = q, !.wait = w] \in Request
        /\ [NoRequest EXCEPT !.agent = a, !.left = q, !.wait = w].agent \in AgentId
    BY <1>1, RequestType DEF NoRequest
  <2> QED BY <1>3, <1>6, <2>1, MoveKeeps DEF ReceiveMessage, Locations, Inside
<1>7. ASSUME NEW list \in Audiences, BroadcastMessage(t, list) PROVE IInv'
  <2>1. NewId \in MsgId
    BY <1>2, <1>7 DEF BroadcastMessage
  <2>2. [NoRequest EXCEPT !.id = NewId, !.targets = list] \in Request
        /\ [NoRequest EXCEPT !.id = NewId, !.targets = list].id = NewId
    BY <2>1, RequestType DEF NoRequest
  <2> QED BY <1>2, <1>3, <1>7, <2>1, <2>2, MoveKeeps DEF BroadcastMessage, Locations, Inside
<1>8. ASSUME BatchSendMessages(t) \/ RealTimeCommunication(t) PROVE IInv'
  BY <1>3, <1>8, RequestType, MoveKeeps DEF BatchSendMessages, RealTimeCommunication, Locations, Inside
<1> QED BY <1>4, <1>5, <1>6, <1>7, <1>8 DEF Call

LEMMA RegisterAgentKeeps ==
  ASSUME IInv, NEW t \in Handlers, RegisterAgent(t)
  PROVE  IInv'
<1> DEFINE r == [NoRequest EXCEPT !.agent = NewId]
<1> USE DEF IInv
<1>1. NewId \in AgentId /\ NewId \in 0..MaxId /\ message_id_counter_' = NewId
      /\ r \in Request /\ r.agent = NewId
  <2>1. NewId \in AgentId /\ NewId \in 0..MaxId /\ message_id_counter_' = NewId
    BY NewIdType DEF RegisterAgent, TypeOK
  <2> QED BY <2>1, RequestType DEF NoRequest
<1>2. /\ Serve(t, "register", r)
      /\ pc[t] = "idle"
      /\ UNCHANGED <<agents, queues, owner, sweep, held, cancelled, spoken,
                     accepted, delivered, lost, dropped, joined>>
  BY DEF RegisterAgent, maps, history
<1>3. TypeOK'
  BY <1>1, <1>2, ServeType DEF TypeOK, Locations
<1>4. CallsWellFormed'
  BY <1>1, <1>2 DEF Serve, TypeOK, CallsWellFormed, Inside
<1>5. OneQueuePerAgent' /\ IteratorStaysValid'
  BY <1>2 DEF OneQueuePerAgent, IteratorStaysValid, Serve, TypeOK, Inside
<1>6. FreshIds'
  <2>1. \A a \in AgentId : a <= message_id_counter_ => a <= NewId /\ a # NewId
    BY BoundsAssumption DEF BoundsAssumption, AgentId, TypeOK, NewId
  <2>2. NewId \notin joined /\ NewId <= NewId
    BY <1>1, <2>1, BoundsAssumption DEF FreshIds, TypeOK, AgentId, BoundsAssumption
  <2>3. \A s \in Handlers : pc[s] = "register" => req[s].agent \in AgentId
    BY DEF CallsWellFormed
  <2>4. pc'[t] = "register" /\ req'[t].agent = NewId
        /\ \A s \in Handlers \ {t} : pc'[s] = pc[s] /\ req'[s] = req[s]
    BY <1>1, <1>2 DEF Serve, TypeOK
  <2>5. DOMAIN queues \subseteq joined /\ \A a \in joined : a \in AgentId /\ a <= message_id_counter_
    BY DEF FreshIds, TypeOK
  <2>6. \A a \in joined' : a <= message_id_counter_'
    BY <1>1, <1>2, <2>1, <2>5
  <2>7. ASSUME NEW s \in Handlers, pc'[s] = "register"
        PROVE  req'[s].agent <= message_id_counter_' /\ req'[s].agent \notin joined'
    <3>1. CASE s = t
      BY <3>1, <1>1, <1>2, <2>2, <2>4
    <3>2. CASE s # t
      <4>1. pc[s] = "register" /\ req'[s] = req[s]
        BY <3>2, <2>4, <2>7
      <4>2. req[s].agent \in AgentId /\ req[s].agent <= message_id_counter_
            /\ req[s].agent \notin joined
        BY <4>1, <2>3 DEF FreshIds
      <4> QED BY <4>1, <4>2, <1>1, <1>2, <2>1
    <3> QED BY <3>1, <3>2
  <2>8. ASSUME NEW s \in Handlers \ {t}, pc'[s] = "register"
        PROVE  req'[s].agent # NewId
    <3>1. pc[s] = "register" /\ req'[s] = req[s]
      BY <2>4, <2>8
    <3>2. req[s].agent \in AgentId /\ req[s].agent <= message_id_counter_
      BY <3>1, <2>3 DEF FreshIds
    <3> QED BY <3>1, <3>2, <2>1
  <2>9. ASSUME NEW s \in Handlers, NEW u \in Handlers, s # u,
               pc'[s] = "register", pc'[u] = "register"
        PROVE  req'[s].agent # req'[u].agent
    <3>1. CASE s = t \/ u = t
      BY <3>1, <2>4, <2>8, <2>9
    <3>2. CASE s # t /\ u # t
      BY <3>2, <2>4, <2>9 DEF FreshIds
    <3> QED BY <3>1, <3>2
  <2> QED BY <1>2, <2>5, <2>6, <2>7, <2>9 DEF FreshIds
<1> QED BY <1>3, <1>4, <1>5, <1>6

LEMMA ClientKeeps ==
  ASSUME IInv, NEW t \in Handlers, Client(t)
  PROVE  IInv'
<1> USE DEF IInv
<1>1. message_id_counter_ \in 0..MaxId /\ owner \in Handlers \cup {Free} /\ spoken \subseteq ClientIds
  BY DEF TypeOK
<1>2. ASSUME NEW a \in Named, BatchRead(t, a) PROVE IInv'
  <2>1. a \in AgentId /\ NewId \in MsgId
        /\ message_id_counter_' = NewId /\ message_id_counter_' \in 0..MaxId
    BY <1>1, <1>2, NewIdType, BoundsAssumption DEF BatchRead, BoundsAssumption
  <2>2. [NoRequest EXCEPT !.agent = a, !.id = NewId] \in Request
        /\ [NoRequest EXCEPT !.agent = a, !.id = NewId].id = NewId
    BY <2>1, RequestType DEF NoRequest
  <2> QED BY <1>1, <1>2, <2>1, <2>2, MoveKeeps DEF BatchRead, Locations, Inside
<1>3. ASSUME NEW m \in ClientIds, ChatRead(t, m) PROVE IInv'
  <2>1. [NoRequest EXCEPT !.id = m] \in Request
        /\ [NoRequest EXCEPT !.id = m].id = m /\ m \in MsgId
    BY RequestType DEF NoRequest, MsgId
  <2>2. spoken' \subseteq ClientIds
    BY <1>1, <1>3 DEF ChatRead
  <2> QED BY <1>1, <1>3, <2>1, <2>2, MoveKeeps DEF ChatRead, Locations, Inside
<1>4. ASSUME StreamEnd(t) PROVE IInv'
  BY <1>1, <1>4, RequestType, MoveKeeps DEF StreamEnd, Return, Locations, Inside
<1>5. ASSUME Cancel(t) PROVE IInv'
  BY <1>5 DEF Cancel, maps, history, TypeOK, CallsWellFormed, OneQueuePerAgent,
              IteratorStaysValid, FreshIds
<1> QED BY <1>2, <1>3, <1>4, <1>5 DEF Client

-----------------------------------------------------------------------------
(* The critical sections.                                                  *)

\* A free mutex means that no call is using a queue it found earlier.
LEMMA NobodyInside ==
  ASSUME IInv, owner = Free
  PROVE  \A s \in Handlers : pc[s] \notin Inside
BY BoundsAssumption DEF BoundsAssumption, IInv, IteratorStaysValid

LEMMA PushKeeps ==
  ASSUME IInv, NEW t \in Handlers, owner = Free, pc[t] # "register",
         NEW list \in Lists, NEW m \in MsgId, Push(list, m),
         NEW l \in {"idle", "batch", "chat"}, Serve(t, l, NoRequest),
         UNCHANGED <<agents, owner, message_id_counter_, sweep, held, cancelled, spoken,
                     delivered, lost, dropped, joined>>
  PROVE  IInv'
<1> USE DEF IInv
<1>1. TypeOK'
  BY PushType, ServeType, RequestType DEF TypeOK, Locations
<1>2. DOMAIN queues' = DOMAIN queues
  BY DEF Push
<1>3. CallsWellFormed'
  BY DEF CallsWellFormed, Serve, TypeOK, Inside
<1>4. OneQueuePerAgent'
  BY <1>2 DEF OneQueuePerAgent
<1>5. IteratorStaysValid'
  BY NobodyInside DEF IteratorStaysValid, Serve, TypeOK, Inside
<1>6. FreshIds'
  BY <1>2 DEF FreshIds, Serve, TypeOK
<1> QED BY <1>1, <1>3, <1>4, <1>5, <1>6

LEMMA LeaveKeeps ==
  ASSUME IInv, owner = Free, NEW S \in SUBSET Nat, unregisterAgent(S), sweep' \in {0, 1},
         UNCHANGED <<pc, req>> \/ \E t \in Handlers : Return(t),
         UNCHANGED <<owner, message_id_counter_, held, cancelled, spoken,
                     accepted, delivered, lost, joined>>
  PROVE  IInv'
<1> USE DEF IInv
<1>1. pc' \in [Handlers -> Locations] /\ req' \in [Handlers -> Request]
  BY ServeType, RequestType DEF Return, Locations, TypeOK
<1>2. TypeOK'
  BY <1>1, LeaveType DEF TypeOK
<1>3. \A s \in Handlers : pc'[s] = "idle" \/ (pc'[s] = pc[s] /\ req'[s] = req[s])
  BY DEF Return, Serve, TypeOK
<1>4. CallsWellFormed'
  BY <1>3 DEF CallsWellFormed, Inside
<1>5. OneQueuePerAgent' /\ DOMAIN queues' \subseteq DOMAIN queues
  BY DEF OneQueuePerAgent, unregisterAgent
<1>6. IteratorStaysValid'
  BY <1>3, NobodyInside DEF IteratorStaysValid, Inside
<1>7. FreshIds'
  BY <1>3, <1>5 DEF FreshIds
<1> QED BY <1>2, <1>4, <1>5, <1>6, <1>7

LEMMA RegisterLockedKeeps ==
  ASSUME IInv, NEW t \in Handlers, RegisterLocked(t)
  PROVE  IInv'
<1> DEFINE a == req[t].agent
<1> USE DEF IInv
<1>1. /\ pc[t] = "register" /\ owner = Free
      /\ registerAgent(a, req[t].age)
      /\ Serve(t, "idle", NoRequest)
      /\ UNCHANGED <<owner, message_id_counter_, sweep, held, cancelled, spoken,
                     accepted, delivered, lost, dropped>>
  BY DEF RegisterLocked, Return
<1>2. a \in AgentId /\ req[t].age \in Ages
  BY <1>1 DEF CallsWellFormed, TypeOK, Request
<1>3. TypeOK'
  <2>1. agents' \in [DOMAIN agents' -> Ages] /\ DOMAIN agents' \subseteq AgentId
    BY <1>1, <1>2 DEF registerAgent, TypeOK
  <2>2. queues' \in [DOMAIN queues' -> Seq(Copy)] /\ DOMAIN queues' \subseteq AgentId
    BY <1>1, <1>2 DEF registerAgent, TypeOK
  <2> QED BY <1>1, <1>2, <2>1, <2>2, ServeType, RequestType DEF registerAgent, TypeOK, Locations
<1>4. \A s \in Handlers : pc'[s] = "idle" \/ (s # t /\ pc'[s] = pc[s] /\ req'[s] = req[s])
  BY <1>1 DEF Serve, TypeOK
<1>5. CallsWellFormed'
  BY <1>1, <1>4 DEF CallsWellFormed, Inside
<1>6. DOMAIN queues' = DOMAIN queues \cup {a} /\ DOMAIN agents' = DOMAIN agents \cup {a}
      /\ joined' = joined \cup {a}
  BY <1>1 DEF registerAgent
<1>7. OneQueuePerAgent' /\ IteratorStaysValid'
  BY <1>1, <1>4, <1>6, NobodyInside DEF OneQueuePerAgent, IteratorStaysValid, Inside
<1>8. FreshIds'
  BY <1>1, <1>4, <1>6 DEF FreshIds
<1> QED BY <1>3, <1>5, <1>7, <1>8

LEMMA LockedKeeps ==
  ASSUME IInv, NEW t \in Handlers, Locked(t)
  PROVE  IInv'
<1> USE DEF IInv
<1>1. req[t] \in Request /\ DOMAIN queues \subseteq AgentId
      /\ message_id_counter_ \in 0..MaxId /\ owner \in Handlers \cup {Free}
      /\ spoken \subseteq ClientIds /\ cancelled \subseteq Handlers
  BY DEF TypeOK
<1>2. {req[t].agent} \in SUBSET Nat
  BY <1>1, BoundsAssumption DEF Request, BoundsAssumption
<1>3. ASSUME SendLocked(t) \/ BatchLocked(t) PROVE IInv'
  <2>1. req[t].id \in MsgId
    BY <1>3 DEF SendLocked, BatchLocked, CallsWellFormed
  <2> QED BY <1>3, <2>1, ListsOfCalls, PushKeeps DEF SendLocked, BatchLocked, Return
<1>4. ASSUME BroadcastLocked(t) \/ ChatLocked(t) PROVE IInv'
  <2>1. req[t].id \in MsgId
    BY <1>4 DEF BroadcastLocked, ChatLocked, CallsWellFormed
  <2> QED BY <1>4, <2>1, ListsOfCalls, PushKeeps DEF BroadcastLocked, ChatLocked, Return
<1>5. ASSUME ReceiveLocked(t) PROVE IInv'
  <2>0. pc[t] = "receive" /\ owner = Free /\ req[t].agent \in AgentId
        /\ UNCHANGED <<maps, message_id_counter_, sweep, held, cancelled, history, spoken>>
    BY <1>5 DEF ReceiveLocked, CallsWellFormed
  <2>1. CASE req[t].agent \in DOMAIN queues
    <3> DEFINE r == [req[t] EXCEPT !.age = 0]
    <3>1. r \in Request /\ r.agent = req[t].agent
      BY <1>1, RequestType DEF Request
    <3>2. owner' = t /\ Serve(t, "popping", r)
      BY <2>1, <1>5 DEF ReceiveLocked
    <3> HIDE DEF r
    <3>3. TypeOK'
      BY <2>0, <3>1, <3>2, ServeType DEF TypeOK, Locations, maps, history
    <3>4. CallsWellFormed' /\ OneQueuePerAgent' /\ FreshIds'
      BY <2>0, <3>1, <3>2
         DEF CallsWellFormed, OneQueuePerAgent, FreshIds, Serve, TypeOK, Inside, maps, history
    <3>5. IteratorStaysValid'
      BY <2>0, <2>1, <3>1, <3>2, NobodyInside DEF IteratorStaysValid, Serve, TypeOK, maps
    <3> QED BY <3>3, <3>4, <3>5
  <2>2. CASE req[t].agent \notin DOMAIN queues
    BY <1>1, <2>0, <2>2, <1>5, MoveKeeps DEF ReceiveLocked, Locations, Inside
  <2> QED BY <2>1, <2>2
<1>6. ASSUME ListenLocked(t) PROVE IInv'
  <2>0. pc[t] = "listen" /\ owner = Free /\ req[t].agent \in AgentId
        /\ UNCHANGED <<maps, message_id_counter_, sweep, held, history, spoken>>
    BY <1>6 DEF ListenLocked, CallsWellFormed
  <2>1. CASE req[t].agent \in DOMAIN queues
    <3>1. owner' = t /\ Serve(t, "streaming", req[t]) /\ UNCHANGED cancelled
      BY <2>1, <1>6 DEF ListenLocked
    <3>2. TypeOK'
      BY <1>1, <2>0, <3>1, ServeType DEF TypeOK, Locations, maps, history
    <3>3. CallsWellFormed' /\ OneQueuePerAgent' /\ FreshIds'
      BY <2>0, <3>1
         DEF CallsWellFormed, OneQueuePerAgent, FreshIds, Serve, TypeOK, Inside, maps, history
    <3>4. IteratorStaysValid'
      BY <2>0, <2>1, <3>1, NobodyInside DEF IteratorStaysValid, Serve, TypeOK, maps
    <3> QED BY <3>2, <3>3, <3>4
  <2>2. CASE req[t].agent \notin DOMAIN queues
    <3>1. Serve(t, "idle", NoRequest) /\ cancelled' = cancelled \ {t} /\ UNCHANGED owner
      BY <2>2, <1>6 DEF ListenLocked, Return
    <3>2. TypeOK'
      BY <1>1, <2>0, <3>1, ServeType, RequestType DEF TypeOK, Locations, maps, history
    <3>3. CallsWellFormed' /\ OneQueuePerAgent' /\ FreshIds' /\ IteratorStaysValid'
      BY <2>0, <3>1, NobodyInside
         DEF CallsWellFormed, OneQueuePerAgent, FreshIds, IteratorStaysValid,
             Serve, TypeOK, Inside, maps, history
    <3> QED BY <3>2, <3>3
  <2> QED BY <2>1, <2>2
<1>7. ASSUME UnregisterLocked(t) PROVE IInv'
  BY <1>2, <1>7, LeaveKeeps DEF UnregisterLocked, TypeOK
<1>8. ASSUME HeartbeatLocked(t) PROVE IInv'
  <2>1. Serve(t, "idle", NoRequest) /\ pc[t] = "heartbeat" /\ owner = Free
        /\ UNCHANGED <<queues, owner, message_id_counter_, sweep, held, cancelled,
                       history, spoken>>
    BY <1>8 DEF HeartbeatLocked, Return
  <2>2. agents' \in [DOMAIN agents' -> Ages] /\ DOMAIN agents' = DOMAIN agents
    BY <1>8, BoundsAssumption
       DEF HeartbeatLocked, updateAgentHeartbeat, TypeOK, Ages, BoundsAssumption
  <2>3. TypeOK'
    BY <2>1, <2>2, ServeType, RequestType DEF TypeOK, Locations, history
  <2>4. CallsWellFormed' /\ OneQueuePerAgent' /\ FreshIds' /\ IteratorStaysValid'
    BY <2>1, <2>2, NobodyInside
       DEF CallsWellFormed, OneQueuePerAgent, FreshIds, IteratorStaysValid,
           Serve, TypeOK, Inside, history
  <2> QED BY <2>3, <2>4
<1> QED BY <1>3, <1>4, <1>5, <1>6, <1>7, <1>8, RegisterLockedKeeps DEF Locked

-----------------------------------------------------------------------------
(* The steps of a call that holds the mutex, and of one that has left it.  *)

LEMMA WorkKeeps ==
  ASSUME IInv, NEW t \in Handlers, Work(t)
  PROVE  IInv'
<1> USE DEF IInv
<1>1. req[t] \in Request /\ held[t] \in Seq(Copy) /\ owner \in Handlers \cup {Free}
      /\ message_id_counter_ \in 0..MaxId /\ spoken \subseteq ClientIds
      /\ cancelled \subseteq Handlers
  BY DEF TypeOK
<1>2. ASSUME pc[t] \in Inside
      PROVE  owner = t /\ req[t].agent \in DOMAIN queues /\ req[t].agent \in AgentId
  BY <1>2 DEF IteratorStaysValid, TypeOK
<1>3. ASSUME pc[t] \in Inside
      PROVE  \A s \in Handlers \ {t} : pc[s] \notin Inside
  BY <1>2, <1>3 DEF IteratorStaysValid
<1>4. ASSUME ReceivePop(t) \/ ListenPop(t) PROVE IInv'
  <2>1. PICK l \in {"popping", "writing"}, r \in Request :
          r.agent = req[t].agent /\ Serve(t, l, r)
    <3>1. CASE ReceivePop(t)
      <4> DEFINE r == [req[t] EXCEPT !.left = @ - 1, !.age = 0]
      <4>1. r \in Request /\ r.agent = req[t].agent
        BY <1>1, <3>1, RequestType DEF ReceivePop, Request
      <4> QED BY <3>1, <4>1 DEF ReceivePop
    <3>2. CASE ListenPop(t)
      BY <1>1, <3>2 DEF ListenPop
    <3> QED BY <1>4, <3>1, <3>2
  <2>2. pc[t] \in Inside /\ Pop(t, req[t].agent)
        /\ UNCHANGED <<agents, owner, message_id_counter_, sweep, cancelled, history, spoken>>
    BY <1>4 DEF ReceivePop, ListenPop, Inside
  <2>3. DOMAIN queues' = DOMAIN queues /\ held'[t] # <<>>
        /\ \A s \in Handlers \ {t} : held'[s] = held[s]
    BY <1>1, <1>2, <2>2 DEF Pop, TypeOK
  <2>4. TypeOK'
    BY <1>2, <2>1, <2>2, ServeType, PopType DEF TypeOK, Locations, history
  <2>5. CallsWellFormed'
    BY <1>2, <2>1, <2>2, <2>3 DEF CallsWellFormed, Serve, TypeOK, Inside
  <2>6. OneQueuePerAgent' /\ FreshIds'
    BY <2>1, <2>2, <2>3 DEF OneQueuePerAgent, FreshIds, Serve, TypeOK, history
  <2>7. IteratorStaysValid'
    BY <1>2, <1>3, <2>1, <2>2, <2>3 DEF IteratorStaysValid, Serve, TypeOK
  <2> QED BY <2>4, <2>5, <2>6, <2>7
<1>5. ASSUME ReceiveUnlock(t) PROVE IInv'
  <2>1. req[t].agent \in AgentId /\ pc[t] \in Inside
    BY <1>2, <1>5 DEF ReceiveUnlock, Inside
  <2> QED BY <1>1, <1>5, <2>1, MoveKeeps DEF ReceiveUnlock, Locations, Inside
<1>6. ASSUME ReceiveRespond(t) PROVE IInv'
  <2>1. req[t].agent \in AgentId /\ Serve(t, "idle", NoRequest)
        /\ pc[t] = "respond" /\ held' = [held EXCEPT ![t] = <<>>]
        /\ delivered' = delivered \cup ({req[t].agent} \X {held[t][i] : i \in DOMAIN held[t]})
        /\ UNCHANGED <<maps, owner, message_id_counter_, sweep, cancelled,
                       accepted, lost, dropped, joined, spoken>>
    BY <1>6 DEF ReceiveRespond, Return, CallsWellFormed
  <2>2. delivered' \subseteq AgentId \X Copy
    BY <1>1, <2>1 DEF TypeOK
  <2>3. TypeOK'
    <3>1. pc' \in [Handlers -> Locations] /\ req' \in [Handlers -> Request]
      BY <2>1, ServeType, RequestType DEF Locations
    <3>2. held' \in [Handlers -> Seq(Copy)]
      BY <2>1 DEF TypeOK
    <3> QED BY <2>1, <2>2, <3>1, <3>2 DEF TypeOK, maps
  <2>4. CallsWellFormed' /\ OneQueuePerAgent' /\ FreshIds' /\ IteratorStaysValid'
    BY <2>1 DEF CallsWellFormed, OneQueuePerAgent, FreshIds, IteratorStaysValid,
                Serve, TypeOK, Inside, maps
  <2> QED BY <2>3, <2>4
<1>7. ASSUME ListenWrite(t) PROVE IInv'
  <2>1. pc[t] = "writing" /\ Serve(t, "streaming", req[t]) /\ held' = [held EXCEPT ![t] = <<>>]
        /\ delivered' = delivered \cup {<<req[t].agent, Head(held[t])>>}
        /\ UNCHANGED <<maps, owner, message_id_counter_, sweep, cancelled,
                       accepted, lost, dropped, joined, spoken>>
    BY <1>7 DEF ListenWrite
  <2>2. req[t].agent \in AgentId /\ held[t] # <<>>
    BY <2>1 DEF CallsWellFormed, Inside
  <2>3. TypeOK'
    <3>1. pc' \in [Handlers -> Locations] /\ req' \in [Handlers -> Request]
      BY <1>1, <2>1, ServeType DEF Locations
    <3>2. held' \in [Handlers -> Seq(Copy)] /\ delivered' \subseteq AgentId \X Copy
      BY <1>1, <2>1, <2>2 DEF TypeOK
    <3> QED BY <2>1, <3>1, <3>2 DEF TypeOK, maps
  <2>4. CallsWellFormed' /\ OneQueuePerAgent' /\ FreshIds' /\ IteratorStaysValid'
    BY <2>1, <2>2 DEF CallsWellFormed, OneQueuePerAgent, FreshIds, IteratorStaysValid,
                      Serve, TypeOK, Inside, maps
  <2> QED BY <2>3, <2>4
<1>8. ASSUME ListenWriteFails(t) \/ ListenEnd(t) PROVE IInv'
  <2>1. pc[t] \in Inside /\ Serve(t, "idle", NoRequest) /\ owner' = Free
        /\ cancelled' = cancelled \ {t}
        /\ UNCHANGED <<maps, message_id_counter_, sweep, spoken,
                       accepted, delivered, dropped, joined>>
    BY <1>8 DEF ListenWriteFails, ListenEnd, Return, Inside, history
  <2>2. held' \in [Handlers -> Seq(Copy)] /\ \A s \in Handlers \ {t} : held'[s] = held[s]
    <3>1. CASE ListenWriteFails(t)
      BY <3>1 DEF ListenWriteFails, TypeOK
    <3>2. CASE ListenEnd(t)
      BY <3>2 DEF ListenEnd, TypeOK
    <3> QED BY <1>8, <3>1, <3>2
  <2>3. lost' \subseteq AgentId \X Copy
    <3>1. CASE ListenWriteFails(t)
      <4>1. req[t].agent \in AgentId /\ held[t] # <<>>
        BY <3>1 DEF ListenWriteFails, CallsWellFormed, Inside
      <4> QED BY <1>1, <3>1, <4>1 DEF ListenWriteFails, TypeOK
    <3>2. CASE ListenEnd(t)
      BY <3>2 DEF ListenEnd, history, TypeOK
    <3> QED BY <1>8, <3>1, <3>2
  <2>4. TypeOK'
    BY <2>1, <2>2, <2>3, ServeType, RequestType DEF TypeOK, Locations, maps
  <2>5. CallsWellFormed' /\ OneQueuePerAgent' /\ FreshIds' /\ IteratorStaysValid'
    BY <1>3, <2>1, <2>2 DEF CallsWellFormed, OneQueuePerAgent, FreshIds, IteratorStaysValid,
                            Serve, TypeOK, Inside, maps
  <2> QED BY <2>4, <2>5
<1> QED BY <1>4, <1>5, <1>6, <1>7, <1>8 DEF Work

LEMMA CleanupKeeps == ASSUME IInv, cleanupOfflineAgents PROVE IInv'
<1>1. Offline \in SUBSET Nat
  BY BoundsAssumption DEF Offline, IInv, TypeOK, AgentId, BoundsAssumption
<1> QED BY <1>1, LeaveKeeps DEF cleanupOfflineAgents, thread, IInv, TypeOK

LEMMA TickKeeps == ASSUME IInv, Tick PROVE IInv'
<1> USE DEF IInv
<1>1. UNCHANGED <<queues, owner, message_id_counter_, pc, held, cancelled, history, spoken>>
      /\ sweep' = 0
  BY DEF Tick
<1>2. \A a \in Ages : Older(a) \in Ages
  BY BoundsAssumption DEF BoundsAssumption, Older, Ages
<1>3. agents' \in [DOMAIN agents' -> Ages] /\ DOMAIN agents' = DOMAIN agents
  BY <1>2 DEF Tick, TypeOK
<1>4. ASSUME NEW r \in Request
      PROVE  /\ [r EXCEPT !.age = Older(@)] \in Request
             /\ [r EXCEPT !.age = Older(@)].agent = r.agent
             /\ [r EXCEPT !.age = Older(@)].id = r.id
  <2>1. Older(r.age) \in Ages
    BY <1>2 DEF Request
  <2> QED BY <2>1 DEF Request
<1>5. /\ req' \in [Handlers -> Request]
      /\ \A t \in Handlers : req'[t].agent = req[t].agent /\ req'[t].id = req[t].id
  BY <1>4 DEF Tick, TypeOK
<1>6. TypeOK'
  BY <1>1, <1>3, <1>5 DEF TypeOK, history
<1>7. CallsWellFormed' /\ OneQueuePerAgent' /\ FreshIds' /\ IteratorStaysValid'
  BY <1>1, <1>3, <1>5
     DEF CallsWellFormed, OneQueuePerAgent, FreshIds, IteratorStaysValid, TypeOK, history, Inside
<1> QED BY <1>6, <1>7

-----------------------------------------------------------------------------
(* The theorems.                                                           *)

\* Every reachable state satisfies the inductive invariant.
THEOREM Invariance == Spec => []IInv
<1>1. IInv /\ [Next]_vars => IInv'
  <2> SUFFICES ASSUME IInv, [Next]_vars PROVE IInv'
    OBVIOUS
  <2>1. CASE UNCHANGED vars
    BY <2>1 DEF vars, IInv, TypeOK, CallsWellFormed, OneQueuePerAgent,
                IteratorStaysValid, FreshIds
  <2>2. ASSUME NEW t \in Handlers, Call(t) \/ Client(t) \/ Locked(t) \/ Work(t)
        PROVE  IInv'
    BY <2>2, CallKeeps, RegisterAgentKeeps, ClientKeeps, LockedKeeps, WorkKeeps
  <2> QED BY <2>1, <2>2, CleanupKeeps, TickKeeps DEF Next
<1> QED BY <1>1, InitIInv, PTL DEF Spec

\* The state of the hub is well typed.
THEOREM TypeCorrect == Spec => []TypeOK
<1>1. IInv => TypeOK
  BY DEF IInv
<1> QED BY <1>1, Invariance, PTL

\* agents_ and agent_message_queues_ have the same ids in every state.
THEOREM OneQueuePerAgentHolds == Spec => []OneQueuePerAgent
<1>1. IInv => OneQueuePerAgent
  BY DEF IInv
<1> QED BY <1>1, Invariance, PTL

\* No queue is erased under a ReceiveMessage or ListenMessages call that found
\* it, whatever the number of handler threads.
THEOREM IteratorStaysValidHolds == Spec => []IteratorStaysValid
<1>1. IInv => IteratorStaysValid
  BY DEF IInv
<1> QED BY <1>1, Invariance, PTL

-----------------------------------------------------------------------------
(* The service implements the mailboxes of Mailbox: queues is box, joined  *)
(* is opened, and a step is one mailbox operation or none.                 *)

LEMMA PushPosts ==
  ASSUME NEW list \in Lists, NEW m \in MsgId, Push(list, m), UNCHANGED joined
  PROVE  Hub!BoxNext
<1> DEFINE n == [a \in DOMAIN queues |-> Times(list, a)]
<1>1. n \in [DOMAIN queues -> 0..MaxCopies]
  BY TimesRange
<1>2. queues' = [a \in DOMAIN queues |-> queues[a] \o [k \in 1..n[a] |-> <<m, k>>]]
  BY DEF Push, CopiesOf
<1> HIDE DEF n
<1>3. Hub!Post(n, m)
  BY <1>2 DEF Hub!Post
<1> QED BY <1>1, <1>3 DEF Hub!BoxNext

LEMMA LeaveCloses ==
  ASSUME NEW S, DOMAIN queues \subseteq AgentId, unregisterAgent(S), UNCHANGED joined
  PROVE  Hub!BoxNext
<1> DEFINE T == S \cap DOMAIN queues
<1>1. T \in SUBSET AgentId /\ T \subseteq DOMAIN queues /\ DOMAIN queues \ S = DOMAIN queues \ T
  OBVIOUS
<1>2. queues' = [x \in DOMAIN queues \ T |-> queues[x]]
  BY <1>1 DEF unregisterAgent
<1> HIDE DEF T
<1>3. Hub!Close(T)
  BY <1>1, <1>2 DEF Hub!Close
<1> QED BY <1>1, <1>3 DEF Hub!BoxNext

LEMMA StepRefines ==
  ASSUME IInv, [Next]_vars
  PROVE  [Hub!BoxNext]_<<queues, joined>>
<1> USE DEF IInv
<1>1. DOMAIN queues \subseteq AgentId
  BY DEF TypeOK
<1>2. CASE UNCHANGED vars
  BY <1>2 DEF vars
<1>3. ASSUME NEW t \in Handlers, Call(t) \/ Client(t)
      PROVE  UNCHANGED <<queues, joined>>
  BY <1>3 DEF Call, Client, SendMessage, ListenMessages, UnregisterAgent, Heartbeat,
       ReceiveMessage, BroadcastMessage, RegisterAgent, BatchSendMessages,
       RealTimeCommunication, BatchRead, ChatRead, StreamEnd, Cancel, maps, history
<1>4. ASSUME NEW t \in Handlers, Locked(t)
      PROVE  [Hub!BoxNext]_<<queues, joined>>
  <2>1. CASE SendLocked(t) \/ BatchLocked(t)
    <3>1. req[t].id \in MsgId
      BY <2>1 DEF SendLocked, BatchLocked, CallsWellFormed
    <3>2. Push(<<req[t].agent>>, req[t].id) /\ UNCHANGED joined
      BY <2>1 DEF SendLocked, BatchLocked
    <3> QED BY <3>1, <3>2, ListsOfCalls, PushPosts
  <2>2. CASE BroadcastLocked(t) \/ ChatLocked(t)
    <3>1. req[t].id \in MsgId
      BY <2>2 DEF BroadcastLocked, ChatLocked, CallsWellFormed
    <3> QED BY <2>2, <3>1, ListsOfCalls, PushPosts DEF BroadcastLocked, ChatLocked
  <2>3. CASE ReceiveLocked(t) \/ ListenLocked(t) \/ HeartbeatLocked(t)
    BY <2>3 DEF ReceiveLocked, ListenLocked, HeartbeatLocked, maps, history
  <2>4. CASE UnregisterLocked(t)
    BY <1>1, <2>4, LeaveCloses DEF UnregisterLocked
  <2>5. CASE RegisterLocked(t)
    <3> DEFINE a == req[t].agent
    <3>1. pc[t] = "register" /\ registerAgent(a, req[t].age)
      BY <2>5 DEF RegisterLocked
    <3>2. a \in AgentId /\ a \notin joined /\ a \notin DOMAIN queues
      BY <3>1 DEF CallsWellFormed, FreshIds
    <3>3. queues' = [x \in DOMAIN queues \cup {a} |-> IF x = a THEN <<>> ELSE queues[x]]
          /\ joined' = joined \cup {a}
      BY <3>1, <3>2 DEF registerAgent
    <3>4. Hub!Open(a)
      BY <3>2, <3>3 DEF Hub!Open
    <3> QED BY <3>2, <3>4 DEF Hub!BoxNext
  <2> QED BY <1>4, <2>1, <2>2, <2>3, <2>4, <2>5 DEF Locked
<1>5. ASSUME NEW t \in Handlers, Work(t)
      PROVE  [Hub!BoxNext]_<<queues, joined>>
  <2>1. CASE ReceivePop(t) \/ ListenPop(t)
    <3> DEFINE a == req[t].agent
    <3>1. pc[t] \in Inside /\ Pop(t, a) /\ UNCHANGED joined
      BY <2>1 DEF ReceivePop, ListenPop, Inside, history
    <3>2. a \in DOMAIN queues /\ a \in AgentId
      BY <1>1, <3>1 DEF IteratorStaysValid
    <3>3. Hub!Take(a)
      BY <3>1, <3>2 DEF Hub!Take, Pop
    <3> QED BY <3>2, <3>3 DEF Hub!BoxNext
  <2>2. CASE ReceiveUnlock(t) \/ ReceiveRespond(t) \/ ListenWrite(t)
             \/ ListenWriteFails(t) \/ ListenEnd(t)
    BY <2>2 DEF ReceiveUnlock, ReceiveRespond, ListenWrite, ListenWriteFails, ListenEnd,
                maps, history
  <2> QED BY <1>5, <2>1, <2>2 DEF Work
<1>6. CASE cleanupOfflineAgents
  BY <1>1, <1>6, LeaveCloses DEF cleanupOfflineAgents
<1>7. CASE Tick
  BY <1>7 DEF Tick, history
<1> QED BY <1>2, <1>3, <1>4, <1>5, <1>6, <1>7 DEF Next

\* Behind its mutex, and for any number of handler threads, the service is a
\* set of FIFO mailboxes whose ids are never used again.
THEOREM Refinement == Spec => MailboxSpec
<1>1. Init => Hub!BoxInit
  BY DEF Init, Hub!BoxInit
<1>2. IInv /\ [Next]_vars => [Hub!BoxNext]_(Hub!boxVars)
  BY StepRefines DEF Hub!boxVars
<1> QED BY <1>1, <1>2, Invariance, PTL DEF Spec, MailboxSpec, Hub!BoxSpec

-----------------------------------------------------------------------------
(* Where the messages are.  A pair <<a, m>> is the delivery of copy m     *)
(* of a message to agent a.                                                *)

Elements(q) == {q[i] : i \in DOMAIN q}
Once(q)     == \A i, j \in DOMAIN q : q[i] = q[j] => i = j

Waiting == Pending(DOMAIN queues)
Hand(t) == {req[t].agent} \X Elements(held[t])
Hands   == [t \in Handlers |-> Hand(t)]

\* Deliveries that wait (W), are in the hands of a thread (H), or are over:
\* handed out (D), lost (L) or dropped (P); of all that were accepted (A).
Apart(W, H, D, L, P) ==
  /\ \A x \in W : x \notin D /\ x \notin L /\ x \notin P
  /\ \A x \in D : x \notin L /\ x \notin P
  /\ \A x \in L : x \notin P
  /\ \A t \in Handlers : \A x \in H[t] :
       /\ x \notin W /\ x \notin D /\ x \notin L /\ x \notin P
       /\ \A s \in Handlers : s # t => x \notin H[s]

Covered(W, H, D, L, P, A) ==
  \A x : x \in A <=> \/ x \in W \/ x \in D \/ x \in L \/ x \in P
                     \/ \E t \in Handlers : x \in H[t]

Sorted(W, H, D, L, P, A) == Apart(W, H, D, L, P) /\ Covered(W, H, D, L, P, A)

\* A handler has messages in its hands only between popping and handing out,
\* and a stream one at a time.
Carrying == {"popping", "respond", "writing"}

Placed ==
  /\ \A a \in DOMAIN queues : Once(queues[a])
  /\ \A t \in Handlers :
       /\ Once(held[t])
       /\ pc[t] \notin Carrying => held[t] = <<>>
       /\ pc[t] = "writing" => Len(held[t]) = 1
  /\ Sorted(Waiting, Hands, delivered, lost, dropped, accepted)

\* The id of a message that is about to be queued is its own: no message with
\* it was queued before, and no other thread is about to queue one.
Posting == {"send", "batchSend", "broadcast", "chatSend"}
Used    == (1..message_id_counter_) \cup spoken

FreshMessages ==
  /\ \A x \in accepted : x[2][1] \in Used
  /\ \A t \in Handlers : pc[t] \in Posting =>
       /\ req[t].id \in Used
       /\ \A x \in accepted : x[2][1] # req[t].id
  /\ \A t, s \in Handlers : (pc[t] \in Posting /\ pc[s] \in Posting /\ t # s)
       => req[t].id # req[s].id

-----------------------------------------------------------------------------
(* Each message id is used once.                                           *)

\* A handler goes on with an id that is new, or with none.
LEMMA DrawKeepsFresh ==
  ASSUME IInv, FreshMessages, NEW t \in Handlers, NEW l, NEW r, Serve(t, l, r),
         accepted' = accepted, Used \subseteq Used',
         l \in Posting => r.id \in Used' /\ r.id \notin Used
  PROVE  FreshMessages'
<1>1. pc'[t] = l /\ req'[t] = r
      /\ \A s \in Handlers : s # t => pc'[s] = pc[s] /\ req'[s] = req[s]
  BY DEF Serve, IInv, TypeOK
<1>2. \A x \in accepted' : x[2][1] \in Used'
  BY DEF FreshMessages
<1>3. ASSUME NEW s \in Handlers, pc'[s] \in Posting
      PROVE  req'[s].id \in Used' /\ \A x \in accepted' : x[2][1] # req'[s].id
  BY <1>1, <1>3 DEF FreshMessages
<1>4. ASSUME NEW s \in Handlers, NEW u \in Handlers, pc'[s] \in Posting, pc'[u] \in Posting, s # u
      PROVE  req'[s].id # req'[u].id
  BY <1>1, <1>4 DEF FreshMessages
<1> QED BY <1>2, <1>3, <1>4 DEF FreshMessages

\* A handler queues its message and is done with the id.
LEMMA PushKeepsFresh ==
  ASSUME IInv, FreshMessages, NEW t \in Handlers, NEW l, l \notin Posting,
         Serve(t, l, NoRequest), pc[t] \in Posting, NEW list, Push(list, req[t].id),
         UNCHANGED <<message_id_counter_, spoken>>
  PROVE  FreshMessages'
<1>1. pc'[t] = l /\ \A s \in Handlers : s # t => pc'[s] = pc[s] /\ req'[s] = req[s]
  BY DEF Serve, IInv, TypeOK
<1>2. \A x \in accepted' : x \in accepted \/ x[2][1] = req[t].id
  <2>1. accepted' = accepted \cup Posted(list, req[t].id)
    BY DEF Push, Posted
  <2> QED BY <2>1, PostedIs
<1>3. Used' = Used
  BY DEF Used
<1>4. \A x \in accepted' : x[2][1] \in Used'
  BY <1>2, <1>3 DEF FreshMessages
<1>5. ASSUME NEW s \in Handlers, pc'[s] \in Posting
      PROVE  req'[s].id \in Used' /\ \A x \in accepted' : x[2][1] # req'[s].id
  <2>1. s # t /\ pc[s] \in Posting /\ req'[s] = req[s]
    BY <1>1, <1>5
  <2> QED BY <1>2, <1>3, <2>1 DEF FreshMessages
<1>6. ASSUME NEW s \in Handlers, NEW u \in Handlers, pc'[s] \in Posting, pc'[u] \in Posting, s # u
      PROVE  req'[s].id # req'[u].id
  BY <1>1, <1>6 DEF FreshMessages
<1> QED BY <1>4, <1>5, <1>6 DEF FreshMessages

\* The counter yields an id that no message has.
LEMMA DrawIsNew ==
  ASSUME IInv, generateMessageId, spoken' = spoken
  PROVE  NewId \in Used' /\ NewId \notin Used /\ Used \subseteq Used'
<1>1. message_id_counter_ \in Nat /\ spoken \subseteq ClientIds /\ ClientIds \cap Nat = {}
  BY BoundsAssumption DEF IInv, TypeOK, BoundsAssumption
<1>2. message_id_counter_' = message_id_counter_ + 1 /\ NewId = message_id_counter_ + 1
  BY DEF generateMessageId, NewId
<1>3. NewId \in Nat /\ NewId \in 1..message_id_counter_' /\ NewId \notin 1..message_id_counter_
      /\ 1..message_id_counter_ \subseteq 1..message_id_counter_'
  BY <1>1, <1>2
<1> QED BY <1>1, <1>3 DEF Used

LEMMA FreshStep ==
  ASSUME IInv, FreshMessages, [Next]_vars
  PROVE  FreshMessages'
<1>1. CASE UNCHANGED vars
  BY <1>1 DEF vars, FreshMessages, Used
<1>2. ASSUME NEW t \in Handlers, Call(t) PROVE FreshMessages'
  <2>1. ASSUME NEW a \in Named, SendMessage(t, a) PROVE FreshMessages'
    <3>1. [NoRequest EXCEPT !.agent = a, !.id = NewId].id = NewId
      BY DEF NoRequest
    <3> QED BY <2>1, <3>1, DrawIsNew, DrawKeepsFresh DEF SendMessage, history
  <2>2. ASSUME NEW list \in Audiences, BroadcastMessage(t, list) PROVE FreshMessages'
    <3>1. [NoRequest EXCEPT !.id = NewId, !.targets = list].id = NewId
      BY DEF NoRequest
    <3> QED BY <2>2, <3>1, DrawIsNew, DrawKeepsFresh DEF BroadcastMessage, history
  <2>3. ASSUME RegisterAgent(t) PROVE FreshMessages'
    BY <2>3, DrawIsNew, DrawKeepsFresh DEF RegisterAgent, history, Posting
  <2>4. ASSUME NEW a \in Named, NEW q, NEW w,
               \/ ListenMessages(t, a) \/ UnregisterAgent(t, a) \/ Heartbeat(t, a)
               \/ ReceiveMessage(t, a, q, w)
        PROVE  FreshMessages'
    <3>1. PICK l, r : Serve(t, l, r) /\ l \notin Posting
      BY <2>4 DEF ListenMessages, UnregisterAgent, Heartbeat, ReceiveMessage, Posting
    <3>2. accepted' = accepted /\ Used' = Used
      BY <2>4 DEF ListenMessages, UnregisterAgent, Heartbeat, ReceiveMessage, history, Used
    <3> QED BY <3>1, <3>2, DrawKeepsFresh
  <2>5. ASSUME BatchSendMessages(t) \/ RealTimeCommunication(t) PROVE FreshMessages'
    BY <2>5, DrawKeepsFresh DEF BatchSendMessages, RealTimeCommunication, history, Used, Posting
  <2> QED BY <1>2, <2>1, <2>2, <2>3, <2>4, <2>5 DEF Call
<1>3. ASSUME NEW t \in Handlers, Client(t) PROVE FreshMessages'
  <2>1. ASSUME NEW a \in Named, BatchRead(t, a) PROVE FreshMessages'
    <3>1. [NoRequest EXCEPT !.agent = a, !.id = NewId].id = NewId
      BY DEF NoRequest
    <3> QED BY <2>1, <3>1, DrawIsNew, DrawKeepsFresh DEF BatchRead, history
  <2>2. ASSUME NEW m \in ClientIds, ChatRead(t, m) PROVE FreshMessages'
    <3>1. [NoRequest EXCEPT !.id = m].id = m
      BY DEF NoRequest
    <3>2. m \notin 1..message_id_counter_
      BY BoundsAssumption DEF BoundsAssumption, IInv, TypeOK
    <3>3. m \in Used' /\ m \notin Used /\ Used \subseteq Used'
      BY <2>2, <3>2 DEF ChatRead, Used
    <3> QED BY <2>2, <3>1, <3>3, DrawKeepsFresh DEF ChatRead, history
  <2>3. ASSUME StreamEnd(t) PROVE FreshMessages'
    BY <2>3, DrawKeepsFresh DEF StreamEnd, Return, history, Used, Posting
  <2>4. ASSUME Cancel(t) PROVE FreshMessages'
    BY <2>4 DEF Cancel, history, FreshMessages, Used
  <2> QED BY <1>3, <2>1, <2>2, <2>3, <2>4 DEF Client
<1>4. ASSUME NEW t \in Handlers, Locked(t) PROVE FreshMessages'
  <2>1. CASE SendLocked(t) \/ BatchLocked(t) \/ BroadcastLocked(t) \/ ChatLocked(t)
    <3>1. PICK list, l : Push(list, req[t].id) /\ Serve(t, l, NoRequest) /\ l \notin Posting
      BY <2>1 DEF SendLocked, BatchLocked, BroadcastLocked, ChatLocked, Return, Posting
    <3>2. pc[t] \in Posting /\ UNCHANGED <<message_id_counter_, spoken>>
      BY <2>1 DEF SendLocked, BatchLocked, BroadcastLocked, ChatLocked, Posting
    <3> QED BY <3>1, <3>2, PushKeepsFresh
  <2>2. CASE ReceiveLocked(t) \/ ListenLocked(t) \/ RegisterLocked(t) \/ UnregisterLocked(t)
             \/ HeartbeatLocked(t)
    <3>1. PICK l, r : Serve(t, l, r) /\ l \notin Posting
      BY <2>2 DEF ReceiveLocked, ListenLocked, RegisterLocked, UnregisterLocked,
                  HeartbeatLocked, Return, Posting
    <3>2. accepted' = accepted /\ Used' = Used
      BY <2>2 DEF ReceiveLocked, ListenLocked, RegisterLocked, UnregisterLocked,
                  HeartbeatLocked, history, Used
    <3> QED BY <3>1, <3>2, DrawKeepsFresh
  <2> QED BY <1>4, <2>1, <2>2 DEF Locked
<1>5. ASSUME NEW t \in Handlers, Work(t) PROVE FreshMessages'
  <2>1. PICK l, r : Serve(t, l, r) /\ l \notin Posting
    BY <1>5 DEF Work, ReceivePop, ReceiveUnlock, ReceiveRespond, ListenPop, ListenWrite,
                ListenWriteFails, ListenEnd, Return, Posting
  <2>2. accepted' = accepted /\ Used' = Used
    BY <1>5 DEF Work, ReceivePop, ReceiveUnlock, ReceiveRespond, ListenPop, ListenWrite,
                ListenWriteFails, ListenEnd, history, Used
  <2> QED BY <2>1, <2>2, DrawKeepsFresh
<1>6. CASE cleanupOfflineAgents
  BY <1>6 DEF cleanupOfflineAgents, thread, FreshMessages, Used
<1>7. CASE Tick
  <2>1. \A t \in Handlers : req'[t].id = req[t].id
    BY <1>7 DEF Tick, IInv, TypeOK, Request
  <2> QED BY <1>7, <2>1 DEF Tick, history, FreshMessages, Used
<1> QED BY <1>1, <1>2, <1>3, <1>4, <1>5, <1>6, <1>7 DEF Next

-----------------------------------------------------------------------------
(* What a step does to the deliveries.                                     *)

\* New ones are queued.
LEMMA Enter ==
  ASSUME NEW W, NEW H, NEW D, NEW L, NEW P, NEW A, Sorted(W, H, D, L, P, A),
         NEW N, N \cap A = {}
  PROVE  Sorted(W \cup N, H, D, L, P, A \cup N)
<1>1. \A x \in N : x \notin A
  OBVIOUS
<1>2. Apart(W \cup N, H, D, L, P)
  BY <1>1 DEF Sorted, Apart, Covered
<1>3. Covered(W \cup N, H, D, L, P, A \cup N)
  BY DEF Sorted, Covered
<1> QED BY <1>2, <1>3 DEF Sorted

OthersKeep(F, G, t) == \A s \in Handlers : s # t => G[s] = F[s]

\* Thread t takes x from the queue.
LEMMA Taken ==
  ASSUME NEW W, NEW H, NEW D, NEW L, NEW P, NEW A, Sorted(W, H, D, L, P, A),
         NEW x \in W, NEW t \in Handlers, NEW G, OthersKeep(H, G, t), G[t] = H[t] \cup {x}
  PROVE  Sorted(W \ {x}, G, D, L, P, A)
<1>1. /\ x \notin D /\ x \notin L /\ x \notin P
      /\ \A s \in Handlers : x \notin H[s]
  BY DEF Sorted, Apart
<1>2. \A s \in Handlers : \A y : y \in G[s] <=> \/ y \in H[s]
                                                \/ s = t /\ y = x
  BY DEF OthersKeep
<1>3. Apart(W \ {x}, G, D, L, P)
  <2>1. ASSUME NEW s \in Handlers, NEW y \in G[s]
        PROVE  /\ y \notin W \ {x} /\ y \notin D /\ y \notin L /\ y \notin P
               /\ \A u \in Handlers : u # s => y \notin G[u]
    <3>1. CASE y \in H[s]
      BY <1>1, <1>2, <3>1 DEF Sorted, Apart
    <3>2. CASE s = t /\ y = x
      BY <1>1, <1>2, <3>2
    <3> QED BY <1>2, <2>1, <3>1, <3>2
  <2>2. \A y \in W \ {x} : y \notin D /\ y \notin L /\ y \notin P
    BY DEF Sorted, Apart
  <2> QED BY <2>1, <2>2 DEF Sorted, Apart
<1>4. Covered(W \ {x}, G, D, L, P, A)
  <2>1. \A y : (\E s \in Handlers : y \in G[s]) <=> \/ y = x
                                                     \/ \E s \in Handlers : y \in H[s]
    BY <1>2
  <2> QED BY <2>1 DEF Sorted, Covered
<1> QED BY <1>3, <1>4 DEF Sorted

\* Thread t hands out what it has.
LEMMA GivenOut ==
  ASSUME NEW W, NEW H, NEW D, NEW L, NEW P, NEW A, Sorted(W, H, D, L, P, A),
         NEW t \in Handlers, NEW G, OthersKeep(H, G, t), G[t] = {}
  PROVE  Sorted(W, G, D \cup H[t], L, P, A)
<1>1. \A x \in H[t] : /\ x \notin W /\ x \notin L /\ x \notin P
                      /\ \A s \in Handlers : s # t => x \notin H[s]
  BY DEF Sorted, Apart
<1>2. \A s \in Handlers : \A y : y \in G[s] <=> s # t /\ y \in H[s]
  BY DEF OthersKeep
<1>3. Apart(W, G, D \cup H[t], L, P)
  BY <1>1, <1>2 DEF Sorted, Apart
<1>4. Covered(W, G, D \cup H[t], L, P, A)
  <2>1. \A y : (\E s \in Handlers : y \in H[s]) <=> \/ y \in H[t]
                                                     \/ \E s \in Handlers : y \in G[s]
    BY <1>2
  <2> QED BY <2>1 DEF Sorted, Covered
<1> QED BY <1>3, <1>4 DEF Sorted

\* What thread t has is lost.
LEMMA GivenUp ==
  ASSUME NEW W, NEW H, NEW D, NEW L, NEW P, NEW A, Sorted(W, H, D, L, P, A),
         NEW t \in Handlers, NEW G, OthersKeep(H, G, t), G[t] = {}
  PROVE  Sorted(W, G, D, L \cup H[t], P, A)
<1>1. \A x \in H[t] : /\ x \notin W /\ x \notin D /\ x \notin P
                      /\ \A s \in Handlers : s # t => x \notin H[s]
  BY DEF Sorted, Apart
<1>2. \A s \in Handlers : \A y : y \in G[s] <=> s # t /\ y \in H[s]
  BY DEF OthersKeep
<1>3. Apart(W, G, D, L \cup H[t], P)
  BY <1>1, <1>2 DEF Sorted, Apart
<1>4. Covered(W, G, D, L \cup H[t], P, A)
  <2>1. \A y : (\E s \in Handlers : y \in H[s]) <=> \/ y \in H[t]
                                                     \/ \E s \in Handlers : y \in G[s]
    BY <1>2
  <2> QED BY <2>1 DEF Sorted, Covered
<1> QED BY <1>3, <1>4 DEF Sorted

\* Some are dropped with their queues.
LEMMA Gone ==
  ASSUME NEW W, NEW H, NEW D, NEW L, NEW P, NEW A, Sorted(W, H, D, L, P, A),
         NEW Z \in SUBSET W
  PROVE  Sorted(W \ Z, H, D, L, P \cup Z, A)
<1>1. \A x \in Z : /\ x \in W /\ x \notin D /\ x \notin L
                   /\ \A s \in Handlers : x \notin H[s]
  BY DEF Sorted, Apart
<1>2. Apart(W \ Z, H, D, L, P \cup Z)
  BY <1>1 DEF Sorted, Apart
<1>3. Covered(W \ Z, H, D, L, P \cup Z, A)
  BY <1>1 DEF Sorted, Covered
<1> QED BY <1>2, <1>3 DEF Sorted

-----------------------------------------------------------------------------
(* Queues without repetition.                                              *)

LEMMA AppendOnce ==
  ASSUME NEW S, NEW q \in Seq(S), NEW x \in S
  PROVE  /\ \A y : y \in Elements(Append(q, x)) <=> \/ y \in Elements(q)
                                                    \/ y = x
         /\ (Once(q) /\ x \notin Elements(q)) => Once(Append(q, x))
<1> DEFINE r == Append(q, x)
<1>1. /\ Len(q) \in Nat /\ DOMAIN q = 1..Len(q) /\ DOMAIN r = 1..(Len(q) + 1)
      /\ r[Len(q) + 1] = x
      /\ \A i \in 1..Len(q) : r[i] = q[i]
  OBVIOUS
<1> HIDE DEF r
<1>2. \A i \in DOMAIN r : i \in DOMAIN q \/ i = Len(q) + 1
  BY <1>1
<1>3. DOMAIN q \subseteq DOMAIN r /\ Len(q) + 1 \in DOMAIN r
  BY <1>1
<1>4. \A y : y \in Elements(r) <=> \/ y \in Elements(q)
                                   \/ y = x
  BY <1>1, <1>2, <1>3 DEF Elements
<1>5. (Once(q) /\ x \notin Elements(q)) => Once(r)
  BY <1>1, <1>2 DEF Once, Elements
<1> QED BY <1>4, <1>5 DEF r

LEMMA CopiesOnce ==
  ASSUME NEW q \in Seq(Copy), NEW m \in MsgId, NEW n \in 0..MaxCopies
  PROVE  /\ \A y : y \in Elements(q \o CopiesOf(m, n)) <=> \/ y \in Elements(q)
                                                           \/ \E k \in 1..n : y = <<m, k>>
         /\ (Once(q) /\ \A k \in 1..n : <<m, k>> \notin Elements(q)) => Once(q \o CopiesOf(m, n))
<1> DEFINE c == CopiesOf(m, n)
           r == q \o c
<1>1. n \in Nat /\ c \in Seq(Copy) /\ Len(c) = n /\ \A k \in 1..n : c[k] = <<m, k>>
  <2>1. n \in Nat
    BY BoundsAssumption DEF BoundsAssumption
  <2>2. /\ CopiesOf(m, n) \in Seq(Copy) /\ Len(CopiesOf(m, n)) = n
        /\ \A k \in 1..n : CopiesOf(m, n)[k] = <<m, k>>
    BY CopiesType
  <2> QED BY <2>1, <2>2
<1> HIDE DEF c
<1>2. /\ Len(q) \in Nat /\ DOMAIN q = 1..Len(q) /\ DOMAIN r = 1..(Len(q) + n)
      /\ \A i \in 1..Len(q) : r[i] = q[i]
      /\ \A i \in 1..(Len(q) + n) : ~(i <= Len(q)) => r[i] = c[i - Len(q)]
  <2>1. Len(q) \in Nat /\ DOMAIN q = 1..Len(q)
    OBVIOUS
  <2>2. DOMAIN r = 1..(Len(q) + n)
    <3>0. c \in Seq(Copy)
      BY <1>1
    <3>1. r \in Seq(Copy)
      BY <3>0
    <3>2. Len(r) = Len(q) + Len(c)
      BY <3>0
    <3> HIDE DEF r
    <3>3. DOMAIN r = 1..Len(r)
      BY <3>1
    <3> QED BY <1>1, <3>2, <3>3
  <2>3. ASSUME NEW i \in 1..Len(q)  PROVE r[i] = q[i]
    <3>1. i \in 1..(Len(q) + Len(c)) /\ i <= Len(q)
      BY <1>1, <2>1, <2>3
    <3> QED BY <1>1, <3>1
  <2>4. ASSUME NEW i \in 1..(Len(q) + n), ~(i <= Len(q))
        PROVE  r[i] = c[i - Len(q)]
    BY <1>1, <2>1, <2>4
  <2> QED BY <2>1, <2>2, <2>3, <2>4
<1> HIDE DEF r
<1>3. ASSUME NEW i \in DOMAIN r, i \notin DOMAIN q
      PROVE  i - Len(q) \in 1..n /\ r[i] = <<m, i - Len(q)>>
  <2>1. i - Len(q) \in 1..n /\ ~(i <= Len(q))
    BY <1>1, <1>2, <1>3
  <2> QED BY <1>1, <1>2, <2>1
<1>4. DOMAIN q \subseteq DOMAIN r /\ \A i \in DOMAIN q : r[i] = q[i]
  BY <1>1, <1>2
<1>5. ASSUME NEW k \in 1..n  PROVE Len(q) + k \in DOMAIN r /\ r[Len(q) + k] = <<m, k>>
  <2>1. Len(q) + k \in DOMAIN r /\ Len(q) + k \notin DOMAIN q /\ (Len(q) + k) - Len(q) = k
    BY <1>1, <1>2
  <2> QED BY <1>3, <2>1
<1>6. \A y : y \in Elements(r) <=> \/ y \in Elements(q)
                                   \/ \E k \in 1..n : y = <<m, k>>
  BY <1>3, <1>4, <1>5 DEF Elements
<1>7. ASSUME Once(q), \A k \in 1..n : <<m, k>> \notin Elements(q),
             NEW i \in DOMAIN r, NEW j \in DOMAIN r, r[i] = r[j]
      PROVE  i = j
  <2>1. CASE i \in DOMAIN q /\ j \in DOMAIN q
    BY <1>4, <1>7, <2>1 DEF Once
  <2>2. CASE i \in DOMAIN q /\ j \notin DOMAIN q
    <3>1. r[i] \in Elements(q)
      BY <1>4, <2>2 DEF Elements
    <3> QED BY <1>3, <1>7, <2>2, <3>1
  <2>3. CASE i \notin DOMAIN q /\ j \in DOMAIN q
    <3>1. r[j] \in Elements(q)
      BY <1>4, <2>3 DEF Elements
    <3> QED BY <1>3, <1>7, <2>3, <3>1
  <2>4. CASE i \notin DOMAIN q /\ j \notin DOMAIN q
    <3>1. i - Len(q) = j - Len(q)
      BY <1>3, <1>7, <2>4
    <3>2. i \in Int /\ j \in Int
      BY <1>2
    <3> QED BY <1>2, <3>1, <3>2
  <2> QED BY <2>1, <2>2, <2>3, <2>4
<1>8. (Once(q) /\ \A k \in 1..n : <<m, k>> \notin Elements(q)) => Once(r)
  BY <1>7 DEF Once
<1> QED BY <1>6, <1>8 DEF r, c

LEMMA TailOnce ==
  ASSUME NEW S, NEW q \in Seq(S), q # <<>>, Once(q)
  PROVE  /\ Head(q) \in Elements(q) /\ Head(q) \in S
         /\ Tail(q) \in Seq(S) /\ Once(Tail(q))
         /\ \A y : y \in Elements(Tail(q)) <=> y \in Elements(q) /\ y # Head(q)
<1> DEFINE r == Tail(q)
<1>1. /\ Len(q) \in Nat /\ Len(q) >= 1 /\ DOMAIN q = 1..Len(q)
      /\ r \in Seq(S) /\ DOMAIN r = 1..(Len(q) - 1)
      /\ \A i \in 1..(Len(q) - 1) : r[i] = q[i + 1]
      /\ Head(q) = q[1] /\ q[1] \in S
  OBVIOUS
<1> HIDE DEF r
<1>2. 1 \in DOMAIN q /\ \A i \in DOMAIN r : i + 1 \in DOMAIN q /\ r[i] = q[i + 1] /\ i + 1 # 1
  BY <1>1
<1>3. \A i \in DOMAIN q : i # 1 => i - 1 \in DOMAIN r /\ r[i - 1] = q[i]
  BY <1>1
<1>4. Head(q) \in Elements(q)
  BY <1>1, <1>2 DEF Elements
<1>5. ASSUME NEW i \in DOMAIN r, NEW j \in DOMAIN r, r[i] = r[j]  PROVE i = j
  <2>1. i + 1 = j + 1
    BY <1>2, <1>5 DEF Once
  <2> QED BY <1>1, <2>1
<1>6. ASSUME NEW y \in Elements(r)  PROVE y \in Elements(q) /\ y # Head(q)
  <2>1. PICK i \in DOMAIN r : r[i] = y
    BY DEF Elements
  <2>2. y = q[i + 1] /\ i + 1 \in DOMAIN q /\ i + 1 # 1
    BY <1>2, <2>1
  <2> QED BY <1>1, <1>2, <2>2 DEF Elements, Once
<1>7. ASSUME NEW y \in Elements(q), y # Head(q)  PROVE y \in Elements(r)
  <2>1. PICK i \in DOMAIN q : q[i] = y
    BY DEF Elements
  <2>2. i # 1
    BY <1>1, <1>7, <2>1
  <2> QED BY <1>3, <2>1, <2>2 DEF Elements
<1> QED BY <1>1, <1>4, <1>5, <1>6, <1>7 DEF r, Once

-----------------------------------------------------------------------------
(* What the operations do to the queues.                                   *)

\* A delivery waits when its message is in the queue of its agent.
LEMMA PendingIs ==
  \A S : \A x : x \in Pending(S) <=> \E a \in S \cap DOMAIN queues :
                                       \E m \in Elements(queues[a]) : x = <<a, m>>
BY DEF Pending, Elements

LEMMA WaitingIs ==
  /\ \A x : x \in Waiting <=> \E a \in DOMAIN queues : \E m \in Elements(queues[a]) : x = <<a, m>>
  /\ \A x : x \in Waiting' <=> \E a \in DOMAIN queues' : \E m \in Elements(queues'[a]) : x = <<a, m>>
<1>1. \A x : x \in Waiting <=> \E a \in DOMAIN queues : \E m \in Elements(queues[a]) : x = <<a, m>>
  BY DEF Pending, Elements, Waiting
<1>2. \A x : x \in Waiting' <=> \E a \in DOMAIN queues' : \E m \in Elements(queues'[a]) : x = <<a, m>>
  BY DEF Pending, Elements, Waiting
<1> QED BY <1>1, <1>2

LEMMA PushWaits ==
  ASSUME IInv, NEW list \in Lists, NEW m \in MsgId, Push(list, m)
  PROVE  /\ DOMAIN queues' = DOMAIN queues
         /\ Waiting' = Waiting \cup Posted(list, m)
         /\ \A a \in DOMAIN queues :
              Once(queues[a]) /\ (\A k \in 1..Times(list, a) : <<m, k>> \notin Elements(queues[a]))
                => Once(queues'[a])
<1>1. /\ DOMAIN queues' = DOMAIN queues
      /\ \A a \in DOMAIN queues : queues'[a] = queues[a] \o CopiesOf(m, Times(list, a))
  BY DEF Push
<1>2. ASSUME NEW a \in DOMAIN queues
      PROVE  /\ \A y : y \in Elements(queues'[a]) <=> \/ y \in Elements(queues[a])
                                                      \/ \E k \in 1..Times(list, a) : y = <<m, k>>
             /\ Once(queues[a]) /\ (\A k \in 1..Times(list, a) : <<m, k>> \notin Elements(queues[a]))
                  => Once(queues'[a])
  <2>1. queues[a] \in Seq(Copy) /\ Times(list, a) \in 0..MaxCopies
    BY TimesRange DEF IInv, TypeOK
  <2> DEFINE n == Times(list, a)
             q == queues[a]
  <2>2. queues'[a] = q \o CopiesOf(m, n) /\ q \in Seq(Copy) /\ n \in 0..MaxCopies
    BY <1>1, <2>1
  <2> HIDE DEF n, q
  <2>3. /\ \A y : y \in Elements(q \o CopiesOf(m, n)) <=> \/ y \in Elements(q)
                                                           \/ \E k \in 1..n : y = <<m, k>>
        /\ (Once(q) /\ \A k \in 1..n : <<m, k>> \notin Elements(q)) => Once(q \o CopiesOf(m, n))
    BY <2>2, CopiesOnce
  <2> QED BY <2>2, <2>3 DEF n, q
<1>3. \A x : x \in Waiting' <=> x \in Waiting \cup Posted(list, m)
  BY <1>1, <1>2, WaitingIs, PostedIs
<1> QED BY <1>1, <1>2, <1>3

LEMMA PopWaits ==
  ASSUME IInv, NEW t \in Handlers, NEW a \in DOMAIN queues, Pop(t, a), Once(queues[a])
  PROVE  /\ DOMAIN queues' = DOMAIN queues
         /\ Head(queues[a]) \in Copy
         /\ <<a, Head(queues[a])>> \in Waiting
         /\ Waiting' = Waiting \ {<<a, Head(queues[a])>>}
         /\ Once(queues'[a]) /\ \A b \in DOMAIN queues : b # a => queues'[b] = queues[b]
<1>1. /\ DOMAIN queues' = DOMAIN queues /\ queues'[a] = Tail(queues[a])
      /\ \A b \in DOMAIN queues : b # a => queues'[b] = queues[b]
  BY DEF Pop, IInv, TypeOK
<1>2. queues[a] \in Seq(Copy) /\ queues[a] # <<>>
  BY DEF IInv, TypeOK, Pop
<1>3. /\ Head(queues[a]) \in Elements(queues[a]) /\ Head(queues[a]) \in Copy
      /\ Once(Tail(queues[a]))
      /\ \A y : y \in Elements(Tail(queues[a])) <=> y \in Elements(queues[a]) /\ y # Head(queues[a])
  BY <1>2, TailOnce
<1>4. <<a, Head(queues[a])>> \in Waiting
  BY <1>3, WaitingIs
<1>5. \A x : x \in Waiting' <=> x \in Waiting /\ x # <<a, Head(queues[a])>>
  <2> DEFINE h == Head(queues[a])
  <2>1. \A b \in DOMAIN queues : \A y : y \in Elements(queues'[b]) <=> y \in Elements(queues[b]) /\ <<b, y>> # <<a, h>>
    BY <1>1, <1>3
  <2> HIDE DEF h
  <2>2. \A x : x \in Waiting' <=> x \in Waiting /\ x # <<a, h>>
    BY <1>1, <2>1, WaitingIs
  <2> QED BY <2>2 DEF h
<1> QED BY <1>1, <1>3, <1>4, <1>5

LEMMA LeaveWaits ==
  ASSUME NEW S, unregisterAgent(S)
  PROVE  /\ Waiting' = Waiting \ Pending(S) /\ Pending(S) \in SUBSET Waiting
         /\ DOMAIN queues' \subseteq DOMAIN queues
         /\ \A a \in DOMAIN queues' : queues'[a] = queues[a]
<1>1. DOMAIN queues' = DOMAIN queues \ S /\ \A a \in DOMAIN queues' : queues'[a] = queues[a]
  BY DEF unregisterAgent
<1>2. \A x : x \in Pending(S) => x \in Waiting
  BY PendingIs, WaitingIs
<1>3. \A x : x \in Waiting' <=> x \in Waiting /\ x \notin Pending(S)
  BY <1>1, PendingIs, WaitingIs
<1> QED BY <1>1, <1>2, <1>3

LEMMA OpenWaits ==
  ASSUME NEW a, NEW age, registerAgent(a, age), a \notin DOMAIN queues
  PROVE  /\ Waiting' = Waiting
         /\ \A b \in DOMAIN queues' : queues'[b] = <<>> \/ (b \in DOMAIN queues /\ queues'[b] = queues[b])
<1>1. /\ DOMAIN queues' = DOMAIN queues \cup {a} /\ queues'[a] = <<>>
      /\ \A b \in DOMAIN queues : queues'[b] = queues[b]
  BY DEF registerAgent
<1>2. Elements(<<>>) = {}
  BY DEF Elements
<1>3. \A x : x \in Waiting' <=> x \in Waiting
  BY <1>1, <1>2, WaitingIs
<1> QED BY <1>1, <1>3

-----------------------------------------------------------------------------
(* Each step leaves every message in its place, or moves it to the next.   *)

\* What t has in its hands, and the request it has it for, go on.
Moves(t) ==
  /\ held'[t] = held[t]
  /\ held[t] # <<>> => pc'[t] \in Carrying /\ req'[t].agent = req[t].agent
  /\ pc'[t] = "writing" => pc[t] = "writing"

InHands(t) ==
  /\ Once(held[t])
  /\ pc[t] \notin Carrying => held[t] = <<>>
  /\ pc[t] = "writing" => Len(held[t]) = 1

LEMMA HandIs ==
  /\ \A t \in Handlers : Hands[t] = {req[t].agent} \X Elements(held[t])
  /\ \A t \in Handlers : Hands'[t] = {req'[t].agent} \X Elements(held'[t])
  /\ Elements(<<>>) = {}
BY DEF Hands, Hand, Elements

LEMMA MovesHands ==
  ASSUME NEW t \in Handlers, InHands(t), Moves(t)
  PROVE  InHands(t)' /\ Hands'[t] = Hands[t]
<1>1. InHands(t)'
  BY DEF InHands, Moves
<1>2. CASE held[t] = <<>>
  <2>1. Hands[t] = {} /\ Hands'[t] = {}
    BY <1>2, HandIs DEF Moves
  <2> QED BY <1>1, <2>1
<1>3. CASE held[t] # <<>>
  BY <1>1, <1>3, HandIs DEF Moves
<1> QED BY <1>2, <1>3

\* A step that moves no message.
LEMMA StayKeepsPlaces ==
  ASSUME Placed, \A t \in Handlers : Moves(t), Waiting' = Waiting,
         \A a \in DOMAIN queues' : queues'[a] = <<>> \/ (a \in DOMAIN queues /\ queues'[a] = queues[a]),
         UNCHANGED <<accepted, delivered, lost, dropped>>
  PROVE  Placed'
<1>1. \A t \in Handlers : InHands(t)' /\ Hands'[t] = Hands[t]
  BY MovesHands DEF Placed, InHands
<1>2. Hands' = Hands
  BY <1>1 DEF Hands
<1>3. \A a \in DOMAIN queues' : Once(queues'[a])
  BY DEF Placed, Once
<1>4. Sorted(Waiting', Hands', delivered', lost', dropped', accepted')
  BY <1>2 DEF Placed
<1> QED BY <1>1, <1>3, <1>4 DEF Placed, InHands, Sorted, Apart, Covered

LEMMA LeaveKeepsPlaces ==
  ASSUME Placed, \A t \in Handlers : Moves(t), NEW S, unregisterAgent(S),
         UNCHANGED <<accepted, delivered, lost>>
  PROVE  Placed'
<1>1. \A t \in Handlers : InHands(t)' /\ Hands'[t] = Hands[t]
  BY MovesHands DEF Placed, InHands
<1>2. Hands' = Hands
  BY <1>1 DEF Hands
<1>3. \A a \in DOMAIN queues' : Once(queues'[a])
  BY LeaveWaits DEF Placed, Once
<1>4. Waiting' = Waiting \ Pending(S) /\ dropped' = dropped \cup Pending(S)
      /\ Pending(S) \in SUBSET Waiting
  BY LeaveWaits DEF unregisterAgent
<1>5. Sorted(Waiting', Hands', delivered', lost', dropped', accepted')
  BY <1>2, <1>4, Gone DEF Placed
<1> QED BY <1>1, <1>3, <1>5 DEF Placed, InHands, Sorted, Apart, Covered

LEMMA PushKeepsPlaces ==
  ASSUME IInv, FreshMessages, Placed, NEW t \in Handlers, pc[t] \in Posting,
         NEW l \in {"idle", "batch", "chat"}, Serve(t, l, NoRequest),
         NEW list \in Lists, Push(list, req[t].id),
         UNCHANGED <<held, delivered, lost, dropped>>
  PROVE  Placed'
<1> DEFINE m == req[t].id
           N == Posted(list, m)
<1>1. m \in MsgId /\ \A x \in accepted : x[2][1] # m
  BY DEF IInv, CallsWellFormed, Posting, FreshMessages
<1>2. \A s \in Handlers : Moves(s)
  BY DEF Moves, Placed, Posting, Carrying, Serve, IInv, TypeOK
<1>3. \A s \in Handlers : InHands(s)' /\ Hands'[s] = Hands[s]
  BY <1>2, MovesHands DEF Placed, InHands
<1>4. Hands' = Hands
  BY <1>3 DEF Hands
<1>5. \A a \in DOMAIN queues : \A k : <<m, k>> \notin Elements(queues[a])
  <2> SUFFICES ASSUME NEW a \in DOMAIN queues, NEW k, <<m, k>> \in Elements(queues[a]) PROVE FALSE
    OBVIOUS
  <2>1. <<a, <<m, k>>>> \in Waiting
    BY WaitingIs
  <2>2. <<a, <<m, k>>>> \in accepted /\ <<a, <<m, k>>>>[2][1] = m
    BY <2>1 DEF Placed, Sorted, Covered
  <2> QED BY <1>1, <2>2
<1>6. Push(list, m)
  OBVIOUS
<1> HIDE DEF m
<1>7. accepted' = accepted \cup N
  BY <1>6 DEF Push, Posted
<1>8. N \cap accepted = {}
  <2>1. \A x \in N : x[2][1] = m
    BY PostedIs
  <2> QED BY <1>1, <2>1
<1>9. Waiting' = Waiting \cup N /\ \A a \in DOMAIN queues' : Once(queues'[a])
  BY <1>1, <1>5, <1>6, PushWaits DEF Placed
<1> HIDE DEF N
<1>10. Sorted(Waiting', Hands', delivered', lost', dropped', accepted')
  BY <1>4, <1>7, <1>8, <1>9, Enter DEF Placed
<1> QED BY <1>3, <1>9, <1>10 DEF Placed, InHands, Sorted, Apart, Covered

LEMMA PopKeepsPlaces ==
  ASSUME IInv, Placed, NEW t \in Handlers, pc[t] \in {"popping", "streaming"},
         Pop(t, req[t].agent), NEW l, NEW r, Serve(t, l, r), r.agent = req[t].agent,
         \/ l = "popping"
         \/ l = "writing" /\ pc[t] = "streaming",
         UNCHANGED <<accepted, delivered, lost, dropped>>
  PROVE  Placed'
<1> DEFINE a == req[t].agent
           h == Head(queues[a])
           x == <<a, h>>
<1>1. a \in DOMAIN queues /\ held[t] \in Seq(Copy)
  BY DEF IInv, TypeOK, IteratorStaysValid, Inside
<1>2. /\ DOMAIN queues' = DOMAIN queues /\ h \in Copy /\ x \in Waiting /\ Waiting' = Waiting \ {x}
      /\ \A b \in DOMAIN queues' : Once(queues'[b])
  BY <1>1, PopWaits DEF Placed
<1>3. held'[t] = Append(held[t], h) /\ \A s \in Handlers : s # t => held'[s] = held[s]
  BY DEF Pop, IInv, TypeOK
<1>4. /\ pc'[t] = l /\ req'[t].agent = a
      /\ \A s \in Handlers : s # t => pc'[s] = pc[s] /\ req'[s] = req[s]
  BY DEF Serve, IInv, TypeOK
<1>5. h \notin Elements(held[t])
  <2>1. x \notin Hands[t]
    BY <1>2 DEF Placed, Sorted, Apart
  <2> QED BY <2>1, HandIs
<1> HIDE DEF h
<1>6. /\ Once(held'[t])
      /\ \A y : y \in Elements(held'[t]) <=> \/ y \in Elements(held[t])
                                             \/ y = h
  BY <1>1, <1>2, <1>3, <1>5, AppendOnce DEF Placed
<1>7. Hands'[t] = Hands[t] \cup {x}
  <2>1. Hands[t] = {a} \X Elements(held[t]) /\ Hands'[t] = {a} \X Elements(held'[t])
    BY <1>4, HandIs
  <2> QED BY <1>6, <2>1
<1>8. OthersKeep(Hands, Hands', t)
  BY <1>3, <1>4, HandIs DEF OthersKeep
<1>9. Sorted(Waiting', Hands', delivered', lost', dropped', accepted')
  <2>1. Sorted(Waiting \ {x}, Hands', delivered, lost, dropped, accepted)
    BY <1>2, <1>7, <1>8, Taken DEF Placed
  <2> QED BY <1>2, <2>1
<1>10. InHands(t)'
  <2>1. l = "writing" => Len(held'[t]) = 1
    <3>1. l = "writing" => held[t] = <<>>
      BY DEF Placed, Carrying
    <3> QED BY <1>3, <3>1
  <2> QED BY <1>4, <1>6, <2>1 DEF InHands, Carrying
<1>11. \A s \in Handlers : s # t => InHands(s)'
  BY <1>3, <1>4 DEF Placed, InHands
<1> QED BY <1>2, <1>9, <1>10, <1>11 DEF Placed, InHands, Sorted, Apart, Covered

\* A call hands out, or fails to write, what it has.
LEMMA GiveKeepsPlaces ==
  ASSUME IInv, Placed, NEW t \in Handlers, NEW l, NEW r, Serve(t, l, r), l # "writing",
         held' = [held EXCEPT ![t] = <<>>],
         UNCHANGED <<queues, accepted, dropped>>,
         \/ delivered' = delivered \cup Hands[t] /\ lost' = lost
         \/ lost' = lost \cup Hands[t] /\ delivered' = delivered
  PROVE  Placed'
<1>1. /\ held'[t] = <<>> /\ pc'[t] = l
      /\ \A s \in Handlers : s # t => held'[s] = held[s] /\ pc'[s] = pc[s] /\ req'[s] = req[s]
  BY DEF Serve, IInv, TypeOK
<1>2. Hands'[t] = {} /\ OthersKeep(Hands, Hands', t)
  <2>1. Elements(held'[t]) = {}
    BY <1>1, HandIs
  <2>2. Hands'[t] = {req'[t].agent} \X Elements(held'[t])
    BY HandIs
  <2>3. Hands'[t] = {}
    BY <2>1, <2>2
  <2>4. ASSUME NEW s \in Handlers, s # t  PROVE Hands'[s] = Hands[s]
    <3>1. held'[s] = held[s] /\ req'[s] = req[s]
      BY <1>1, <2>4
    <3> QED BY <3>1, HandIs
  <2> QED BY <2>3, <2>4 DEF OthersKeep
<1>3. Waiting' = Waiting
  BY DEF Waiting, Pending
<1>4. Sorted(Waiting, Hands', delivered', lost', dropped, accepted)
  <2>0. Sorted(Waiting, Hands, delivered, lost, dropped, accepted)
    BY DEF Placed
  <2>1. CASE delivered' = delivered \cup Hands[t] /\ lost' = lost
    BY <1>2, <2>0, <2>1, GivenOut
  <2>2. CASE lost' = lost \cup Hands[t] /\ delivered' = delivered
    BY <1>2, <2>0, <2>2, GivenUp
  <2> QED BY <2>1, <2>2
<1>5. Sorted(Waiting', Hands', delivered', lost', dropped', accepted')
  BY <1>3, <1>4
<1>6. \A s \in Handlers : InHands(s)'
  BY <1>1 DEF Placed, InHands, Once
<1>7. \A a \in DOMAIN queues' : Once(queues'[a])
  BY DEF Placed
<1> QED BY <1>5, <1>6, <1>7 DEF Placed, InHands, Sorted, Apart, Covered

\* A handler goes on without a message in its hands.
LEMMA GoesOn ==
  ASSUME IInv, Placed, NEW t \in Handlers, NEW l, NEW r, Serve(t, l, r), held' = held,
         \/ held[t] = <<>>
         \/ l = "respond" /\ r.agent = req[t].agent,
         l # "writing"
  PROVE  \A s \in Handlers : Moves(s)
<1>1. /\ pc'[t] = l /\ req'[t] = r
      /\ \A s \in Handlers : s # t => pc'[s] = pc[s] /\ req'[s] = req[s]
  BY DEF Serve, IInv, TypeOK
<1>2. \A s \in Handlers : held[s] # <<>> => pc[s] \in Carrying
  BY DEF Placed
<1> QED BY <1>1, <1>2 DEF Moves, Carrying

LEMMA SameWaits ==
  ASSUME UNCHANGED queues
  PROVE  /\ Waiting' = Waiting
         /\ \A a \in DOMAIN queues' : queues'[a] = <<>> \/ (a \in DOMAIN queues /\ queues'[a] = queues[a])
BY DEF Waiting, Pending

LEMMA PlacesStep ==
  ASSUME IInv, FreshMessages, Placed, [Next]_vars
  PROVE  Placed'
<1>0. \A t \in Handlers : pc[t] \notin Carrying => held[t] = <<>>
  BY DEF Placed
<1>1. CASE UNCHANGED vars
  <2>1. \A t \in Handlers : Moves(t)
    BY <1>0, <1>1 DEF vars, Moves
  <2> QED BY <1>1, <2>1, SameWaits, StayKeepsPlaces DEF vars
<1>2. ASSUME NEW t \in Handlers, Call(t) PROVE Placed'
  <2>1. PICK l, r : Serve(t, l, r) /\ l # "writing"
    <3>1. \E l, r : Serve(t, l, r) /\ l # "writing"
      <4>1. CASE \E a \in Named : SendMessage(t, a)
        BY <4>1 DEF SendMessage
      <4>2. CASE \E a \in Named : ListenMessages(t, a) \/ UnregisterAgent(t, a) \/ Heartbeat(t, a)
        BY <4>2 DEF ListenMessages, UnregisterAgent, Heartbeat
      <4>3. CASE \E a \in Named : \E q \in Quotas, w \in Waits : ReceiveMessage(t, a, q, w)
        BY <4>3 DEF ReceiveMessage
      <4>4. CASE \E list \in Audiences : BroadcastMessage(t, list)
        BY <4>4 DEF BroadcastMessage
      <4>5. CASE RegisterAgent(t) \/ BatchSendMessages(t) \/ RealTimeCommunication(t)
        BY <4>5 DEF RegisterAgent, BatchSendMessages, RealTimeCommunication
      <4> QED BY <1>2, <4>1, <4>2, <4>3, <4>4, <4>5 DEF Call
    <3> QED BY <3>1
  <2>2. /\ pc[t] = "idle" /\ UNCHANGED queues /\ held' = held
        /\ UNCHANGED <<accepted, delivered, lost, dropped>>
    BY <1>2 DEF Call, SendMessage, ListenMessages, UnregisterAgent, Heartbeat, ReceiveMessage,
                BroadcastMessage, RegisterAgent, BatchSendMessages, RealTimeCommunication, maps, history
  <2>3. held[t] = <<>>
    BY <1>0, <2>2 DEF Carrying
  <2> QED BY <2>1, <2>2, <2>3, GoesOn, SameWaits, StayKeepsPlaces
<1>3. ASSUME NEW t \in Handlers, Client(t) PROVE Placed'
  <2>1. CASE Cancel(t)
    <3>1. \A s \in Handlers : Moves(s)
      BY <1>0, <2>1 DEF Cancel, Moves
    <3> QED BY <2>1, <3>1, SameWaits, StayKeepsPlaces DEF Cancel, maps, history
  <2>2. CASE ~Cancel(t)
    <3>1. PICK l, r : Serve(t, l, r) /\ l # "writing"
      <4>1. CASE \E a \in Named : BatchRead(t, a)
        BY <4>1 DEF BatchRead
      <4>2. CASE \E m \in ClientIds : ChatRead(t, m)
        BY <4>2 DEF ChatRead
      <4>3. CASE StreamEnd(t)
        BY <4>3 DEF StreamEnd, Return
      <4> QED BY <1>3, <2>2, <4>1, <4>2, <4>3 DEF Client
    <3>2. /\ pc[t] \in {"batch", "chat"} /\ UNCHANGED queues /\ held' = held
          /\ UNCHANGED <<accepted, delivered, lost, dropped>>
      BY <1>3, <2>2 DEF Client, BatchRead, ChatRead, StreamEnd, maps, history
    <3>3. held[t] = <<>>
      BY <1>0, <3>2 DEF Carrying
    <3> QED BY <3>1, <3>2, <3>3, GoesOn, SameWaits, StayKeepsPlaces
  <2> QED BY <2>1, <2>2
<1>4. ASSUME NEW t \in Handlers, Locked(t) PROVE Placed'
  <2>1. CASE SendLocked(t) \/ BatchLocked(t) \/ BroadcastLocked(t) \/ ChatLocked(t)
    <3>1. PICK l \in {"idle", "batch", "chat"} :
            (\E list \in Lists : Push(list, req[t].id)) /\ Serve(t, l, NoRequest)
      <4>0. <<>> \in Lists /\ <<req[t].agent>> \in Lists /\ req[t].targets \in Lists
        BY ListsOfCalls DEF IInv
      <4>1. CASE SendLocked(t)
        BY <4>0, <4>1 DEF SendLocked, Return
      <4>2. CASE BatchLocked(t)
        BY <4>0, <4>2 DEF BatchLocked
      <4>3. CASE BroadcastLocked(t)
        BY <4>0, <4>3 DEF BroadcastLocked, Return
      <4>4. CASE ChatLocked(t)
        BY <4>0, <4>4 DEF ChatLocked
      <4> QED BY <2>1, <4>1, <4>2, <4>3, <4>4
    <3>2. pc[t] \in Posting /\ UNCHANGED <<held, delivered, lost, dropped>>
      BY <2>1 DEF SendLocked, BatchLocked, BroadcastLocked, ChatLocked, Posting
    <3> QED BY <3>1, <3>2, PushKeepsPlaces
  <2>2. CASE ReceiveLocked(t) \/ ListenLocked(t) \/ HeartbeatLocked(t)
    <3>1. PICK l, r : Serve(t, l, r) /\ l # "writing"
      BY <2>2 DEF ReceiveLocked, ListenLocked, HeartbeatLocked, Return
    <3>2. /\ pc[t] \in {"receive", "listen", "heartbeat"} /\ UNCHANGED queues /\ held' = held
          /\ UNCHANGED <<accepted, delivered, lost, dropped>>
      BY <2>2 DEF ReceiveLocked, ListenLocked, HeartbeatLocked, maps, history
    <3>3. held[t] = <<>>
      BY <1>0, <3>2 DEF Carrying
    <3> QED BY <3>1, <3>2, <3>3, GoesOn, SameWaits, StayKeepsPlaces
  <2>3. CASE RegisterLocked(t)
    <3>1. /\ pc[t] = "register" /\ held' = held /\ Serve(t, "idle", NoRequest)
          /\ registerAgent(req[t].agent, req[t].age)
          /\ UNCHANGED <<accepted, delivered, lost, dropped>>
      BY <2>3 DEF RegisterLocked, Return
    <3>2. req[t].agent \notin DOMAIN queues
      BY <3>1 DEF IInv, FreshIds
    <3>3. held[t] = <<>>
      BY <1>0, <3>1 DEF Carrying
    <3> QED BY <3>1, <3>2, <3>3, GoesOn, OpenWaits, StayKeepsPlaces
  <2>4. CASE UnregisterLocked(t)
    <3>1. /\ pc[t] = "unregister" /\ held' = held /\ Serve(t, "idle", NoRequest)
          /\ unregisterAgent({req[t].agent}) /\ UNCHANGED <<accepted, delivered, lost>>
      BY <2>4 DEF UnregisterLocked, Return
    <3>2. held[t] = <<>>
      BY <1>0, <3>1 DEF Carrying
    <3> QED BY <3>1, <3>2, GoesOn, LeaveKeepsPlaces
  <2> QED BY <1>4, <2>1, <2>2, <2>3, <2>4 DEF Locked
<1>5. ASSUME NEW t \in Handlers, Work(t) PROVE Placed'
  <2>1. CASE ReceivePop(t)
    <3>1. Serve(t, "popping", [req[t] EXCEPT !.left = @ - 1, !.age = 0])
          /\ [req[t] EXCEPT !.left = @ - 1, !.age = 0].agent = req[t].agent
      BY <2>1 DEF ReceivePop, IInv, TypeOK, Request
    <3>2. /\ pc[t] = "popping" /\ Pop(t, req[t].agent)
          /\ UNCHANGED <<accepted, delivered, lost, dropped>>
      BY <2>1 DEF ReceivePop, history
    <3> QED BY <3>1, <3>2, PopKeepsPlaces
  <2>2. CASE ListenPop(t)
    BY <2>2, PopKeepsPlaces DEF ListenPop, history
  <2>3. CASE ReceiveUnlock(t)
    <3>1. /\ Serve(t, "respond", req[t]) /\ UNCHANGED queues /\ held' = held
          /\ UNCHANGED <<accepted, delivered, lost, dropped>>
      BY <2>3 DEF ReceiveUnlock, maps, history
    <3> QED BY <3>1, GoesOn, SameWaits, StayKeepsPlaces
  <2>4. CASE ReceiveRespond(t)
    <3>1. Hands[t] = {req[t].agent} \X {held[t][i] : i \in DOMAIN held[t]}
      BY DEF Hands, Hand, Elements
    <3> QED BY <2>4, <3>1, GiveKeepsPlaces DEF ReceiveRespond, Return, maps
  <2>5. CASE ListenWrite(t) \/ ListenWriteFails(t)
    <3>1. Len(held[t]) = 1 /\ held[t] \in Seq(Copy)
      BY <2>5 DEF ListenWrite, ListenWriteFails, Placed, IInv, TypeOK
    <3>2. Elements(held[t]) = {Head(held[t])}
      BY <3>1 DEF Elements
    <3>3. Hands[t] = {<<req[t].agent, Head(held[t])>>}
      BY <3>2, HandIs
    <3>4. CASE ListenWrite(t)
      BY <3>3, <3>4, GiveKeepsPlaces DEF ListenWrite, maps
    <3>5. CASE ListenWriteFails(t)
      BY <3>3, <3>5, GiveKeepsPlaces DEF ListenWriteFails, Return, maps
    <3> QED BY <2>5, <3>4, <3>5
  <2>6. CASE ListenEnd(t)
    <3>1. /\ pc[t] = "streaming" /\ Serve(t, "idle", NoRequest) /\ UNCHANGED queues /\ held' = held
          /\ UNCHANGED <<accepted, delivered, lost, dropped>>
      BY <2>6 DEF ListenEnd, Return, maps, history
    <3>2. held[t] = <<>>
      BY <1>0, <3>1 DEF Carrying
    <3> QED BY <3>1, <3>2, GoesOn, SameWaits, StayKeepsPlaces
  <2> QED BY <1>5, <2>1, <2>2, <2>3, <2>4, <2>5, <2>6 DEF Work
<1>6. CASE cleanupOfflineAgents
  <2>1. \A t \in Handlers : Moves(t)
    BY <1>0, <1>6 DEF cleanupOfflineAgents, thread, Moves
  <2> QED BY <1>6, <2>1, LeaveKeepsPlaces DEF cleanupOfflineAgents
<1>7. CASE Tick
  <2>1. \A t \in Handlers : req'[t].agent = req[t].agent
    BY <1>7 DEF Tick, IInv, TypeOK, Request
  <2>2. \A t \in Handlers : Moves(t)
    BY <1>0, <1>7, <2>1 DEF Tick, Moves
  <2> QED BY <1>7, <2>2, SameWaits, StayKeepsPlaces DEF Tick, history
<1> QED BY <1>1, <1>2, <1>3, <1>4, <1>5, <1>6, <1>7 DEF Next

LEMMA InitPlaces == Init => Placed /\ FreshMessages
<1> SUFFICES ASSUME Init PROVE Placed /\ FreshMessages
  OBVIOUS
<1>1. /\ DOMAIN queues = {} /\ accepted = {} /\ delivered = {} /\ lost = {} /\ dropped = {}
      /\ \A t \in Handlers : held[t] = <<>> /\ pc[t] = "idle"
  BY DEF Init
<1>2. Waiting = {} /\ \A t \in Handlers : Hands[t] = {}
  BY <1>1, WaitingIs, HandIs
<1>3. Sorted(Waiting, Hands, delivered, lost, dropped, accepted)
  BY <1>1, <1>2 DEF Sorted, Apart, Covered
<1>4. Placed
  BY <1>1, <1>3 DEF Placed, Once, Carrying
<1>5. FreshMessages
  BY <1>1 DEF FreshMessages, Posting
<1> QED BY <1>4, <1>5

LEMMA PlacesHold == Spec => [](IInv /\ FreshMessages /\ Placed)
<1>1. (IInv /\ FreshMessages /\ Placed /\ [Next]_vars) => (FreshMessages' /\ Placed')
  BY FreshStep, PlacesStep
<1> QED BY <1>1, InitPlaces, Invariance, PTL DEF Spec

-----------------------------------------------------------------------------
(* The books balance.                                                      *)

LEMMA PlacesOf ==
  ASSUME NEW q \in Seq(Copy), Once(q), NEW m
  PROVE  /\ m \notin Elements(q) => Places(q, m) = 0
         /\ m \in Elements(q) => Places(q, m) = 1
<1>1. ASSUME m \notin Elements(q)  PROVE Places(q, m) = 0
  <2>1. {i \in DOMAIN q : q[i] = m} = {}
    BY <1>1 DEF Elements
  <2> QED BY <2>1, FS_EmptySet DEF Places
<1>2. ASSUME m \in Elements(q)  PROVE Places(q, m) = 1
  <2>1. PICK i \in DOMAIN q : q[i] = m
    BY <1>2 DEF Elements
  <2>2. {j \in DOMAIN q : q[j] = m} = {i}
    BY <2>1 DEF Once
  <2> QED BY <2>2, FS_Singleton DEF Places
<1> QED BY <1>1, <1>2

LEMMA QueuedIs ==
  ASSUME IInv, Placed, NEW a \in AgentId, NEW m \in Copy
  PROVE  Queued(a, m) = IF <<a, m>> \in Waiting THEN 1 ELSE 0
<1>1. <<a, m>> \in Waiting <=> a \in DOMAIN queues /\ m \in Elements(queues[a])
  BY WaitingIs
<1>2. CASE a \in DOMAIN queues
  <2>1. queues[a] \in Seq(Copy) /\ Once(queues[a])
    BY <1>2 DEF IInv, TypeOK, Placed
  <2> QED BY <1>1, <1>2, <2>1, PlacesOf DEF Queued
<1>3. CASE a \notin DOMAIN queues
  BY <1>1, <1>3 DEF Queued
<1> QED BY <1>2, <1>3

LEMMA InHandIs ==
  ASSUME IInv, Placed, NEW a \in AgentId, NEW m \in Copy
  PROVE  InHand(a, m) = IF \E t \in Handlers : <<a, m>> \in Hands[t] THEN 1 ELSE 0
<1> DEFINE I(t) == {i \in DOMAIN held[t] : held[t][i] = m}
           T    == {s \in Handlers : req[s].agent = a}
           U    == UNION {{t} \X I(t) : t \in T}
<1>1. \A t \in Handlers : <<a, m>> \in Hands[t] <=> t \in T /\ I(t) # {}
  BY HandIs DEF Elements
<1>2. CASE \E t \in Handlers : <<a, m>> \in Hands[t]
  <2>1. PICK t \in Handlers : <<a, m>> \in Hands[t]
    BY <1>2
  <2>2. \A s \in Handlers : s # t => <<a, m>> \notin Hands[s]
    BY <2>1 DEF Placed, Sorted, Apart
  <2>3. t \in T /\ \A s \in T : s # t => I(s) = {}
    BY <1>1, <2>1, <2>2
  <2>4. PICK i \in DOMAIN held[t] : held[t][i] = m
    BY <1>1, <2>1
  <2>5. I(t) = {i}
    BY <2>4 DEF Placed, Once
  <2> HIDE DEF I, T
  <2>6. U = {<<t, i>>}
    BY <2>3, <2>5
  <2> HIDE DEF U
  <2>7. Cardinality(U) = 1
    BY <2>6, FS_Singleton
  <2>8. InHand(a, m) = Cardinality(U)
    BY DEF InHand, U, T, I
  <2> QED BY <1>2, <2>7, <2>8
<1>3. CASE ~(\E t \in Handlers : <<a, m>> \in Hands[t])
  <2>1. \A s \in T : I(s) = {}
    BY <1>1, <1>3
  <2> HIDE DEF I, T
  <2>2. U = {}
    BY <2>1
  <2> HIDE DEF U
  <2>3. Cardinality(U) = 0
    BY <2>2, FS_EmptySet
  <2>4. InHand(a, m) = Cardinality(U)
    BY DEF InHand, U, T, I
  <2> QED BY <1>3, <2>3, <2>4
<1> QED BY <1>2, <1>3

LEMMA PlacesAccounted ==
  ASSUME IInv, Placed
  PROVE  Accounted
<1> SUFFICES ASSUME NEW a \in AgentId, NEW m \in Copy
             PROVE  Queued(a, m) + InHand(a, m) + One(delivered, a, m) + One(lost, a, m)
                      + One(dropped, a, m) = One(accepted, a, m)
  BY DEF Accounted
<1> DEFINE x == <<a, m>>
           hands == \E t \in Handlers : x \in Hands[t]
<1>1. /\ Queued(a, m) = IF x \in Waiting THEN 1 ELSE 0
      /\ InHand(a, m) = IF hands THEN 1 ELSE 0
      /\ One(delivered, a, m) = IF x \in delivered THEN 1 ELSE 0
      /\ One(lost, a, m) = IF x \in lost THEN 1 ELSE 0
      /\ One(dropped, a, m) = IF x \in dropped THEN 1 ELSE 0
      /\ One(accepted, a, m) = IF x \in accepted THEN 1 ELSE 0
  BY QueuedIs, InHandIs DEF One
<1>2. /\ x \in accepted <=> \/ x \in Waiting \/ x \in delivered \/ x \in lost \/ x \in dropped
                            \/ hands
      /\ hands => x \notin Waiting /\ x \notin delivered /\ x \notin lost /\ x \notin dropped
      /\ x \in Waiting => x \notin delivered /\ x \notin lost /\ x \notin dropped
      /\ x \in delivered => x \notin lost /\ x \notin dropped
      /\ x \in lost => x \notin dropped
  BY DEF Placed, Sorted, Apart, Covered
<1> HIDE DEF x, hands
<1> QED BY <1>1, <1>2

\* Whatever senders, receivers, listeners and evictions interleave, on any
\* number of threads, each copy of an accepted message is in exactly one place.
THEOREM AccountedHolds == Spec => []Accounted
BY PlacesHold, PlacesAccounted, PTL

=============================================================================
