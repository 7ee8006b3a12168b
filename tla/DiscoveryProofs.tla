--------------------------- MODULE DiscoveryProofs ---------------------------
(***************************************************************************)
(* What TLAPS proves of whom to call - the router, the weighted balancer,  *)
(* and the registries of agents and of services -, for any agents, tags,   *)
(* services, threads and weights.  Each part has an invariant of its own,  *)
(* which a step of another part cannot disturb because it changes none of  *)
(* its variables.                                                          *)
(***************************************************************************)
EXTENDS Parts, FiniteSetTheorems, TLAPS

-----------------------------------------------------------------------------
(* The registry of agents                                                  *)

\* Who is missing from the index was deregistered, and who is there without
\* the tag, or without being registered, was registered with other tags.
RegistryInv ==
  /\ tags_index_ \in [Tags -> SUBSET RegistryIds]
  /\ DOMAIN registered \subseteq RegistryIds
  /\ \A tag \in Tags, a \in RegistryIds :
       /\ a \in DOMAIN registered /\ tag \in registered[a] /\ a \notin withdrawn
            => a \in tags_index_[tag]
       /\ a \in tags_index_[tag] /\ a \notin retagged
            => a \in DOMAIN registered /\ tag \in registered[a]

LEMMA RegisterInv ==
  ASSUME RegistryInv, NEW a \in RegistryIds, NEW tags \in SUBSET Tags,
         register_agent(a, tags)
  PROVE  RegistryInv'
<1>1. DOMAIN registered' = DOMAIN registered \cup {a}
  BY DEF register_agent, With
<1>2. \A x \in DOMAIN registered' :
        registered'[x] = IF x = a THEN tags ELSE registered[x]
  BY DEF register_agent, With
<1>3. tags_index_' \in [Tags -> SUBSET RegistryIds]
  BY DEF RegistryInv, register_agent
<1>4. \A tag \in Tags :
        tags_index_'[tag] = tags_index_[tag] \cup (IF tag \in tags THEN {a} ELSE {})
  BY DEF register_agent
<1>5. retagged \subseteq retagged'
      /\ (a \in DOMAIN registered /\ ~(registered[a] \subseteq tags) => a \in retagged')
  BY DEF register_agent, Retagged
<1>6. withdrawn' = withdrawn \ {a}
  BY DEF register_agent
<1>7. ASSUME NEW tag \in Tags, NEW x \in RegistryIds
      PROVE  /\ x \in DOMAIN registered' /\ tag \in registered'[x] /\ x \notin withdrawn'
                  => x \in tags_index_'[tag]
             /\ x \in tags_index_'[tag] /\ x \notin retagged'
                  => x \in DOMAIN registered' /\ tag \in registered'[x]
  <2>1. CASE x = a  BY <2>1, <1>1, <1>2, <1>4, <1>5 DEF RegistryInv
  <2>2. CASE x # a  BY <2>2, <1>1, <1>2, <1>4, <1>5, <1>6 DEF RegistryInv
  <2> QED BY <2>1, <2>2
<1> QED
  BY <1>1, <1>3, <1>7 DEF RegistryInv

LEMMA RegistryStep ==
  ASSUME RegistryInv, RegistryNext \/ UNCHANGED registryVars
  PROVE  RegistryInv'
<1>1. ASSUME NEW a \in RegistryIds, NEW tags \in SUBSET Tags, register_agent(a, tags)
      PROVE  RegistryInv'
  BY <1>1, RegisterInv
<1>2. ASSUME NEW a \in RegistryIds, deregister_agent(a)  PROVE RegistryInv'
  BY <1>2 DEF RegistryInv, deregister_agent, Unindexed
<1>3. ASSUME NEW a \in RegistryIds, heartbeat(a) \/ SilencePasses(a)  PROVE RegistryInv'
  BY <1>3 DEF RegistryInv, heartbeat, SilencePasses
<1>4. CASE check_health
  BY <1>4 DEF RegistryInv, check_health, Unindexed
<1>5. CASE UNCHANGED registryVars
  BY <1>5 DEF RegistryInv, registryVars
<1> QED
  BY <1>1, <1>2, <1>3, <1>4, <1>5 DEF RegistryNext

\* A search by tag finds all that have the tag, and nobody else, but for the
\* agents that were deregistered or registered again with other tags.
THEOREM TagsFindHolds == Spec => []TagsFind
<1>1. Init => RegistryInv
  BY DEF Init, RegistryInit, RegistryInv
<1>2. RegistryInv /\ [Next]_vars => RegistryInv'
  BY RegistryStep DEF Next, Only, vars
<1>3. RegistryInv => TagsFind
  BY DEF RegistryInv, TagsFind, FoundByTag
<1> QED
  BY <1>1, <1>2, <1>3, PTL DEF Spec

-----------------------------------------------------------------------------
(* The registry of services                                                *)

Calls == {<<>>} \cup ({"register", "unregister"} \X Services \X {"asked", "noting"})

\* What Consul has, or answered with an error.
Known == consul \cup refused

Calling(t, s) == calling[t] # <<>> /\ calling[t][2] = s

\* The walk over the notes happens with their mutex held, so that they do not
\* change under it.
WalkInv ==
  /\ due \subseteq registered_services_
  /\ loop = "beating" => service_mutex_ = HealthCheck
  /\ due # {} => loop = "beating"

\* Two calls for one service have raced.  Without a race a registration that
\* was answered is with Consul until it is noted, or was answered with an
\* error, and what is noted leaves Consul only under a call that will take it out of the notes.
NotesInv ==
  /\ calling \in [Callers -> Calls]
  /\ \A t, u \in Callers, s \in Services :
       Calling(t, s) /\ Calling(u, s) /\ t # u => s \in raced
  /\ \A t \in Callers, s \in Services :
       calling[t] = <<"register", s, "noting">> /\ s \notin raced => s \in Known
  /\ registered_services_ \subseteq Services
  /\ \A s \in registered_services_ \ raced :
       s \in Known \/ \E t \in Callers : Calling(t, s) /\ calling[t][1] = "unregister"

ServiceInv == WalkInv /\ NotesInv

LEMMA WalkStep ==
  ASSUME WalkInv, ServiceNext \/ UNCHANGED serviceVars
  PROVE  WalkInv'
<1> USE DEF WalkInv
<1>1. ASSUME NEW t \in Callers, NEW o, NEW s \in Services, Ask(t, o, s)  PROVE WalkInv'
  BY <1>1 DEF Ask, health
<1>2. ASSUME NEW t \in Callers, Answered(t) \/ Unanswered(t)  PROVE WalkInv'
  BY <1>2 DEF Answered, Unanswered, health
<1>3. ASSUME NEW t \in Callers, Noted(t)  PROVE WalkInv'
  <2>1. due = {} /\ UNCHANGED health
    BY <1>3, ServiceAssumption DEF ServiceAssumption, Noted
  <2> QED
    BY <2>1 DEF health
<1>4. CASE startHealthCheck \/ stopHealthCheck \/ TestHealthCheck \/ Wakes
  BY <1>4 DEF startHealthCheck, stopHealthCheck, TestHealthCheck, Wakes
<1>5. CASE LockNotes
  BY <1>5 DEF LockNotes
<1>6. CASE UnlockNotes
  BY <1>6 DEF UnlockNotes
<1>7. ASSUME NEW s \in Services, Beat(s)  PROVE WalkInv'
  BY <1>7 DEF Beat
<1>8. CASE UNCHANGED serviceVars
  BY <1>8 DEF serviceVars, health
<1> QED
  BY <1>1, <1>2, <1>3, <1>4, <1>5, <1>6, <1>7, <1>8 DEF ServiceNext

\* What a call that is under way is made of.
LEMMA CallShape ==
  ASSUME NotesInv, NEW t \in Callers, calling[t] # <<>>
  PROVE  /\ calling[t] = <<calling[t][1], calling[t][2], calling[t][3]>>
         /\ calling[t][1] \in {"register", "unregister"}
         /\ calling[t][2] \in Services
         /\ calling[t][3] \in {"asked", "noting"}
BY DEF NotesInv, Calls

LEMMA AskNotes ==
  ASSUME NotesInv, NEW t \in Callers, NEW o \in {"register", "unregister"},
         NEW s \in Services, Ask(t, o, s)
  PROVE  NotesInv'
<1>1. calling[t] = <<>> /\ calling' = [calling EXCEPT ![t] = <<o, s, "asked">>]
      /\ UNCHANGED <<registered_services_, Known>>
  BY DEF Ask, Known
<1>2. raced \subseteq raced' /\ (OthersCall(t, s) => s \in raced')
  BY DEF Ask
<1>3. \A u \in Callers : \A r : Calling(u, r)' <=> (IF u = t THEN r = s ELSE Calling(u, r))
  BY <1>1 DEF NotesInv, Calling
<1>4. calling' \in [Callers -> Calls]
  BY <1>1 DEF NotesInv, Calls
<1>5. ASSUME NEW u \in Callers, NEW v \in Callers, NEW r \in Services,
             Calling(u, r)', Calling(v, r)', u # v
      PROVE  r \in raced'
  <2>1. CASE u # t /\ v # t  BY <2>1, <1>5, <1>2, <1>3 DEF NotesInv
  <2>2. CASE u = t \/ v = t
    <3>1. r = s /\ OthersCall(t, s)
      BY <2>2, <1>5, <1>3 DEF OthersCall, Calling
    <3> QED
      BY <3>1, <1>2
  <2> QED BY <2>1, <2>2
<1>6. ASSUME NEW u \in Callers, NEW r \in Services,
             calling'[u] = <<"register", r, "noting">>, r \notin raced'
      PROVE  r \in Known'
  <2>1. u # t  BY <1>6, <1>1 DEF NotesInv
  <2> QED BY <2>1, <1>6, <1>1, <1>2 DEF NotesInv
<1>7. ASSUME NEW r \in registered_services_' \ raced'
      PROVE  r \in Known' \/ \E u \in Callers : Calling(u, r)' /\ calling'[u][1] = "unregister"
  <2>1. r \in Known \/ \E u \in Callers : Calling(u, r) /\ calling[u][1] = "unregister"
    BY <1>7, <1>1, <1>2 DEF NotesInv
  <2>2. ASSUME NEW u \in Callers, Calling(u, r), calling[u][1] = "unregister"
        PROVE  Calling(u, r)' /\ calling'[u][1] = "unregister"
    BY <2>2, <1>1, <1>3 DEF Calling
  <2> QED BY <2>1, <2>2, <1>1
<1> QED
  BY <1>1, <1>4, <1>5, <1>6, <1>7 DEF NotesInv

\* An answer, or none: Consul may have carried out the request, and a
\* registration that got no answer ends.
LEMMA RequestNotes ==
  ASSUME NotesInv, NEW t \in Callers, Answered(t) \/ Unanswered(t)
  PROVE  NotesInv'
<1> DEFINE verb == calling[t][1]
           s    == calling[t][2]
<1>1. calling[t] = <<verb, s, "asked">> /\ verb \in {"register", "unregister"} /\ s \in Services
  BY CallShape DEF Answered, Unanswered
<1>2. UNCHANGED <<registered_services_, raced>>
  BY DEF Answered, Unanswered
<1>3. /\ verb = "register" => Known \subseteq Known' /\ (Answered(t) => s \in Known')
      /\ verb = "unregister" => Known \ {s} \subseteq Known'
  BY DEF Answered, Unanswered, CarryOut, Known
<1>4. \/ calling' = [calling EXCEPT ![t] = <<verb, s, "noting">>]
            /\ (verb = "register" => Answered(t))
      \/ calling' = [calling EXCEPT ![t] = <<>>] /\ verb = "register"
  <2>1. CASE Answered(t)
    <3>1. calling' = [calling EXCEPT ![t] = [calling[t] EXCEPT ![3] = "noting"]]
      BY <2>1 DEF Answered, NotesInv
    <3>2. [<<verb, s, "asked">> EXCEPT ![3] = "noting"] = <<verb, s, "noting">>
      OBVIOUS
    <3> QED
      BY <3>1, <3>2, <1>1, <2>1
  <2>2. CASE Unanswered(t)
    BY <2>2, <1>1 DEF Unanswered, NotesInv
  <2> QED BY <2>1, <2>2
<1>5. calling' \in [Callers -> Calls]
  BY <1>1, <1>4 DEF NotesInv, Calls
<1>6. \A u \in Callers : u # t => calling'[u] = calling[u]
  BY <1>4 DEF NotesInv
<1>7. calling'[t] \in {<<>>, <<verb, s, "noting">>}
  BY <1>4 DEF NotesInv
<1>8. Calling(t, s)
  BY <1>1 DEF Calling
<1>9. \A u \in Callers : \A r : Calling(u, r)' => Calling(u, r)
  BY <1>6, <1>7, <1>1 DEF Calling
<1>10. ASSUME NEW u \in Callers, NEW r \in Services, r \notin raced, u # t,
              Calling(u, r)
       PROVE  r # s
  BY <1>10, <1>8 DEF NotesInv
<1>11. ASSUME NEW u \in Callers, NEW r \in Services,
              calling'[u] = <<"register", r, "noting">>, r \notin raced'
       PROVE  r \in Known'
  <2>1. CASE u = t
    BY <2>1, <1>11, <1>1, <1>3, <1>4, <1>7 DEF NotesInv
  <2>2. CASE u # t
    <3>1. calling[u] = <<"register", r, "noting">> /\ r \in Known
      BY <2>2, <1>11, <1>6, <1>2 DEF NotesInv
    <3>2. r # s
      BY <3>1, <2>2, <1>10, <1>11, <1>2 DEF Calling
    <3> QED
      BY <3>1, <3>2, <1>3, <1>1
  <2> QED BY <2>1, <2>2
<1>12. ASSUME NEW r \in registered_services_' \ raced'
       PROVE  r \in Known' \/ \E u \in Callers : Calling(u, r)' /\ calling'[u][1] = "unregister"
  <2>1. CASE verb = "unregister" /\ r = s
    <3>1. calling'[t] = <<verb, s, "noting">>
      BY <2>1, <1>4 DEF NotesInv
    <3>2. Calling(t, r)' /\ calling'[t][1] = "unregister"
      BY <3>1, <2>1 DEF Calling
    <3> QED
      BY <3>2
  <2>2. CASE ~(verb = "unregister" /\ r = s)
    <3>1. r \in Known \/ \E u \in Callers : Calling(u, r) /\ calling[u][1] = "unregister"
      BY <1>12, <1>2 DEF NotesInv
    <3>2. CASE r \in Known
      BY <3>2, <2>2, <1>1, <1>3
    <3>3. ASSUME NEW u \in Callers, Calling(u, r), calling[u][1] = "unregister"
          PROVE  Calling(u, r)' /\ calling'[u][1] = "unregister"
      <4>1. u # t
        BY <3>3, <2>2, <1>1 DEF Calling
      <4> QED
        BY <4>1, <3>3, <1>6 DEF Calling
    <3> QED BY <3>1, <3>2, <3>3
  <2> QED BY <2>1, <2>2
<1> QED
  BY <1>2, <1>5, <1>9, <1>11, <1>12 DEF NotesInv

LEMMA NotedNotes ==
  ASSUME NotesInv, NEW t \in Callers, Noted(t)
  PROVE  NotesInv'
<1> DEFINE verb == calling[t][1]
           s    == calling[t][2]
<1>1. calling[t] = <<verb, s, "noting">> /\ verb \in {"register", "unregister"} /\ s \in Services
  BY CallShape DEF Noted
<1>2. calling' = [calling EXCEPT ![t] = <<>>] /\ UNCHANGED Known
  BY DEF Noted, Known
<1>3. \/ verb = "register" /\ registered_services_' = registered_services_ \cup {s} /\ raced' = raced
      \/ verb = "unregister" /\ registered_services_' = registered_services_ \ {s}
           /\ raced \ {s} \subseteq raced' /\ (OthersCall(t, s) => raced' = raced)
  <2>1. CASE verb = "register"
    BY <2>1 DEF Noted
  <2>2. CASE verb = "unregister"
    BY <2>2 DEF Noted
  <2> QED BY <2>1, <2>2, <1>1
<1>4. calling' \in [Callers -> Calls]
  BY <1>2 DEF NotesInv, Calls
<1>5. calling'[t] = <<>> /\ \A u \in Callers : u # t => calling'[u] = calling[u]
  BY <1>2 DEF NotesInv
<1>6. \A u \in Callers : \A r : Calling(u, r)' => Calling(u, r) /\ u # t
  BY <1>5 DEF Calling
<1>7. ASSUME NEW u \in Callers, NEW r \in Services, Calling(u, r)', r \notin raced'
      PROVE  r \notin raced
  BY <1>7, <1>3, <1>6 DEF OthersCall, Calling
<1>8. \A u, v \in Callers, r \in Services :
        Calling(u, r)' /\ Calling(v, r)' /\ u # v => r \in raced'
  BY <1>6, <1>7 DEF NotesInv
<1>9. ASSUME NEW u \in Callers, NEW r \in Services,
             calling'[u] = <<"register", r, "noting">>, r \notin raced'
      PROVE  r \in Known'
  <2>1. u # t /\ calling[u] = <<"register", r, "noting">>
    BY <1>9, <1>5
  <2>2. Calling(u, r)'
    BY <1>9 DEF Calling
  <2> QED
    BY <2>1, <2>2, <1>2, <1>7, <1>9 DEF NotesInv
<1>10. ASSUME NEW r \in registered_services_' \ raced'
       PROVE  r \in Known' \/ \E u \in Callers : Calling(u, r)' /\ calling'[u][1] = "unregister"
  <2>1. CASE r = s
    <3>1. verb = "register" /\ r \notin raced
      BY <2>1, <1>3, <1>10
    <3> QED
      BY <3>1, <2>1, <1>1, <1>2 DEF NotesInv
  <2>2. CASE r # s
    <3>1. r \in registered_services_ \ raced
      BY <2>2, <1>3, <1>10
    <3>2. r \in Known \/ \E u \in Callers : Calling(u, r) /\ calling[u][1] = "unregister"
      BY <3>1 DEF NotesInv
    <3>3. ASSUME NEW u \in Callers, Calling(u, r), calling[u][1] = "unregister"
          PROVE  Calling(u, r)' /\ calling'[u][1] = "unregister"
      <4>1. u # t
        BY <3>3, <2>2 DEF Calling
      <4> QED
        BY <4>1, <3>3, <1>5 DEF Calling
    <3> QED BY <3>2, <3>3, <1>2
  <2> QED BY <2>1, <2>2
<1>11. registered_services_' \subseteq Services
  BY <1>1, <1>3 DEF NotesInv
<1> QED
  BY <1>4, <1>8, <1>9, <1>10, <1>11 DEF NotesInv

LEMMA NotesStep ==
  ASSUME NotesInv, ServiceNext \/ UNCHANGED serviceVars
  PROVE  NotesInv'
<1>1. ASSUME UNCHANGED <<registered_services_, calling, consul, refused, raced>>
      PROVE  NotesInv'
  BY <1>1 DEF NotesInv, Calling, Known
<1>2. CASE startHealthCheck \/ stopHealthCheck \/ TestHealthCheck \/ LockNotes
             \/ UnlockNotes \/ Wakes
  BY <1>1, <1>2 DEF startHealthCheck, stopHealthCheck, TestHealthCheck, LockNotes,
     UnlockNotes, Wakes
<1>3. ASSUME NEW s \in Services, Beat(s)  PROVE NotesInv'
  BY <1>1, <1>3 DEF Beat
<1>4. CASE UNCHANGED serviceVars
  BY <1>1, <1>4 DEF serviceVars
<1> QED
  BY <1>2, <1>3, <1>4, AskNotes, RequestNotes, NotedNotes DEF ServiceNext

\* The health check reports only what is noted, and what is noted is known to
\* Consul, unless it answered the registration with an error or two threads
\* used the same service at once.
THEOREM ReportsOnlyRegisteredHolds == Spec => []ReportsOnlyRegistered
<1>1. Init => ServiceInv
  BY DEF Init, ServiceInit, ServiceInv, WalkInv, NotesInv, Calls, Calling, Known
<1>2. ServiceInv /\ [Next]_vars => ServiceInv'
  BY WalkStep, NotesStep DEF Next, Only, vars, ServiceInv
<1>3. ServiceInv => ReportsOnlyRegistered
  BY DEF ServiceInv, WalkInv, NotesInv, ReportsOnlyRegistered, Calling, Known
<1> QED
  BY <1>1, <1>2, <1>3, PTL DEF Spec

-----------------------------------------------------------------------------
(* The weighted balancer                                                   *)

Ints     == -(IntMax + 1)..IntMax
Endpoint == [is_healthy : BOOLEAN, weight : Ints, current_weight : Int]

\* The two endpoints have been up, and have weights, since the update.
TwoUp ==
  /\ Len(weighted_endpoints_) = 2 /\ steady
  /\ weighted_endpoints_[1].weight > 0 /\ weighted_endpoints_[2].weight > 0

BothHealthy == weighted_endpoints_[1].is_healthy /\ weighted_endpoints_[2].is_healthy

\* What each has gained is its weight for each selection of the other.
Gain(i, j) == weighted_endpoints_[i].weight * selected[j]

Fits == Gain(1, 2) <= IntMax /\ Gain(2, 1) <= IntMax

Shared ==
  /\ -weighted_endpoints_[1].weight <= Gain(1, 2) - Gain(2, 1)
  /\ Gain(1, 2) - Gain(2, 1) < weighted_endpoints_[2].weight

\* The current weights are what was gained, or have wrapped because neither
\* could be selected once more within the ints.
Earned ==
  LET e == weighted_endpoints_
  IN  \/ e[1].current_weight = Gain(1, 2) /\ e[2].current_weight = Gain(2, 1)
      \/ Gain(1, 2) + e[1].weight > IntMax /\ Gain(2, 1) + e[2].weight > IntMax

BalancerInv ==
  /\ weighted_endpoints_ \in Seq(Endpoint)
  /\ selected \in Seq(Nat) /\ Len(selected) = Len(weighted_endpoints_)
  /\ steady \in BOOLEAN
  /\ TwoUp => BothHealthy
  /\ TwoUp /\ Fits => Shared /\ Earned

LEMMA Element ==
  ASSUME NEW S, NEW list \in Seq(S), NEW i \in 1..Len(list)
  PROVE  list[i] \in S
OBVIOUS

LEMMA Fields ==
  ASSUME NEW e \in Endpoint
  PROVE  /\ e.is_healthy \in BOOLEAN /\ e.weight \in Int /\ e.current_weight \in Int
         /\ e.weight <= IntMax
<1>1. e.is_healthy \in BOOLEAN /\ e.weight \in Ints /\ e.current_weight \in Int
  BY DEF Endpoint
<1> QED
  BY <1>1, BalancerAssumption DEF Ints, BalancerAssumption

\* A sum of two ints is itself, or negative when it is too large.
LEMMA WrappedSum ==
  ASSUME NEW n \in Int
  PROVE  /\ Wrapped(n) \in Int
         /\ 0 <= n /\ n <= IntMax => Wrapped(n) = n
         /\ IntMax < n /\ n <= 2 * IntMax => Wrapped(n) < 0
BY BalancerAssumption DEF BalancerAssumption, Wrapped

Fresh(h, w) == [is_healthy |-> h, weight |-> w, current_weight |-> 0]

LEMMA FreshFields ==
  ASSUME NEW h \in BOOLEAN, NEW w \in Int
  PROVE  /\ Fresh(h, w).weight = w /\ Fresh(h, w).current_weight = 0
         /\ h => Fresh(h, w).is_healthy
<1>1. Fresh(h, w).weight = w /\ Fresh(h, w).current_weight = 0
  BY DEF Fresh
<1>2. CASE h = TRUE
  BY <1>1, <1>2 DEF Fresh
<1>3. CASE h = FALSE
  BY <1>1, <1>3
<1> QED
  BY <1>2, <1>3

\* A current weight is changed by itself.
LEMMA Changed ==
  ASSUME NEW e \in Endpoint, NEW c \in Int
  PROVE  LET f == [e EXCEPT !.current_weight = c]
         IN  /\ f \in Endpoint
             /\ f.is_healthy = e.is_healthy /\ f.weight = e.weight /\ f.current_weight = c
BY DEF Endpoint

LEMMA UpdateInv ==
  ASSUME updateEndpoints
  PROVE  BalancerInv'
<1>a. PICK n \in 0..MaxEndpoints :
        \E up \in [1..n -> BOOLEAN], w \in [1..n -> Weights \cup {1}] :
          /\ weighted_endpoints_' =
               [i \in 1..n |-> [is_healthy |-> up[i], weight |-> w[i], current_weight |-> 0]]
          /\ selected' = [i \in 1..n |-> 0]
          /\ steady' = \A i \in 1..n : up[i]
  BY DEF updateEndpoints
<1>1. PICK up \in [1..n -> BOOLEAN], w \in [1..n -> Weights \cup {1}] :
        /\ weighted_endpoints_' =
             [i \in 1..n |-> [is_healthy |-> up[i], weight |-> w[i], current_weight |-> 0]]
        /\ selected' = [i \in 1..n |-> 0]
        /\ steady' = \A i \in 1..n : up[i]
  BY <1>a
<1>b. Weights \cup {1} \subseteq Ints /\ Ints \subseteq Int /\ n \in Nat
  BY BalancerAssumption DEF BalancerAssumption, Ints
<1>2. /\ n \in Nat
      /\ \A i \in 1..n : w[i] \in Int /\ w[i] \in Ints
      /\ \A i \in 1..n : up[i] \in BOOLEAN
  BY <1>b
<1>3. weighted_endpoints_' \in Seq(Endpoint) /\ Len(weighted_endpoints_') = n
  BY <1>1, <1>2 DEF Endpoint
<1>4. selected' \in Seq(Nat) /\ Len(selected') = n
  BY <1>1, <1>2
<1>5. steady' \in BOOLEAN
  BY <1>1
<1>6. ASSUME TwoUp'  PROVE (BothHealthy /\ Shared /\ Earned)'
  <2>1. n = 2
    BY <1>3, <1>6 DEF TwoUp
  <2>2. \A i \in 1..n : weighted_endpoints_'[i] = Fresh(up[i], w[i]) /\ selected'[i] = 0
    BY <1>1 DEF Fresh
  <2>3. 1 \in 1..n /\ 2 \in 1..n
    BY <2>1
  <2>4. up[1] /\ up[2]
    BY <1>1, <1>6, <2>3 DEF TwoUp
  <2>5. \A i \in 1..n : /\ weighted_endpoints_'[i].weight = w[i]
                        /\ weighted_endpoints_'[i].current_weight = 0
                        /\ up[i] => weighted_endpoints_'[i].is_healthy
    BY <2>2, <1>2, FreshFields
  <2>6. w[1] \in Int /\ w[2] \in Int /\ w[1] > 0 /\ w[2] > 0
    BY <1>2, <1>6, <2>3, <2>5 DEF TwoUp
  <2>8. selected'[1] = 0 /\ selected'[2] = 0
    BY <2>2, <2>3
  <2>9. weighted_endpoints_'[1].is_healthy /\ weighted_endpoints_'[2].is_healthy
    BY <2>3, <2>4, <2>5
  <2>10. Gain(1, 2)' = 0 /\ Gain(2, 1)' = 0
    BY <2>3, <2>5, <2>6, <2>8 DEF Gain
  <2> QED
    BY <2>3, <2>5, <2>6, <2>9, <2>10 DEF BothHealthy, Shared, Earned
<1> QED
  BY <1>3, <1>4, <1>5, <1>6 DEF BalancerInv

LEMMA MarkInv ==
  ASSUME BalancerInv, NEW i \in DOMAIN weighted_endpoints_, NEW h \in BOOLEAN,
         markEndpointStatus(i, h)
  PROVE  BalancerInv'
<1>1. weighted_endpoints_' \in Seq(Endpoint)
      /\ Len(weighted_endpoints_') = Len(weighted_endpoints_)
  <2>1. weighted_endpoints_ \in Seq(Endpoint)
    BY DEF BalancerInv
  <2>2. weighted_endpoints_[i] \in Endpoint
    BY <2>1, Element
  <2>3. [weighted_endpoints_[i] EXCEPT !.is_healthy = h] \in Endpoint
    BY <2>2 DEF Endpoint
  <2>4. weighted_endpoints_' =
          [weighted_endpoints_ EXCEPT ![i] = [weighted_endpoints_[i] EXCEPT !.is_healthy = h]]
    BY DEF markEndpointStatus
  <2> QED
    BY <2>1, <2>3, <2>4
<1>2. selected' = selected /\ steady' = FALSE
  BY DEF markEndpointStatus
<1> QED
  BY <1>1, <1>2 DEF BalancerInv, TwoUp

\* What a selection does to two endpoints that are up: the arithmetic.
LEMMA Pays ==
  ASSUME NEW w1 \in Int, NEW w2 \in Int, NEW s1 \in Nat, NEW s2 \in Nat
  PROVE  /\ w1 * (s2 + 1) = w1 * s2 + w1
         /\ w2 * (s1 + 1) = w2 * s1 + w2
         /\ w1 > 0 => w1 * s2 >= 0
         /\ w2 > 0 => w2 * s1 >= 0
OBVIOUS

\* Gained leaves everything but the current weights alone.
LEMMA GainedShape ==
  ASSUME BalancerInv
  PROVE  /\ Gained \in Seq(Endpoint) /\ Len(Gained) = Len(weighted_endpoints_)
         /\ \A i \in DOMAIN Gained :
              LET e == weighted_endpoints_[i]
              IN  /\ Gained[i].is_healthy = e.is_healthy /\ Gained[i].weight = e.weight
                  /\ e.is_healthy =>
                       Gained[i].current_weight = Wrapped(e.current_weight + e.weight)
<1>1. weighted_endpoints_ \in Seq(Endpoint)
  BY DEF BalancerInv
<1> DEFINE e(i) == weighted_endpoints_[i]
           g(i) == IF e(i).is_healthy
                   THEN [e(i) EXCEPT !.current_weight = Wrapped(@ + e(i).weight)] ELSE e(i)
<1>2. Gained = [i \in 1..Len(weighted_endpoints_) |-> g(i)]
  BY <1>1 DEF Gained
<1>3. ASSUME NEW i \in 1..Len(weighted_endpoints_)
      PROVE  /\ g(i) \in Endpoint
             /\ g(i).is_healthy = e(i).is_healthy /\ g(i).weight = e(i).weight
             /\ e(i).is_healthy => g(i).current_weight = Wrapped(e(i).current_weight + e(i).weight)
  <2>1. e(i) \in Endpoint
    BY <1>1, Element
  <2>2. CASE e(i).is_healthy
    <3>1. Wrapped(e(i).current_weight + e(i).weight) \in Int
      <4>1. e(i).current_weight + e(i).weight \in Int
        BY <2>1, Fields
      <4> QED
        BY <4>1, WrappedSum
    <3>2. g(i) = [e(i) EXCEPT !.current_weight = Wrapped(e(i).current_weight + e(i).weight)]
      BY <2>2
    <3> HIDE DEF e, g
    <3> QED
      BY <2>1, <3>1, <3>2, Changed
  <2>3. CASE ~e(i).is_healthy
    BY <2>1, <2>3
  <2> QED BY <2>2, <2>3
<1>4. Len(weighted_endpoints_) \in Nat
  BY <1>1
<1> HIDE DEF g
<1>5. Gained \in Seq(Endpoint) /\ Len(Gained) = Len(weighted_endpoints_)
      /\ DOMAIN Gained = 1..Len(weighted_endpoints_)
  BY <1>2, <1>3, <1>4
<1> QED
  BY <1>2, <1>3, <1>5

LEMMA PairTyped ==
  ASSUME BalancerInv, Len(weighted_endpoints_) = 2
  PROVE  \A i \in {1, 2} : /\ weighted_endpoints_[i].weight \in Int
                            /\ weighted_endpoints_[i].weight <= IntMax
                            /\ weighted_endpoints_[i].current_weight \in Int
                            /\ selected[i] \in Nat
<1> SUFFICES ASSUME NEW i \in {1, 2}
             PROVE  /\ weighted_endpoints_[i].weight \in Int
                    /\ weighted_endpoints_[i].weight <= IntMax
                    /\ weighted_endpoints_[i].current_weight \in Int
                    /\ selected[i] \in Nat
  OBVIOUS
<1>1. weighted_endpoints_ \in Seq(Endpoint) /\ selected \in Seq(Nat)
      /\ i \in 1..Len(weighted_endpoints_) /\ i \in 1..Len(selected)
  BY DEF BalancerInv
<1>2. weighted_endpoints_[i] \in Endpoint /\ selected[i] \in Nat
  BY <1>1, Element
<1> QED
  BY <1>2, Fields

LEMMA SelectInv ==
  ASSUME BalancerInv, selectEndpoint
  PROVE  BalancerInv'
<1> DEFINE G == Gained
<1>1. /\ G \in Seq(Endpoint) /\ Len(G) = Len(weighted_endpoints_)
      /\ \A i \in DOMAIN G :
           /\ G[i].is_healthy = weighted_endpoints_[i].is_healthy
           /\ G[i].weight = weighted_endpoints_[i].weight
           /\ weighted_endpoints_[i].is_healthy =>
                G[i].current_weight
                  = Wrapped(weighted_endpoints_[i].current_weight + weighted_endpoints_[i].weight)
  BY GainedShape
<1>2. steady' = steady
  BY DEF selectEndpoint
<1>3. CASE \E i \in DOMAIN G : Best(G, i)
  <2>1. PICK b \in DOMAIN G :
          /\ Best(G, b)
          /\ weighted_endpoints_' = Paid(G, b)
          /\ selected' = [selected EXCEPT ![b] = @ + 1]
    BY <1>3 DEF selectEndpoint
  <2> HIDE DEF G
  <2>2. /\ selected' \in Seq(Nat) /\ Len(selected') = Len(selected)
        /\ \A i \in DOMAIN G : selected'[i] = IF i = b THEN selected[i] + 1 ELSE selected[i]
    BY <2>1, <1>1 DEF BalancerInv
  <2>3. /\ weighted_endpoints_' \in Seq(Endpoint) /\ Len(weighted_endpoints_') = Len(G)
        /\ \A i \in DOMAIN G :
             /\ weighted_endpoints_'[i].is_healthy = G[i].is_healthy
             /\ weighted_endpoints_'[i].weight = G[i].weight
             /\ weighted_endpoints_'[i].current_weight =
                  IF i = b THEN Wrapped(G[i].current_weight - G[i].weight) ELSE G[i].current_weight
    <3>1. G[b] \in Endpoint
      BY <1>1, Element
    <3>2. Wrapped(G[b].current_weight - G[b].weight) \in Int
      <4>1. G[b].current_weight - G[b].weight \in Int
        BY <3>1, Fields
      <4> QED
        BY <4>1, WrappedSum
    <3> DEFINE f == [G[b] EXCEPT !.current_weight = Wrapped(G[b].current_weight - G[b].weight)]
    <3>3. /\ f \in Endpoint /\ f.is_healthy = G[b].is_healthy /\ f.weight = G[b].weight
          /\ f.current_weight = Wrapped(G[b].current_weight - G[b].weight)
      BY <3>1, <3>2, Changed
    <3>4. weighted_endpoints_' = [G EXCEPT ![b] = f]
      BY <2>1 DEF Paid
    <3> HIDE DEF f
    <3>5. weighted_endpoints_' \in Seq(Endpoint) /\ Len(weighted_endpoints_') = Len(G)
          /\ \A i \in DOMAIN G : weighted_endpoints_'[i] = IF i = b THEN f ELSE G[i]
      BY <3>3, <3>4, <1>1
    <3> QED
      BY <3>3, <3>5
  <2>4. ASSUME TwoUp'
        PROVE  BothHealthy' /\ (Fits' => (Shared /\ Earned)')
    <3>1. Len(G) = 2 /\ steady /\ 1 \in DOMAIN G /\ 2 \in DOMAIN G
      BY <2>4, <2>3, <1>1, <1>2 DEF TwoUp
    <3> DEFINE w1 == weighted_endpoints_[1].weight
               w2 == weighted_endpoints_[2].weight
               c1 == weighted_endpoints_[1].current_weight
               c2 == weighted_endpoints_[2].current_weight
               p  == Gain(1, 2)
               q  == Gain(2, 1)
    <3>2. w1 > 0 /\ w2 > 0
      BY <2>4, <2>3, <3>1, <1>1 DEF TwoUp
    <3>3. TwoUp
      BY <3>1, <3>2, <1>1 DEF TwoUp
    <3>4. w1 \in Int /\ w2 \in Int /\ c1 \in Int /\ c2 \in Int
          /\ selected[1] \in Nat /\ selected[2] \in Nat
          /\ w1 <= IntMax /\ w2 <= IntMax /\ IntMax \in Nat
      BY PairTyped, <3>1, <1>1, BalancerAssumption DEF BalancerAssumption
    <3>5. G[1].is_healthy /\ G[2].is_healthy
          /\ G[1].current_weight = Wrapped(c1 + w1) /\ G[2].current_weight = Wrapped(c2 + w2)
          /\ G[1].weight = w1 /\ G[2].weight = w2
      BY <3>1, <3>3, <1>1 DEF BalancerInv, BothHealthy
    <3>6. p \in Int /\ q \in Int /\ p >= 0 /\ q >= 0
          /\ w1 * (selected[2] + 1) = p + w1 /\ w2 * (selected[1] + 1) = q + w2
      BY <3>2, <3>4, Pays DEF Gain
    <3>7. Fits => /\ -w1 <= p - q /\ p - q < w2
                  /\ \/ c1 = p /\ c2 = q
                     \/ p + w1 > IntMax /\ q + w2 > IntMax
      BY <3>3 DEF BalancerInv, Shared, Earned
    <3>a. \A i \in {1, 2} :
            weighted_endpoints_'[i].current_weight =
              IF i = b THEN Wrapped(G[i].current_weight - G[i].weight) ELSE G[i].current_weight
      BY <2>3, <3>1
    <3>b. weighted_endpoints_'[1].weight = w1 /\ weighted_endpoints_'[2].weight = w2
          /\ weighted_endpoints_'[1].is_healthy /\ weighted_endpoints_'[2].is_healthy
      BY <2>3, <3>1, <3>5
    <3>c. Gain(1, 2)' = w1 * selected'[2] /\ Gain(2, 1)' = w2 * selected'[1]
      BY <3>b DEF Gain
    <3>d. p = w1 * selected[2] /\ q = w2 * selected[1] /\ (Fits <=> p <= IntMax /\ q <= IntMax)
      BY DEF Gain, Fits
    <3> HIDE DEF w1, w2, c1, c2, p, q
    <3>8. ASSUME b = 1, Fits'  PROVE (Shared /\ Earned)'
      <4>1. selected'[1] = selected[1] + 1 /\ selected'[2] = selected[2]
        BY <3>8, <2>2, <3>1
      <4>2. Gain(1, 2)' = p /\ Gain(2, 1)' = q + w2
        BY <3>c, <3>6, <3>d, <4>1
      <4>3. p <= IntMax /\ q + w2 <= IntMax
        BY <3>8, <4>2 DEF Fits
      <4>4. -w1 <= p - q /\ p - q < w2 /\ c1 = p /\ c2 = q
        BY <4>3, <3>2, <3>4, <3>6, <3>7, <3>d
      <4>5. Wrapped(q + w2) = q + w2
        BY <4>3, <3>2, <3>4, <3>6, WrappedSum
      <4>6. 0 < Wrapped(p + w1) /\ q + w2 <= Wrapped(p + w1)
        <5>1. Best(G, 1) /\ G[1].is_healthy /\ G[2].is_healthy
          BY <2>1, <3>8, <3>5
        <5>2. 0 < G[1].current_weight /\ G[2].current_weight <= G[1].current_weight
          <6>1. Wrapped(p + w1) \in Int /\ p + w1 \in Int
            BY <3>4, <3>6, WrappedSum
          <6> QED
            BY <5>1, <6>1, <4>4, <4>5, <3>1, <3>4, <3>5, <3>6 DEF Best
        <5> QED
          BY <5>2, <3>5, <4>4, <4>5
      <4>7. p + w1 <= IntMax
        BY <4>3, <4>6, <3>4, <3>6, WrappedSum
      <4>8. Wrapped(p + w1) = p + w1 /\ Wrapped((p + w1) - w1) = p
        BY <4>3, <4>7, <3>2, <3>4, <3>6, WrappedSum
      <4>9. weighted_endpoints_'[1].current_weight = p
            /\ weighted_endpoints_'[2].current_weight = q + w2
        <5>1. G[1].current_weight = p + w1 /\ G[2].current_weight = q + w2 /\ G[1].weight = w1
          BY <4>4, <4>5, <4>8, <3>5
        <5>2. /\ weighted_endpoints_'[1].current_weight
                   = Wrapped(G[1].current_weight - G[1].weight)
              /\ weighted_endpoints_'[2].current_weight = G[2].current_weight
          BY <3>8, <3>a
        <5> QED
          BY <5>1, <5>2, <4>8
      <4> QED
        BY <4>2, <4>4, <4>6, <4>8, <4>9, <3>2, <3>4, <3>6, <3>b DEF Shared, Earned
    <3>9. ASSUME b = 2, Fits'  PROVE (Shared /\ Earned)'
      <4>1. selected'[1] = selected[1] /\ selected'[2] = selected[2] + 1
        BY <3>9, <2>2, <3>1
      <4>2. Gain(1, 2)' = p + w1 /\ Gain(2, 1)' = q
        BY <3>c, <3>6, <3>d, <4>1
      <4>3. p + w1 <= IntMax /\ q <= IntMax
        BY <3>9, <4>2 DEF Fits
      <4>4. -w1 <= p - q /\ p - q < w2 /\ c1 = p /\ c2 = q
        BY <4>3, <3>2, <3>4, <3>6, <3>7, <3>d
      <4>5. Wrapped(p + w1) = p + w1
        BY <4>3, <3>2, <3>4, <3>6, WrappedSum
      <4>6. 0 < Wrapped(q + w2) /\ p + w1 < Wrapped(q + w2)
        <5>1. Best(G, 2) /\ G[1].is_healthy /\ G[2].is_healthy
          BY <2>1, <3>9, <3>5
        <5>2. 0 < G[2].current_weight /\ G[1].current_weight < G[2].current_weight
          <6>1. Wrapped(q + w2) \in Int /\ q + w2 \in Int
            BY <3>4, <3>6, WrappedSum
          <6> QED
            BY <5>1, <6>1, <4>4, <4>5, <3>1, <3>4, <3>5, <3>6 DEF Best
        <5> QED
          BY <5>2, <3>5, <4>4, <4>5
      <4>7. q + w2 <= IntMax
        BY <4>3, <4>6, <3>4, <3>6, WrappedSum
      <4>8. Wrapped(q + w2) = q + w2 /\ Wrapped((q + w2) - w2) = q
        BY <4>3, <4>7, <3>2, <3>4, <3>6, WrappedSum
      <4>9. weighted_endpoints_'[1].current_weight = p + w1
            /\ weighted_endpoints_'[2].current_weight = q
        <5>1. G[1].current_weight = p + w1 /\ G[2].current_weight = q + w2 /\ G[2].weight = w2
          BY <4>4, <4>5, <4>8, <3>5
        <5>2. /\ weighted_endpoints_'[2].current_weight
                   = Wrapped(G[2].current_weight - G[2].weight)
              /\ weighted_endpoints_'[1].current_weight = G[1].current_weight
          BY <3>9, <3>a
        <5> QED
          BY <5>1, <5>2, <4>8
      <4> QED
        BY <4>2, <4>4, <4>6, <4>8, <4>9, <3>2, <3>4, <3>6, <3>b DEF Shared, Earned
    <3>10. b \in {1, 2}
      BY <3>1, <1>1
    <3> QED
      BY <3>8, <3>9, <3>10, <3>b DEF BothHealthy
  <2> QED
    BY <1>1, <1>2, <2>2, <2>3, <2>4 DEF BalancerInv
<1>4. CASE ~\E i \in DOMAIN G : Best(G, i)
  <2>1. weighted_endpoints_' = G /\ selected' = selected
    BY <1>4 DEF selectEndpoint
  <2> HIDE DEF G
  <2>2. ASSUME TwoUp'
        PROVE  BothHealthy' /\ (Fits' => (Shared /\ Earned)')
    <3>1. Len(G) = 2 /\ steady /\ 1 \in DOMAIN G /\ 2 \in DOMAIN G
      BY <2>1, <2>2, <1>1, <1>2 DEF TwoUp
    <3>2. TwoUp
      BY <2>1, <2>2, <3>1, <1>1 DEF TwoUp
    <3> DEFINE w1 == weighted_endpoints_[1].weight
               w2 == weighted_endpoints_[2].weight
               c1 == weighted_endpoints_[1].current_weight
               c2 == weighted_endpoints_[2].current_weight
               p  == Gain(1, 2)
               q  == Gain(2, 1)
    <3>3. w1 \in Int /\ w2 \in Int /\ w1 > 0 /\ w2 > 0 /\ w1 <= IntMax /\ w2 <= IntMax
          /\ c1 \in Int /\ c2 \in Int /\ IntMax \in Nat
          /\ selected[1] \in Nat /\ selected[2] \in Nat
      BY PairTyped, <3>1, <3>2, <1>1, BalancerAssumption DEF BalancerAssumption, TwoUp
    <3>4. p \in Int /\ q \in Int /\ p >= 0 /\ q >= 0
      BY <3>3, Pays DEF Gain
    <3>5. /\ G[1].is_healthy /\ G[2].is_healthy
          /\ G[1].current_weight = Wrapped(c1 + w1) /\ G[2].current_weight = Wrapped(c2 + w2)
          /\ G[1].weight = w1 /\ G[2].weight = w2
      BY <3>1, <3>2, <1>1 DEF BalancerInv, BothHealthy
    <3>6. Gain(1, 2)' = p /\ Gain(2, 1)' = q
      BY <2>1, <3>5 DEF Gain
    <3>7. G[1].current_weight <= 0 /\ G[2].current_weight <= 0
      <4>1. G[1].current_weight \in Int /\ G[2].current_weight \in Int
        BY <3>3, <3>5, WrappedSum
      <4>2. DOMAIN G = {1, 2}
        BY <3>1, <1>1
      <4>3. ~Best(G, 1) /\ ~Best(G, 2)
        BY <3>1, <1>4
      <4> QED
        BY <4>1, <4>2, <4>3, <3>5 DEF Best
    <3>8. ASSUME Fits'  PROVE (Shared /\ Earned)'
      <4>1. p <= IntMax /\ q <= IntMax
        BY <3>8, <3>6 DEF Fits
      <4>2. /\ -w1 <= p - q /\ p - q < w2
            /\ \/ c1 = p /\ c2 = q
               \/ p + w1 > IntMax /\ q + w2 > IntMax
        BY <4>1, <3>2 DEF BalancerInv, Fits, Shared, Earned
      <4>3. p + w1 > IntMax /\ q + w2 > IntMax
        <5> HIDE DEF w1, w2, c1, c2, p, q
        <5>1. CASE c1 = p /\ c2 = q
          <6>1. Wrapped(p + w1) <= 0 /\ Wrapped(q + w2) <= 0
            BY <5>1, <3>5, <3>7
          <6>2. p + w1 \in Int /\ q + w2 \in Int /\ p + w1 > 0 /\ q + w2 > 0
            BY <3>3, <3>4
          <6> QED
            BY <6>1, <6>2, <3>3, <3>4, WrappedSum
        <5> QED
          BY <5>1, <4>2
      <4> QED
        BY <4>2, <4>3, <3>5, <3>6, <2>1 DEF Shared, Earned
    <3> QED
      BY <3>5, <3>8, <2>1 DEF BothHealthy
  <2> QED
    BY <1>1, <1>2, <2>1, <2>2 DEF BalancerInv
<1> QED
  BY <1>3, <1>4

LEMMA BalancerStep ==
  ASSUME BalancerInv, BalancerNext \/ UNCHANGED balancerVars
  PROVE  BalancerInv'
<1>1. CASE UNCHANGED balancerVars
  BY <1>1 DEF BalancerInv, TwoUp, BothHealthy, Fits, Shared, Earned, Gain, balancerVars
<1> QED
  BY <1>1, UpdateInv, MarkInv, SelectInv DEF BalancerNext

\* Two endpoints that stay healthy are selected in proportion to their
\* weights, whatever the weights and the width of an int, until a weight times
\* the selections of the other endpoint no longer fits an int.
THEOREM PairSharesHolds == Spec => []PairShares
<1>1. Init => BalancerInv
  BY DEF Init, BalancerInit, BalancerInv, TwoUp
<1>2. BalancerInv /\ [Next]_vars => BalancerInv'
  BY BalancerStep DEF Next, Only, vars
<1>3. BalancerInv => PairShares
  BY DEF BalancerInv, TwoUp, Fits, Shared, Gain, PairShares
<1> QED
  BY <1>1, <1>2, <1>3, PTL DEF Spec

-----------------------------------------------------------------------------
(* The router                                                              *)

LEMMA Multiples ==
  ASSUME NEW d \in Nat \ {0}, NEW q \in Int, NEW r \in Int, q < r
  PROVE  d * q + d <= d * r
<1>1. r - q - 1 \in Nat /\ d * (r - q - 1) \in Nat
  OBVIOUS
<1>2. d * r = d * q + d + d * (r - q - 1)
  OBVIOUS
<1> QED BY <1>1, <1>2

\* Less than one round ahead, the index has another residue.
LEMMA OtherResidue ==
  ASSUME NEW n \in Nat \ {0}, NEW x \in Nat, NEW y \in Nat, x < y, y < x + n
  PROVE  x % n # y % n
<1> DEFINE p == x \div n
           q == y \div n
           r == x % n
           s == y % n
<1>1. p \in Nat /\ r \in 0..(n - 1) /\ x = n * p + r
  OBVIOUS
<1>2. q \in Nat /\ s \in 0..(n - 1) /\ y = n * q + s
  OBVIOUS
<1> SUFFICES ASSUME r = s PROVE FALSE
  OBVIOUS
<1> HIDE DEF p, q, r, s
<1>3. n * p \in Int /\ n * q \in Int
  BY <1>1, <1>2
<1>4. p < q => n * p + n <= n * q
  BY <1>1, <1>2, Multiples
<1>5. q < p => n * q + n <= n * p
  BY <1>1, <1>2, Multiples
<1>6. p = q => n * p = n * q
  OBVIOUS
<1> QED BY <1>1, <1>2, <1>3, <1>4, <1>5, <1>6

\* The pick that the index made when it was n.
Slot(from, n) == (n % Len(from)) + 1

\* The picks in a row are those the last values of the index made, at most one
\* round of them, from a list without repetitions.
Window ==
  /\ DOMAIN agents_ \subseteq Agents
  /\ round_robin_index_ \in Nat
  /\ candidates \in Seq(Agents) /\ streak \in Seq(Agents)
  /\ \A i, j \in 1..Len(candidates) : candidates[i] = candidates[j] => i = j
  /\ Len(streak) <= Len(candidates) /\ Len(streak) <= round_robin_index_
  /\ \A k \in 1..Len(streak) :
       streak[k] = candidates[Slot(candidates, round_robin_index_ - Len(streak) + k - 1)]

LEMMA SlotOf ==
  ASSUME NEW from \in Seq(Agents), from # <<>>, NEW n \in Nat
  PROVE  Slot(from, n) \in 1..Len(from) /\ from[Slot(from, n)] \in Agents
<1>1. Len(from) \in Nat \ {0}
  OBVIOUS
<1>2. n % Len(from) \in 0..(Len(from) - 1)
  BY <1>1
<1>3. Slot(from, n) \in 1..Len(from)
  BY <1>1, <1>2 DEF Slot
<1> QED BY <1>3

LEMMA PickInv ==
  ASSUME Window, UNCHANGED agents_,
         NEW from \in Seq(Agents), from # <<>>,
         \A i, j \in 1..Len(from) : from[i] = from[j] => i = j,
         selectRoundRobin(from)
  PROVE  Window'
<1> DEFINE r == round_robin_index_
           pick == from[Slot(from, r)]
           old == IF from = candidates THEN streak ELSE <<>>
           picks == Append(old, pick)
           n == Len(from)
           l == Len(old)
<1>1. /\ r \in Nat /\ r' = r + 1 /\ candidates' = from /\ streak' = Round(from, picks)
      /\ pick \in Agents /\ n \in Nat \ {0}
  <2>1. pick \in Agents
    BY SlotOf DEF Window
  <2> QED BY <2>1 DEF Window, selectRoundRobin, Picked, Slot
<1>2. /\ old \in Seq(Agents) /\ l \in Nat /\ l <= n /\ l <= r
      /\ \A k \in 1..l : old[k] = from[Slot(from, r - l + k - 1)]
  <2>1. CASE from = candidates
    BY <2>1 DEF Window
  <2>2. CASE from # candidates
    BY <2>2, <1>1
  <2> QED BY <2>1, <2>2
<1>3. /\ picks \in Seq(Agents) /\ Len(picks) = l + 1
      /\ \A k \in 1..l : picks[k] = old[k]
      /\ picks[l + 1] = pick
  <2> HIDE DEF old, pick
  <2> QED BY <1>1, <1>2
<1>4. \A k \in 1..(l + 1) : picks[k] = from[Slot(from, r - l + k - 1)]
  <2> TAKE k \in 1..(l + 1)
  <2>1. CASE k \in 1..l
    BY <2>1, <1>2, <1>3
  <2>2. CASE k = l + 1
    <3>1. r - l + k - 1 = r
      BY <2>2, <1>1, <1>2
    <3> QED BY <2>2, <3>1, <1>3
  <2> QED BY <2>1, <2>2, <1>2
<1> HIDE DEF r, pick, old, picks, n, l
<1>5. /\ streak' \in Seq(Agents) /\ Len(streak') <= n /\ Len(streak') <= r + 1
      /\ \A k \in 1..Len(streak') : streak'[k] = from[Slot(from, (r + 1) - Len(streak') + k - 1)]
  <2>1. CASE l + 1 <= n
    <3>1. streak' = picks
      BY <2>1, <1>1, <1>3 DEF Round, n
    <3>2. Len(streak') = l + 1 /\ streak' \in Seq(Agents)
      BY <3>1, <1>3
    <3>4. l + 1 <= r + 1
      BY <1>1, <1>2
    <3>3. ASSUME NEW k \in 1..(l + 1)
          PROVE  streak'[k] = from[Slot(from, (r + 1) - Len(streak') + k - 1)]
      <4>1. (r + 1) - Len(streak') + k - 1 = r - l + k - 1
        BY <1>1, <1>2, <3>2
      <4>2. picks[k] = from[Slot(from, r - l + k - 1)]
        BY <1>4
      <4> QED BY <3>1, <4>1, <4>2
    <3> QED BY <2>1, <3>2, <3>3, <3>4
  <2>2. CASE ~(l + 1 <= n)
    <3>1. streak' = SubSeq(picks, 2, l + 1) /\ l = n
      BY <2>2, <1>1, <1>2, <1>3 DEF Round, n
    <3>2. /\ streak' \in Seq(Agents) /\ Len(streak') = l
          /\ \A k \in 1..l : streak'[k] = picks[k + 1]
      BY <3>1, <1>2, <1>3
    <3>3. \A k \in 1..l : /\ k + 1 \in 1..(l + 1)
                          /\ (r + 1) - l + k - 1 = r - l + (k + 1) - 1
      BY <1>1, <1>2
    <3>4. ASSUME NEW k \in 1..l
          PROVE  streak'[k] = from[Slot(from, (r + 1) - Len(streak') + k - 1)]
      <4>1. (r + 1) - Len(streak') + k - 1 = r - l + (k + 1) - 1
        BY <3>2, <3>3
      <4>2. picks[k + 1] = from[Slot(from, r - l + (k + 1) - 1)]
        BY <1>4, <3>3
      <4> QED BY <3>2, <4>1, <4>2
    <3>5. Len(streak') <= n /\ Len(streak') <= r + 1
      BY <1>1, <1>2, <3>2
    <3> QED BY <3>2, <3>4, <3>5
  <2> QED BY <2>1, <2>2
<1>6. Window' = /\ (DOMAIN agents_ \subseteq Agents)
                /\ (r + 1 \in Nat)
                /\ (from \in Seq(Agents)) /\ (streak' \in Seq(Agents))
                /\ (\A i, j \in 1..Len(from) : from[i] = from[j] => i = j)
                /\ (Len(streak') <= Len(from)) /\ (Len(streak') <= r + 1)
                /\ (\A k \in 1..Len(streak') :
                      streak'[k] = from[Slot(from, (r + 1) - Len(streak') + k - 1)])
  BY <1>1 DEF Window, Slot, r
<1> QED
  BY <1>1, <1>5, <1>6 DEF Window, n

LEMMA ListedShape ==
  ASSUME NEW some, some \subseteq Agents, some # {}, NEW from \in Listed(some)
  PROVE  /\ from \in Seq(Agents) /\ from # <<>>
         /\ \A i, j \in 1..Len(from) : from[i] = from[j] => i = j
<1>1. IsFiniteSet(some)
  BY RouterAssumption, FS_Subset DEF RouterAssumption
<1>2. Cardinality(some) \in Nat /\ Cardinality(some) # 0
  BY <1>1, FS_CardinalityType, FS_EmptySet
<1> DEFINE c == Cardinality(some)
<1>3. /\ from \in [1..c -> some]
      /\ \A i, j \in 1..c : i # j => from[i] # from[j]
  BY DEF Listed, SetToSeqs
<1> HIDE DEF c
<1>4. c \in Nat \ {0}
  BY <1>2 DEF c
<1>5. from \in Seq(Agents) /\ Len(from) = c
  BY <1>3, <1>4
<1> QED BY <1>3, <1>4, <1>5

LEMMA NoPickInv ==
  ASSUME Window, NoPick, DOMAIN agents_' \subseteq Agents, round_robin_index_' = round_robin_index_
  PROVE  Window'
BY DEF Window, NoPick

LEMMA SelectStep ==
  ASSUME Window, NEW q, NEW r, selectAgent(q, r)
  PROVE  Window'
<1>1. UNCHANGED agents_
  BY DEF selectAgent
<1>2. PICK skills : /\ Candidates(skills) # {}
                    /\ \E from \in Listed(Candidates(skills)) : selectByStrategy(from)
  BY DEF selectAgent
<1>3. PICK from \in Listed(Candidates(skills)) : selectByStrategy(from)
  BY <1>2
<1>4. Candidates(skills) \subseteq Agents
  BY DEF Candidates, Window
<1>5. /\ from \in Seq(Agents) /\ from # <<>>
      /\ \A i, j \in 1..Len(from) : from[i] = from[j] => i = j
  BY <1>2, <1>4, ListedShape
<1>6. CASE UNCHANGED <<round_robin_index_, candidates, streak>>
  BY <1>1, <1>6 DEF Window, Slot
<1>7. CASE NoPick /\ UNCHANGED round_robin_index_
  BY <1>1, <1>7, NoPickInv DEF Window
<1>8. CASE selectRoundRobin(from)
  BY <1>1, <1>5, <1>8, PickInv
<1> QED
  BY <1>3, <1>6, <1>7, <1>8 DEF selectByStrategy, ByStrategy

LEMMA RouterStep ==
  ASSUME Window, RouterNext \/ UNCHANGED routerVars
  PROVE  Window'
<1>1. ASSUME NEW a \in Agents, addAgent(a)  PROVE Window'
  <2>1. DOMAIN agents_' \subseteq Agents /\ round_robin_index_' = round_robin_index_
    BY <1>1 DEF addAgent, Window
  <2>2. CASE UNCHANGED <<order, candidates, streak>>
    BY <2>1, <2>2 DEF Window, Slot
  <2>3. CASE NoPick
    BY <2>1, <2>3, NoPickInv
  <2> QED BY <1>1, <2>2, <2>3 DEF addAgent
<1>2. ASSUME NEW a \in Agents, removeAgent(a)  PROVE Window'
  BY <1>2 DEF removeAgent, Window, Slot
<1>3. ASSUME NEW a \in Agents, NEW h \in BOOLEAN, Mark(a, h)  PROVE Window'
  BY <1>3 DEF Mark, Window, Slot
<1>4. ASSUME NEW list \in AgentLists, updateAgentList(list)  PROVE Window'
  <2>1. DOMAIN list \subseteq Agents
    BY <1>4, RouterAssumption DEF RouterAssumption
  <2> QED BY <1>4, <2>1, NoPickInv DEF updateAgentList
<1>5. ASSUME NEW s, setStrategy(s)  PROVE Window'
  BY <1>5, NoPickInv DEF setStrategy, Window
<1>6. CASE UNCHANGED routerVars
  BY <1>6 DEF routerVars, Window, Slot
<1> QED
  BY <1>1, <1>2, <1>3, <1>4, <1>5, <1>6, SelectStep DEF RouterNext

LEMMA WindowEven ==
  ASSUME Window
  PROVE  RotatesEvenly
<1> DEFINE n == Len(candidates)
           l == Len(streak)
           at(k) == round_robin_index_ - l + k - 1
<1>1. n \in Nat /\ l \in Nat /\ l <= n /\ l <= round_robin_index_ /\ round_robin_index_ \in Nat
  BY DEF Window
<1>2. ASSUME NEW i \in 1..l, NEW j \in 1..l, i < j  PROVE streak[i] # streak[j]
  <2>1. n \in Nat \ {0} /\ at(i) \in Nat /\ at(j) \in Nat /\ at(i) < at(j) /\ at(j) < at(i) + n
    BY <1>1, <1>2
  <2>2. at(i) % n # at(j) % n
    <3> HIDE DEF n, at
    <3> QED BY <2>1, OtherResidue
  <2>3. streak[i] = candidates[Slot(candidates, at(i))] /\ streak[j] = candidates[Slot(candidates, at(j))]
    BY DEF Window
  <2>4. candidates \in Seq(Agents) /\ candidates # <<>>
    BY <2>1 DEF Window
  <2>5. /\ Slot(candidates, at(i)) \in 1..n /\ Slot(candidates, at(j)) \in 1..n
    <3> HIDE DEF at
    <3> QED BY <2>1, <2>4, SlotOf
  <2>6. Slot(candidates, at(i)) # Slot(candidates, at(j))
    <3>1. at(i) % n \in Nat /\ at(j) % n \in Nat
      <4> HIDE DEF n, at
      <4> QED BY <2>1
    <3> HIDE DEF at
    <3> QED BY <2>2, <3>1 DEF Slot
  <2> HIDE DEF at
  <2> QED BY <2>3, <2>5, <2>6 DEF Window
<1>3. DOMAIN streak = 1..l
  BY DEF Window
<1>4. SUFFICES ASSUME NEW i \in 1..l, NEW j \in 1..l, streak[i] = streak[j]
               PROVE  i = j
  BY <1>3 DEF RotatesEvenly
<1>5. ~(i < j) /\ ~(j < i)
  BY <1>2, <1>4
<1> QED BY <1>1, <1>5

\* As long as selections in succession have the same candidates, round robin
\* picks nobody twice before it has picked everybody once.
THEOREM RotatesEvenlyHolds == Spec => []RotatesEvenly
<1>1. Init => Window
  BY DEF Init, RouterInit, Window
<1>2. Window /\ [Next]_vars => Window'
  BY RouterStep DEF Next, Only, vars
<1> QED
  BY <1>1, <1>2, WindowEven, PTL DEF Spec

=============================================================================
