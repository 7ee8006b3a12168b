--------------------------- MODULE ServiceRegistry ---------------------------
(***************************************************************************)
(* The registry of services kept in Consul (src/service_registry.cpp):     *)
(* threads register and unregister services over HTTP and note them in     *)
(* registered_services_, and the health-check thread reports all that are  *)
(* noted, under the mutex of the notes.  A request may be lost, carried    *)
(* out with its answer lost, or answered without being carried out: nobody *)
(* looks at the status of an answer, only whether it is empty.             *)
(***************************************************************************)
CONSTANTS Callers, Services, NoOne, HealthCheck

ASSUME ServiceAssumption == NoOne # HealthCheck /\ {NoOne, HealthCheck} \cap Callers = {}

VARIABLES
  registered_services_,
  service_mutex_,             \* its holder
  health_check_running_,
  loop,                       \* health-check thread: "off", "testing", "locking", "beating", "sleeping"
  due,                        \* what it has still to report
  calling,                    \* for each caller <<>> or <<operation, service, "asked" or "noting">>
  consul,                     \* the services Consul knows
  refused,                    \* history: services whose last registration was answered in vain
  raced                       \* history: services two calls have been open for at once

serviceVars == <<registered_services_, service_mutex_, health_check_running_, loop, due,
                 calling, consul, refused, raced>>
health      == <<service_mutex_, health_check_running_, loop, due>>

ServiceInit ==
  /\ registered_services_ = {} /\ service_mutex_ = NoOne
  /\ health_check_running_ = FALSE /\ loop = "off" /\ due = {}
  /\ calling = [t \in Callers |-> <<>>]
  /\ consul = {} /\ refused = {} /\ raced = {}

OthersCall(t, s) == \E u \in Callers \ {t} : calling[u] # <<>> /\ calling[u][2] = s

\* registerService and unregisterService send their request.
Ask(t, operation, s) ==
  /\ calling[t] = <<>>
  /\ calling' = [calling EXCEPT ![t] = <<operation, s, "asked">>]
  /\ raced' = IF OthersCall(t, s) THEN raced \cup {s} ELSE raced
  /\ UNCHANGED <<registered_services_, health, consul, refused>>

CarryOut(t) ==
  consul' = IF calling[t][1] = "register" THEN consul \cup {calling[t][2]}
            ELSE consul \ {calling[t][2]}

\* makeHttpRequest returns a body: of a success, or of an error.
Answered(t) ==
  /\ calling[t] # <<>> /\ calling[t][3] = "asked"
  /\ \/ CarryOut(t) /\ refused' = refused \ {calling[t][2]}
     \/ /\ refused' = IF calling[t][1] = "register" THEN refused \cup {calling[t][2]} ELSE refused
        /\ UNCHANGED consul
  /\ calling' = [calling EXCEPT ![t][3] = "noting"]
  /\ UNCHANGED <<registered_services_, health, raced>>

\* Mutant: a failed registration is noted all the same.
Unanswered_Noted(t) ==
  /\ calling[t] # <<>> /\ calling[t][3] = "asked"
  /\ CarryOut(t) \/ UNCHANGED consul
  /\ calling' = [calling EXCEPT ![t][3] = "noting"]
  /\ UNCHANGED <<registered_services_, health, refused, raced>>

\* It returns nothing: registerService gives up, unregisterService goes on.
Unanswered(t) ==
  /\ calling[t] # <<>> /\ calling[t][3] = "asked"
  /\ CarryOut(t) \/ UNCHANGED consul
  /\ calling' = [calling EXCEPT ![t] =
       IF @[1] = "register" THEN <<>> ELSE <<@[1], @[2], "noting">>]
  /\ UNCHANGED <<registered_services_, health, refused, raced>>

Noted(t) ==
  /\ calling[t] # <<>> /\ calling[t][3] = "noting" /\ service_mutex_ = NoOne
  /\ LET s == calling[t][2]
     IN  IF calling[t][1] = "register"
         THEN registered_services_' = registered_services_ \cup {s} /\ UNCHANGED raced
         ELSE /\ registered_services_' = registered_services_ \ {s}
              /\ raced' = IF OthersCall(t, s) THEN raced ELSE raced \ {s}
  /\ calling' = [calling EXCEPT ![t] = <<>>]
  /\ UNCHANGED <<health, consul, refused>>

-----------------------------------------------------------------------------
(* The health check                                                        *)

\* stopHealthCheck has joined the last thread before it returns.
startHealthCheck ==
  /\ ~health_check_running_ /\ loop = "off"
  /\ health_check_running_' = TRUE /\ loop' = "testing"
  /\ UNCHANGED <<registered_services_, service_mutex_, due, calling, consul, refused, raced>>

stopHealthCheck ==
  /\ health_check_running_
  /\ health_check_running_' = FALSE
  /\ UNCHANGED <<registered_services_, service_mutex_, loop, due, calling, consul, refused, raced>>

TestHealthCheck ==
  /\ loop = "testing"
  /\ loop' = IF health_check_running_ THEN "locking" ELSE "off"
  /\ UNCHANGED <<registered_services_, service_mutex_, health_check_running_, due, calling,
                 consul, refused, raced>>

\* Mutant: the walk is over a copy, without the mutex.
LockNotes_Copies ==
  /\ loop = "locking" /\ service_mutex_ = NoOne
  /\ UNCHANGED service_mutex_
  /\ due' = registered_services_ /\ loop' = "beating"
  /\ UNCHANGED <<registered_services_, health_check_running_, calling, consul, refused, raced>>

LockNotes ==
  /\ loop = "locking" /\ service_mutex_ = NoOne
  /\ service_mutex_' = HealthCheck
  /\ due' = registered_services_ /\ loop' = "beating"
  /\ UNCHANGED <<registered_services_, health_check_running_, calling, consul, refused, raced>>

\* updateHeartbeat, whose answer nobody looks at.
Beat(s) ==
  /\ loop = "beating" /\ s \in due
  /\ due' = due \ {s}
  /\ UNCHANGED <<registered_services_, service_mutex_, health_check_running_, loop, calling,
                 consul, refused, raced>>

UnlockNotes ==
  /\ loop = "beating" /\ due = {}
  /\ service_mutex_' = NoOne /\ loop' = "sleeping"
  /\ UNCHANGED <<registered_services_, health_check_running_, due, calling, consul, refused, raced>>

Wakes ==
  /\ loop = "sleeping" /\ loop' = "testing"
  /\ UNCHANGED <<registered_services_, service_mutex_, health_check_running_, due, calling,
                 consul, refused, raced>>

ServiceNext ==
  \/ startHealthCheck \/ stopHealthCheck \/ TestHealthCheck \/ LockNotes \/ UnlockNotes \/ Wakes
  \/ \E s \in Services : Beat(s)
  \/ \E t \in Callers :
       \/ Answered(t) \/ Unanswered(t) \/ Noted(t)
       \/ \E o \in {"register", "unregister"}, s \in Services : Ask(t, o, s)

-----------------------------------------------------------------------------
\* A service is reported alive only while it is noted, however long Consul
\* takes over each report: none is once unregisterService has returned.  And
\* what is noted is known to Consul, lost requests and lost answers included,
\* unless Consul answered its registration with an error, which is noted like
\* a success, or two threads used the same service at once.
ReportsOnlyRegistered ==
  /\ due \subseteq registered_services_
  /\ \A s \in registered_services_ \ (refused \cup raced) :
       s \in consul \/ \E t \in Callers : calling[t] # <<>> /\ calling[t][2] = s

=============================================================================
