--------------------------- MODULE CircuitBreaker ---------------------------
(***************************************************************************)
(* The circuit breaker of src/src/circuit_breaker.cpp, used by several     *)
(* threads at once.  execute() asks isRequestAllowed, makes the call and   *)
(* reports how it went.  The reports and reset() run under stats_mutex_;   *)
(* isRequestAllowed, and the transition to half-open it may perform, take  *)
(* no lock and see what is between two stores of those that do.  So every  *)
(* store of state_ and of a counter is a step of its own; the stamp on     *)
(* last_state_change_ goes with the store that follows it.                 *)
(*                                                                         *)
(* The failure rate is the quotient of two ints, cast to double only       *)
(* afterwards: \div below is the code's division.                          *)
(***************************************************************************)
EXTENDS Naturals, FiniteSets

CONSTANTS
  Threads,            \* threads that call execute()
  Free,               \* owner of stats_mutex_ when nobody holds it
  min_request_count,
  success_threshold,
  RateNum, RateDen,   \* failure_rate_threshold = RateNum / RateDen
  MaxRequests         \* bound on the requests counted and under way

ASSUME ConfigAssumption ==
  /\ Free \notin Threads
  /\ min_request_count \in Nat \ {0}
  /\ success_threshold \in Nat \ {0}
  /\ RateNum \in Nat \ {0} /\ RateDen \in Nat \ {0} /\ RateNum <= RateDen
  /\ MaxRequests \in Nat

VARIABLES
  state,       \* state_
  total,       \* stats_.total_requests
  successful,  \* stats_.successful_requests
  failed,      \* stats_.failed_reqeusts
  elapsed,     \* config_.timeout has passed since last_state_change_
  owner,       \* who holds stats_mutex_
  pc,          \* where each caller is in execute()
  outcome,     \* what a caller has to report
  loaded       \* the counter it read in order to increment it

stats       == <<total, successful, failed>>
breakerVars == <<state, total, successful, failed, elapsed, owner, pc, outcome,
                 loaded>>

States    == {"CLOSED", "OPEN", "HALF_OPEN"}
Locations == {"idle", "reopening", "halving", "halved", "calling", "reporting",
              "incrementing", "totalling", "judging", "tripping", "closing",
              "clearing", "resetting"}

\* Where stats_mutex_ is held.
Locked == {"incrementing", "totalling", "judging", "tripping", "closing", "clearing",
           "resetting"}

BreakerTypeOK ==
  /\ state \in States
  /\ total \in Nat /\ successful \in Nat /\ failed \in Nat
  /\ elapsed \in BOOLEAN
  /\ owner \in Threads \cup {Free}
  /\ pc \in [Threads -> Locations]
  /\ outcome \in [Threads -> {"success", "failure"}]
  /\ loaded \in [Threads -> Nat]
  /\ \A c \in Threads : owner = c <=> pc[c] \in Locked

BreakerInit ==
  /\ state = "CLOSED"
  /\ total = 0 /\ successful = 0 /\ failed = 0
  /\ elapsed = FALSE
  /\ owner = Free
  /\ pc = [c \in Threads |-> "idle"]
  /\ outcome = [c \in Threads |-> "success"]
  /\ loaded = [c \in Threads |-> 0]

Goto(c, l) == pc' = [pc EXCEPT ![c] = l]

-----------------------------------------------------------------------------
(* isRequestAllowed                                                        *)

Room == total + Cardinality({c \in Threads : pc[c] # "idle"}) < MaxRequests

\* The state is read without a lock; a rejected caller (rejected_requests is
\* not modelled) stays where it is.
isRequestAllowed(c) ==
  /\ pc[c] = "idle" /\ Room
  /\ \/ state = "CLOSED" /\ Goto(c, "calling")
     \/ state = "HALF_OPEN" /\ total < success_threshold /\ Goto(c, "calling")
     \/ state = "OPEN" /\ elapsed /\ Goto(c, "reopening")
  /\ UNCHANGED <<state, elapsed, stats, owner, outcome, loaded>>

\* transitionToHalfOpen: nothing to do when another caller was faster.
HalfOpenState(c) ==
  /\ pc[c] = "reopening"
  /\ state' = "HALF_OPEN"
  /\ Goto(c, IF state = "HALF_OPEN" THEN "calling" ELSE "halving")
  /\ UNCHANGED <<stats, elapsed, owner, outcome, loaded>>

HalfOpenFailed(c) ==
  /\ pc[c] = "halving"
  /\ elapsed' = FALSE
  /\ failed' = 0
  /\ Goto(c, "halved")
  /\ UNCHANGED <<state, total, successful, owner, outcome, loaded>>

HalfOpenSuccessful(c) ==
  /\ pc[c] = "halved"
  /\ successful' = 0
  /\ Goto(c, "calling")
  /\ UNCHANGED <<state, elapsed, total, failed, owner, outcome, loaded>>

\* The call itself, which returns or throws.
execute(c) ==
  /\ pc[c] = "calling"
  /\ \E o \in {"success", "failure"} : outcome' = [outcome EXCEPT ![c] = o]
  /\ Goto(c, "reporting")
  /\ UNCHANGED <<state, elapsed, stats, owner, loaded>>

-----------------------------------------------------------------------------
(* recordSuccess, recordFailure                                            *)

LoadCounter(c) ==
  /\ pc[c] = "reporting" /\ owner = Free
  /\ owner' = c
  /\ loaded' = [loaded EXCEPT ![c] =
                  IF outcome[c] = "success" THEN successful ELSE failed]
  /\ Goto(c, "incrementing")
  /\ UNCHANGED <<state, elapsed, stats, outcome>>

StoreOutcome(c) ==
  /\ pc[c] = "incrementing"
  /\ IF outcome[c] = "success"
     THEN successful' = loaded[c] + 1 /\ UNCHANGED failed
     ELSE failed' = loaded[c] + 1 /\ UNCHANGED successful
  /\ Goto(c, "totalling")
  /\ UNCHANGED <<state, elapsed, total, owner, outcome, loaded>>

\* Mutant: the attempt is not counted when it failed.
StoreTotal_NotFailures(c) ==
  /\ pc[c] = "totalling"
  /\ total' = IF outcome[c] = "success" THEN total + 1 ELSE total
  /\ Goto(c, "judging")
  /\ UNCHANGED <<state, elapsed, successful, failed, owner, outcome, loaded>>

StoreTotal(c) ==
  /\ pc[c] = "totalling"
  /\ total' = total + 1
  /\ Goto(c, "judging")
  /\ UNCHANGED <<state, elapsed, successful, failed, owner, outcome, loaded>>

\* Mutant: one request is enough to judge.
RateTooHigh_AnyCount ==
  /\ total > 0
  /\ (failed \div total) * RateDen >= RateNum

\* The test of updateFailureRate.
RateTooHigh ==
  /\ total >= min_request_count
  /\ (failed \div total) * RateDen >= RateNum

\* The report or the reset ends; its locals are gone.
Unlock(c) ==
  /\ owner' = Free
  /\ Goto(c, "idle")
  /\ outcome' = [outcome EXCEPT ![c] = "success"]
  /\ loaded' = [loaded EXCEPT ![c] = 0]

\* Mutant: the mutex is not given back when the breaker trips.
Judge_KeepsLock(c) ==
  /\ pc[c] = "judging"
  /\ IF RateTooHigh THEN state' = "OPEN" ELSE UNCHANGED state
  /\ Goto(c, IF RateTooHigh THEN "idle" ELSE "closing")
  /\ UNCHANGED <<elapsed, stats, owner, outcome, loaded>>

\* updateFailureRate and the store of transitionToOpen.
Judge(c) ==
  /\ pc[c] = "judging"
  /\ IF RateTooHigh THEN state' = "OPEN" ELSE UNCHANGED state
  /\ Goto(c, IF RateTooHigh /\ state # "OPEN" THEN "tripping" ELSE "closing")
  /\ UNCHANGED <<elapsed, stats, owner, outcome, loaded>>

\* The rest of transitionToOpen.
Trip(c) ==
  /\ pc[c] = "tripping"
  /\ elapsed' = FALSE
  /\ Goto(c, "closing")
  /\ UNCHANGED <<state, stats, owner, outcome, loaded>>

\* recordSuccess closes a half-open breaker after updateFailureRate (which may
\* have opened it, and a caller without a lock left it half-open again).
Close(c) ==
  /\ pc[c] = "closing"
  /\ IF outcome[c] = "success" /\ state = "HALF_OPEN" /\ successful >= success_threshold
     THEN /\ state' = "CLOSED"
          /\ Goto(c, "clearing")
          /\ UNCHANGED <<owner, outcome, loaded>>
     ELSE UNCHANGED state /\ Unlock(c)
  /\ UNCHANGED <<elapsed, stats>>

ResetStats == total' = 0 /\ successful' = 0 /\ failed' = 0

\* The rest of transitionToClosed starts the statistics anew.
Clear(c) ==
  /\ pc[c] = "clearing"
  /\ elapsed' = FALSE
  /\ ResetStats
  /\ Unlock(c)
  /\ UNCHANGED state

\* reset(): the statistics first, the state after them.
reset(c) ==
  /\ pc[c] = "idle" /\ owner = Free
  /\ owner' = c
  /\ ResetStats
  /\ Goto(c, "resetting")
  /\ UNCHANGED <<state, elapsed, outcome, loaded>>

ResetState(c) ==
  /\ pc[c] = "resetting"
  /\ state' = "CLOSED"
  /\ elapsed' = FALSE
  /\ Unlock(c)
  /\ UNCHANGED stats

\* Mutant: the timeout of an open breaker never ends.
TimeoutElapses_NotWhenOpen ==
  /\ ~elapsed /\ state # "OPEN"
  /\ elapsed' = TRUE
  /\ UNCHANGED <<state, stats, owner, pc, outcome, loaded>>

\* shouldAttemptReset becomes true.
TimeoutElapses ==
  /\ ~elapsed
  /\ elapsed' = TRUE
  /\ UNCHANGED <<state, stats, owner, pc, outcome, loaded>>

Proceed(c) ==
  \/ isRequestAllowed(c)
  \/ HalfOpenState(c) \/ HalfOpenFailed(c) \/ HalfOpenSuccessful(c)
  \/ execute(c)
  \/ LoadCounter(c) \/ StoreOutcome(c) \/ StoreTotal(c)
  \/ Judge(c) \/ Trip(c) \/ Close(c) \/ Clear(c)
  \/ ResetState(c)

BreakerNext ==
  \/ \E c \in Threads : Proceed(c) \/ reset(c)
  \/ TimeoutElapses

BreakerSpec == BreakerInit /\ [][BreakerNext]_breakerVars

\* Callers keep calling and are scheduled; time passes.  Nobody has to reset.
FairBreakerSpec ==
  /\ BreakerSpec
  /\ \A c \in Threads : WF_breakerVars(Proceed(c)) /\ SF_breakerVars(LoadCounter(c))
  /\ WF_breakerVars(TimeoutElapses)

-----------------------------------------------------------------------------
(* Properties                                                              *)

\* What stats_mutex_ protects although transitionToHalfOpen clears two of the
\* counters without it: whenever nobody holds it, and when a report is judged,
\* there are no more outcomes than requests.  (Between the two increments of a
\* report there may be one more.)
Counted ==
  owner = Free \/ (\E c \in Threads : pc[c] = "judging") => successful + failed <= total

\* The breaker is open only with min_request_count requests counted, whatever
\* races with the report that opens it; but for the moment in which a reset has
\* cleared the statistics and not yet the state.
OpenNeedsRequests ==
  state = "OPEN" => \/ total >= min_request_count
                    \/ \E c \in Threads : pc[c] = "resetting"

\* include/agent_rpc/circuit_breaker.h: failure_rate_threshold = 0.5, the
\* threshold of the rate of failures.  A report that finds enough requests and
\* that share of them failed leaves the breaker open.
RateTrips ==
  [][\A c \in Threads :
       /\ pc[c] = "judging" /\ pc'[c] # "judging"
       /\ total >= min_request_count
       /\ failed * RateDen >= RateNum * total
       => state' = "OPEN"]_breakerVars

\* An open breaker is left once its timeout has passed and somebody calls
\* (as long as the bound on the requests counted is not reached).
OpenIsLeft ==
  (state = "OPEN" /\ total + Cardinality(Threads) <= MaxRequests) ~> (state # "OPEN")

\* include/agent_rpc/circuit_breaker.h: HALF_OPRN is the state that "tries to
\* recover": it leads back to closed, or to open.
HalfOpenDecides == (state = "HALF_OPEN") ~> (state # "HALF_OPEN")

=============================================================================
