--------------------------- MODULE WeightedBalancer ---------------------------
(***************************************************************************)
(* The weighted balancer of src/load_balancer.cpp: its endpoints are       *)
(* replaced, marked up or down, and selected, each in one step under its   *)
(* mutex.  The endpoints a caller passes to selectEndpoint only have to be *)
(* some; the choice is made among the balancer's own.  Weights are ints,   *)
(* and what they overflow to is what two's complement makes of it.         *)
(***************************************************************************)
EXTENDS Integers, Sequences

CONSTANTS
  Weights,         \* numbers the metadata of an endpoint may give
  IntMax,          \* the largest int
  MaxEndpoints,    \* bound on the endpoints of an update
  MaxSelects       \* bound on the selections after an update

ASSUME BalancerAssumption ==
  /\ IntMax \in Nat \ {0} /\ Weights \subseteq -(IntMax + 1)..IntMax
  /\ MaxEndpoints \in Nat /\ MaxSelects \in Nat

VARIABLES
  weighted_endpoints_,    \* of [is_healthy, weight, current_weight]
  selected,               \* history: how often each was selected since the update
  steady                  \* history: no endpoint was marked, or unhealthy, since the update

balancerVars == <<weighted_endpoints_, selected, steady>>

BalancerInit == weighted_endpoints_ = <<>> /\ selected = <<>> /\ steady = TRUE

\* The weight is in the metadata, or one; a text stoi throws at ends the list.
updateEndpoints ==
  \E n \in 0..MaxEndpoints : \E up \in [1..n -> BOOLEAN], w \in [1..n -> Weights \cup {1}] :
    /\ weighted_endpoints_' =
         [i \in 1..n |-> [is_healthy |-> up[i], weight |-> w[i], current_weight |-> 0]]
    /\ selected' = [i \in 1..n |-> 0]
    /\ steady' = \A i \in 1..n : up[i]

markEndpointStatus(i, healthy) ==
  /\ weighted_endpoints_' = [weighted_endpoints_ EXCEPT ![i].is_healthy = healthy]
  /\ steady' = FALSE
  /\ UNCHANGED selected

\* What an int holds of the sum of two.
Wrapped(n) ==
  IF n > IntMax THEN n - 2 * (IntMax + 1)
  ELSE IF n < -(IntMax + 1) THEN n + 2 * (IntMax + 1)
  ELSE n

\* Every healthy endpoint gains its weight.
Gained ==
  [i \in DOMAIN weighted_endpoints_ |->
     LET e == weighted_endpoints_[i]
     IN  IF e.is_healthy THEN [e EXCEPT !.current_weight = Wrapped(@ + e.weight)] ELSE e]

\* The first of the healthy endpoints with the most; nobody if that is not positive.
Best(list, i) ==
  /\ i \in DOMAIN list /\ list[i].is_healthy /\ list[i].current_weight > 0
  /\ \A j \in DOMAIN list : list[j].is_healthy =>
       IF j < i THEN list[j].current_weight < list[i].current_weight
       ELSE list[j].current_weight <= list[i].current_weight

\* Mutant: the endpoint that is selected loses nothing.
Paid_Nothing(list, i) == list

Paid(list, i) == [list EXCEPT ![i].current_weight = Wrapped(@ - list[i].weight)]

\* When nobody is best the weights have changed and it throws.
selectEndpoint ==
  /\ weighted_endpoints_ # <<>>
  /\ \A i \in DOMAIN selected : selected[i] < MaxSelects
  /\ IF \E i \in DOMAIN Gained : Best(Gained, i)
     THEN \E i \in DOMAIN Gained :
            /\ Best(Gained, i)
            /\ weighted_endpoints_' = Paid(Gained, i)
            /\ selected' = [selected EXCEPT ![i] = @ + 1]
     ELSE weighted_endpoints_' = Gained /\ UNCHANGED selected
  /\ UNCHANGED steady

BalancerNext ==
  \/ updateEndpoints \/ selectEndpoint
  \/ \E i \in DOMAIN weighted_endpoints_, h \in BOOLEAN : markEndpointStatus(i, h)

-----------------------------------------------------------------------------
\* Two endpoints that stay healthy are selected in proportion to their weights,
\* to within one selection of the other, although the balancer pays with the
\* weight of the selected endpoint where the usual scheme pays with the sum of
\* all: as long as neither has weight times the selections of the other past
\* what an int holds.  Beyond that the current weights wrap.
PairShares ==
  LET w(i) == weighted_endpoints_[i].weight
  IN  /\ Len(weighted_endpoints_) = 2 /\ steady /\ w(1) > 0 /\ w(2) > 0
      /\ w(1) * selected[2] <= IntMax /\ w(2) * selected[1] <= IntMax
      => LET lead == w(1) * selected[2] - w(2) * selected[1]
         IN  -w(1) <= lead /\ lead < w(2)

=============================================================================
