------------------------------- MODULE Metrics -------------------------------
(***************************************************************************)
(* The metrics of the framework (src/metrics.cpp): threads count requests  *)
(* and observe how long they took, connections come and go, and somebody   *)
(* resets the histogram now and then.  A counter and a gauge are added to  *)
(* by compare and exchange; of a histogram the count, the sum and the      *)
(* buckets change one after the other, the buckets under a mutex.  Every   *)
(* duration is one, and the bucket is the one that takes all.  The table   *)
(* of metrics and the pointers into it that two first calls may store at   *)
(* once, their text, and summaries are left out.                           *)
(***************************************************************************)
EXTENDS Integers

CONSTANTS
  Recorders,
  BucketLimit,    \* what a bucket counts up to before it is zero again
  MaxRecords      \* bound on the calls made

ASSUME MetricsAssumption == BucketLimit \in Nat \ {0} /\ MaxRecords \in Nat

VARIABLES
  requests_, connections_,    \* value_ of the counter and of the gauge
  active_connections_gauge_,  \* there is a gauge
  count_, sum_, bucket_,      \* the histogram
  op, current,                \* for each thread what it does next, and what it has read
  recorded,                   \* history: requests, connections less disconnections, observations
  calls,                      \* history: how many calls there were
  disturbed                   \* history: a reset and an observation have overlapped

metricsVars == <<requests_, connections_, active_connections_gauge_, count_, sum_, bucket_,
                 op, current, recorded, calls, disturbed>>
values      == <<requests_, connections_, active_connections_gauge_>>
histogram   == <<count_, sum_, bucket_>>
history     == <<recorded, calls, disturbed>>

MetricsInit ==
  /\ requests_ = 0 /\ connections_ = 0 /\ active_connections_gauge_ = FALSE
  /\ count_ = 0 /\ sum_ = 0 /\ bucket_ = 0
  /\ op = [t \in Recorders |-> "idle"] /\ current = [t \in Recorders |-> 0]
  /\ recorded = [requests |-> 0, connections |-> 0, observed |-> 0]
  /\ calls = 0 /\ disturbed = FALSE

Observing == {"count", "read sum", "store sum", "fill bucket"}
Resetting == {"reset count", "reset bucket"}
Some(ops) == \E t \in Recorders : op[t] \in ops

Then(t, o) == op' = [op EXCEPT ![t] = o]
Read(t, v) == current' = [current EXCEPT ![t] = v]

-----------------------------------------------------------------------------
(* CounterMetric and GaugeMetric                                           *)

\* Metrics::initialize, which nothing else needs to have been called.
initializeDefaultMetrics ==
  /\ active_connections_gauge_' = TRUE
  /\ UNCHANGED <<requests_, connections_, histogram, op, current, history>>

\* recordRpcRequest, recordConnection, recordDisconnection: the load.  The first
\* connection makes the gauge, and without one a disconnection does nothing.
Begin(t, what) ==
  /\ op[t] = "idle" /\ calls < MaxRecords
  /\ what = "disconnect" => active_connections_gauge_
  /\ active_connections_gauge_' = (active_connections_gauge_ \/ what = "connect")
  /\ Then(t, what)
  /\ Read(t, IF what = "request" THEN requests_ ELSE connections_)
  /\ calls' = calls + 1
  /\ UNCHANGED <<requests_, connections_, histogram, recorded, disturbed>>

\* Mutant: the sum is stored, whatever the value is by now.
Exchange_Stores(t) ==
  \/ /\ op[t] = "request"
     /\ requests_' = current[t] + 1
     /\ recorded' = [recorded EXCEPT !.requests = @ + 1]
     /\ Then(t, "count")
     /\ UNCHANGED <<connections_, active_connections_gauge_, current, histogram, calls, disturbed>>
  \/ \E by \in {1, -1} :
       /\ op[t] = IF by = 1 THEN "connect" ELSE "disconnect"
       /\ connections_' = current[t] + by
       /\ recorded' = [recorded EXCEPT !.connections = @ + by]
       /\ Then(t, "idle")
       /\ UNCHANGED <<requests_, active_connections_gauge_, current, histogram, calls, disturbed>>

Exchange(t) ==
  \/ /\ op[t] = "request" /\ current[t] = requests_
     /\ requests_' = current[t] + 1
     /\ recorded' = [recorded EXCEPT !.requests = @ + 1]
     /\ Then(t, "count")
     /\ UNCHANGED <<connections_, active_connections_gauge_, current, histogram, calls, disturbed>>
  \/ \E by \in {1, -1} :
       /\ op[t] = (IF by = 1 THEN "connect" ELSE "disconnect") /\ current[t] = connections_
       /\ connections_' = current[t] + by
       /\ recorded' = [recorded EXCEPT !.connections = @ + by]
       /\ Then(t, "idle")
       /\ UNCHANGED <<requests_, active_connections_gauge_, current, histogram, calls, disturbed>>

\* The exchange fails, or seems to, and what is there is read instead.
ReadAgain(t) ==
  /\ op[t] \in {"request", "connect", "disconnect"}
  /\ Read(t, IF op[t] = "request" THEN requests_ ELSE connections_)
  /\ UNCHANGED <<values, histogram, op, history>>

-----------------------------------------------------------------------------
(* HistogramMetric                                                         *)

Count(t) ==
  /\ op[t] = "count"
  /\ count_' = count_ + 1
  /\ recorded' = [recorded EXCEPT !.observed = @ + 1]
  /\ disturbed' = (disturbed \/ Some(Resetting))
  /\ Then(t, "read sum")
  /\ UNCHANGED <<values, sum_, bucket_, current, calls>>

ReadSum(t) ==
  /\ op[t] = "read sum"
  /\ Read(t, sum_) /\ Then(t, "store sum")
  /\ UNCHANGED <<values, histogram, history>>

StoreSum(t) ==
  /\ op[t] = "store sum"
  /\ sum_' = current[t] + 1 /\ Then(t, "fill bucket")
  /\ UNCHANGED <<values, count_, bucket_, current, history>>

FillBucket(t) ==
  /\ op[t] = "fill bucket"
  /\ bucket_' = (bucket_ + 1) % BucketLimit /\ Then(t, "idle")
  /\ UNCHANGED <<values, count_, sum_, current, history>>

\* reset stores the sum, the count, and the buckets.
ResetSum(t) ==
  /\ op[t] = "idle" /\ calls < MaxRecords
  /\ sum_' = 0 /\ Then(t, "reset count")
  /\ calls' = calls + 1
  /\ disturbed' = (disturbed \/ Some((Observing \ {"count"}) \cup Resetting))
  /\ UNCHANGED <<values, count_, bucket_, current, recorded>>

ResetCount(t) ==
  /\ op[t] = "reset count"
  /\ count_' = 0 /\ Then(t, "reset bucket")
  /\ recorded' = [recorded EXCEPT !.observed = 0]
  /\ UNCHANGED <<values, sum_, bucket_, current, calls, disturbed>>

ResetBucket(t) ==
  /\ op[t] = "reset bucket"
  /\ bucket_' = 0 /\ Then(t, "idle")
  /\ UNCHANGED <<values, count_, sum_, current, history>>

MetricsNext ==
  \/ initializeDefaultMetrics
  \/ \E t \in Recorders :
       \/ \E what \in {"request", "connect", "disconnect"} : Begin(t, what)
       \/ Exchange(t) \/ ReadAgain(t)
       \/ Count(t) \/ ReadSum(t) \/ StoreSum(t) \/ FillBucket(t)
       \/ ResetSum(t) \/ ResetCount(t) \/ ResetBucket(t)

-----------------------------------------------------------------------------
\* The counter and the gauge, from when it exists, lose nothing, whoever adds at
\* once.  When no thread is inside and no reset has met an observation, the
\* histogram has counted every observation and its bucket agrees as far as its
\* sixteen bits reach, while its sum may fall short, but never passes what was
\* observed.
Tallied ==
  /\ requests_ = recorded.requests /\ connections_ = recorded.connections
  /\ (\A t \in Recorders : op[t] = "idle") /\ ~disturbed =>
       /\ count_ = recorded.observed
       /\ bucket_ = count_ % BucketLimit
       /\ sum_ <= count_ /\ (count_ > 0 => sum_ > 0)

=============================================================================
