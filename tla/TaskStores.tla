----------------------------- MODULE TaskStores -----------------------------
(***************************************************************************)
(* TaskManagerWrapper builds a TaskManager over one store or the other:    *)
(* both in one state space.  The memory store has the messages and         *)
(* artifacts of the configuration, the Redis one has neither and commands  *)
(* that may fail.                                                          *)
(***************************************************************************)
EXTENDS TaskLifecycle

VARIABLE store   \* the one the process was built with

InRedis == INSTANCE TaskLifecycle WITH Redis <- TRUE, MaxMessages <- 0, MaxArtifacts <- 0

EitherInit == Init /\ store \in {"memory", "redis"}

EitherNext ==
  \/ store = "memory" /\ Next /\ UNCHANGED store
  \/ store = "redis" /\ InRedis!Next /\ UNCHANGED store

\* One of the two stores, chosen for good.  (A Redis that lost every task has
\* nothing left to do.)
EitherSpec == EitherInit /\ [][EitherNext]_<<vars, store>>

\* The memory store alone.
MemorySpec == Init /\ store = "memory" /\ [][EitherNext]_<<vars, store>>

\* ListenerKnows (what the listener of state changes is told of a task is a
\* gapless chain that ends in its state) with the memory store: a Redis that
\* fails loses the write and notifies all the same.
ListenerKnowsMemory == store = "memory" => ListenerKnows

=============================================================================
