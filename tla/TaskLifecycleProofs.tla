------------------------- MODULE TaskLifecycleProofs -------------------------
(***************************************************************************)
(* What TLAPS proves of TaskLifecycle, for any threads, tasks and messages *)
(* and for both stores unless an assumption says otherwise:                *)
(* - the type invariant;                                                   *)
(* - createTask never replaces a task (CreateIsFresh), because the ids     *)
(*   between their reservation and their storing are pairwise different    *)
(*   and not yet stored (Reserved);                                        *)
(* - whoever changes a task, the new state is one the call has validated   *)
(*   against the state it read (ChangeValidated);                          *)
(* - as long as no two calls change one task at a time (Serial), every     *)
(*   change is a step of the state machine TaskMachine: what a thread has  *)
(*   validated still holds when it writes (Validated);                     *)
(* - the index of contexts and the counter agree with what createTask has  *)
(*   returned and is about to (Index: each id is claimed by one place);    *)
(* - with MemoryTaskStore, and Serial again, the listener of state changes *)
(*   knows a task's state (Known: what the thread at work has still to     *)
(*   tell it);                                                             *)
(* - with MemoryTaskStore getHistory returns each message that was there   *)
(*   when it was called, once (Reading: what it has, and where the rest    *)
(*   is), since no two places of the histories hold the same (Unique).     *)
(***************************************************************************)
EXTENDS TaskStores, FiniteSetTheorems, TLAPS

\* Thread t is in a call that changes its task; in Redis who adds an artifact
\* writes the whole task, with the state that it has read.
Changing(t) ==
  /\ pc[t] \in {"cancel", "update", "flush", "notify"}
  /\ Redis \/ local[t].to # None

\* No two calls change one task at a time.  Nothing in the code sees to it.
Serial ==
  \A t, u \in Threads :
    Changing(t) /\ Changing(u) /\ local[t].id = local[u].id => t = u

-----------------------------------------------------------------------------
\* Where a thread works on a task, the task is there; what a thread reserved
\* is its own and not stored yet.
Reserved ==
  /\ DOMAIN tasks \subseteq created
  /\ \A t \in Threads :
       pc[t] = "store" => /\ local[t].id \in created \ DOMAIN tasks
                          /\ local[t].context \in Contexts
  /\ \A t, u \in Threads :
       pc[t] = "store" /\ pc[u] = "store" /\ local[t].id = local[u].id => t = u

Working ==
  /\ \A t \in Threads :
       /\ pc[t] = "track" => local[t].id \in created /\ local[t].context \in Contexts
       /\ pc[t] = "count" => local[t].id \in created
       /\ pc[t] \in {"update", "flush", "cancel"} => local[t].id \in DOMAIN tasks
       /\ pc[t] \in {"cancel", "notify"} => local[t].id \in TaskIds /\ local[t].to \in States
       /\ pc[t] = "flush" => local[t].copy \in Task

IInv == TypeOK /\ Reserved /\ Working

-----------------------------------------------------------------------------
(* Types                                                                   *)

LEMMA NoLocalsType == NoLocals \in Locals
<1>1. "Submitted" \in States BY DEF States
<1>2. <<>> \in Seq(TaskIds) /\ <<>> \in Seq(1..MaxMessages) OBVIOUS
<1> QED BY <1>1, <1>2 DEF NoLocals, Locals

\* At sets the location and the locals of one thread and of no other.
LEMMA AtType ==
  ASSUME TypeOK, NEW t \in Threads, NEW l \in Locations, NEW r \in Locals, At(t, l, r)
  PROVE  /\ pc' \in [Threads -> Locations] /\ local' \in [Threads -> Locals]
         /\ pc'[t] = l /\ local'[t] = r
         /\ \A u \in Threads \ {t} : pc'[u] = pc[u] /\ local'[u] = local[u]
  BY DEF At, TypeOK

LEMMA ReturnType ==
  ASSUME TypeOK, NEW t \in Threads, Return(t)
  PROVE  /\ pc' \in [Threads -> Locations] /\ local' \in [Threads -> Locals]
         /\ pc'[t] = "idle"
         /\ \A u \in Threads \ {t} : pc'[u] = pc[u] /\ local'[u] = local[u]
<1>1. "idle" \in Locations BY DEF Locations
<1> QED BY <1>1, NoLocalsType, AtType DEF Return

LEMMA NewTaskType ==
  ASSUME NEW c \in Contexts
  PROVE  NewTask(c) \in Task
<1>1. "Submitted" \in States BY DEF States
<1>2. 0 \in 0..MaxArtifacts BY SetupAssumption DEF SetupAssumption
<1> QED BY <1>1, <1>2 DEF NewTask, Task

LEMMA ChangedType ==
  ASSUME NEW t \in Threads, local[t] \in Locals, NEW task \in Task
  PROVE  Changed(t, task) \in Task
<1>1. CASE local[t].to # None
  <2>1. local[t].to \in States BY <1>1 DEF Locals
  <2> QED BY <1>1, <2>1 DEF Changed, Task
<1>2. CASE local[t].to = None /\ task.artifacts < MaxArtifacts
  <2>1. task.artifacts + 1 \in 0..MaxArtifacts
    BY <1>2, SetupAssumption DEF Task, SetupAssumption
  <2> QED BY <1>2, <2>1 DEF Changed, Task
<1>3. CASE local[t].to = None /\ ~(task.artifacts < MaxArtifacts)
  BY <1>3 DEF Changed
<1> QED BY <1>1, <1>2, <1>3

\* After a write the thread is idle or about to notify, with the same locals.
LEMMA WrittenType ==
  ASSUME TypeOK, NEW t \in Threads, Written(t)
  PROVE  /\ pc' \in [Threads -> Locations] /\ local' \in [Threads -> Locals]
         /\ \/ pc'[t] = "idle"
            \/ pc'[t] = "notify" /\ local'[t] = local[t] /\ local[t].to # None
         /\ \A u \in Threads \ {t} : pc'[u] = pc[u] /\ local'[u] = local[u]
<1>1. CASE local[t].to = None
  BY <1>1, ReturnType DEF Written
<1>2. CASE local[t].to # None
  <2>1. "notify" \in Locations BY DEF Locations
  <2>2. local[t] \in Locals BY DEF TypeOK
  <2> QED BY <1>2, <2>1, <2>2, AtType DEF Written
<1> QED BY <1>1, <1>2

-----------------------------------------------------------------------------
(* createTask                                                              *)

LEMMA CreateInv ==
  ASSUME IInv, NEW t \in Threads, createTask(t)
  PROVE  IInv'
<1>1. PICK i \in TaskIds \ created, c \in Contexts :
        /\ created' = created \cup {i}
        /\ At(t, "store", [NoLocals EXCEPT !.id = i, !.context = c])
  BY DEF createTask
<1> DEFINE r == [NoLocals EXCEPT !.id = i, !.context = c]
<1>2. r \in Locals /\ r.id = i /\ r.context = c
  BY NoLocalsType DEF Locals, NoLocals
<1>3. /\ pc' \in [Threads -> Locations] /\ local' \in [Threads -> Locals]
      /\ pc'[t] = "store" /\ local'[t] = r
      /\ \A u \in Threads \ {t} : pc'[u] = pc[u] /\ local'[u] = local[u]
  <2>1. "store" \in Locations BY DEF Locations
  <2> HIDE DEF r
  <2> QED BY <1>1, <1>2, <2>1, AtType DEF IInv, r
<1> HIDE DEF r
<1>4. TypeOK'
  BY <1>1, <1>3 DEF IInv, TypeOK, createTask
<1>5. Reserved'
  BY <1>1, <1>2, <1>3 DEF IInv, Reserved, TypeOK, createTask
<1>6. Working'
  BY <1>1, <1>3 DEF IInv, Working, createTask
<1> QED BY <1>4, <1>5, <1>6 DEF IInv

LEMMA StoreInv ==
  ASSUME IInv, NEW t \in Threads, StoreTask(t)
  PROVE  IInv'
<1> DEFINE i == local[t].id
<1>1. local[t] \in Locals /\ "track" \in Locations
  BY DEF IInv, TypeOK, Locations
<1>2. /\ pc' \in [Threads -> Locations] /\ local' \in [Threads -> Locals]
      /\ pc'[t] = "track" /\ local'[t] = local[t]
      /\ \A u \in Threads \ {t} : pc'[u] = pc[u] /\ local'[u] = local[u]
  BY <1>1, AtType DEF IInv, StoreTask
<1>3. i \in created /\ i \in TaskIds /\ i \notin DOMAIN tasks /\ local[t].context \in Contexts
  BY DEF IInv, Reserved, TypeOK, StoreTask
<1>4. \/ tasks' = tasks
      \/ /\ DOMAIN tasks' = DOMAIN tasks \cup {i}
         /\ tasks'[i] \in Task
         /\ \A j \in DOMAIN tasks : tasks'[j] = tasks[j]
  BY <1>3, NewTaskType DEF StoreTask
<1>5. UNCHANGED <<created, contexts, total, returned, messages, told>>
  BY DEF StoreTask, index
<1>6. TypeOK'
  BY <1>2, <1>3, <1>4, <1>5 DEF IInv, TypeOK
<1>7. \A u \in Threads : pc'[u] = "store" => u # t /\ local[u].id # i
  BY <1>2 DEF IInv, Reserved, StoreTask
<1>8. Reserved'
  BY <1>2, <1>3, <1>4, <1>5, <1>7 DEF IInv, Reserved
<1>9. Working'
  BY <1>2, <1>3, <1>4, <1>5 DEF IInv, Working
<1> QED BY <1>6, <1>8, <1>9 DEF IInv

LEMMA TrackInv ==
  ASSUME IInv, NEW t \in Threads, trackContextTask(t)
  PROVE  IInv'
<1>1. local[t] \in Locals /\ "count" \in Locations
  BY DEF IInv, TypeOK, Locations
<1>2. /\ pc' \in [Threads -> Locations] /\ local' \in [Threads -> Locals]
      /\ pc'[t] = "count" /\ local'[t] = local[t]
      /\ \A u \in Threads \ {t} : pc'[u] = pc[u] /\ local'[u] = local[u]
  BY <1>1, AtType DEF IInv, trackContextTask
<1>3. local[t].id \in created /\ local[t].id \in TaskIds /\ local[t].context \in Contexts
  BY DEF IInv, Working, TypeOK, trackContextTask
<1>4. contexts' \in [Contexts -> Seq(TaskIds)]
  BY <1>3 DEF IInv, TypeOK, trackContextTask
<1>5. TypeOK'   BY <1>2, <1>4 DEF IInv, TypeOK, trackContextTask
<1>6. Reserved' BY <1>2 DEF IInv, Reserved, trackContextTask
<1>7. Working'  BY <1>2, <1>3 DEF IInv, Working, trackContextTask
<1> QED BY <1>5, <1>6, <1>7 DEF IInv

LEMMA CountInv ==
  ASSUME IInv, NEW t \in Threads, CountTask(t)
  PROVE  IInv'
<1>1. /\ pc' \in [Threads -> Locations] /\ local' \in [Threads -> Locals]
      /\ pc'[t] = "idle"
      /\ \A u \in Threads \ {t} : pc'[u] = pc[u] /\ local'[u] = local[u]
  BY ReturnType DEF IInv, CountTask
<1>2. local[t].id \in created BY DEF IInv, Working, CountTask
<1>3. TypeOK'   BY <1>1, <1>2 DEF IInv, TypeOK, CountTask
<1>4. Reserved' BY <1>1 DEF IInv, Reserved, CountTask
<1>5. Working'  BY <1>1 DEF IInv, Working, CountTask
<1> QED BY <1>3, <1>4, <1>5 DEF IInv

-----------------------------------------------------------------------------
(* Steps that leave the store and its index alone: they set the location   *)
(* of one thread.                                                          *)

LEMMA MoveInv ==
  ASSUME IInv, NEW t \in Threads, UNCHANGED <<tasks, index>>,
         messages' \in 0..MaxMessages, told' \in [TaskIds -> States],
         pc' \in [Threads -> Locations], local' \in [Threads -> Locals],
         \A u \in Threads \ {t} : pc'[u] = pc[u] /\ local'[u] = local[u],
         \/ pc'[t] \in {"idle", "history"}
         \/ pc'[t] \in {"update", "cancel", "flush"} /\ local'[t].id \in DOMAIN tasks
            /\ (pc'[t] = "cancel" => local'[t].to \in States)
            /\ (pc'[t] = "flush" => local'[t].copy \in Task)
         \/ pc'[t] = "notify" /\ local'[t].id \in TaskIds /\ local'[t].to \in States
  PROVE  IInv'
<1>1. UNCHANGED <<tasks, created, contexts, total, returned>> BY DEF index
<1>2. TypeOK'   BY <1>1 DEF IInv, TypeOK
<1>3. Reserved' BY <1>1 DEF IInv, Reserved
<1>4. Working'  BY <1>1 DEF IInv, Working, TypeOK
<1> QED BY <1>2, <1>3, <1>4 DEF IInv

LEMMA UpdateInv ==
  ASSUME IInv, NEW t \in Threads, updateTaskState(t)
  PROVE  IInv'
<1>1. PICK i \in returned, to \in States :
        /\ i \in DOMAIN tasks
        /\ At(t, "update", [NoLocals EXCEPT !.id = i, !.from = tasks[i].state, !.to = to])
  BY DEF updateTaskState
<1> DEFINE r == [NoLocals EXCEPT !.id = i, !.from = tasks[i].state, !.to = to]
<1>2. r \in Locals /\ r.id = i
  <2>1. i \in TaskIds /\ tasks[i].state \in States
    BY <1>1 DEF IInv, TypeOK, Task
  <2> QED BY <2>1, NoLocalsType DEF Locals, NoLocals
<1>3. "update" \in Locations BY DEF Locations
<1> HIDE DEF r
<1>4. At(t, "update", r) BY <1>1 DEF r
<1> QED BY <1>1, <1>2, <1>3, <1>4, AtType, MoveInv DEF IInv, TypeOK, updateTaskState

LEMMA CancelInv ==
  ASSUME IInv, NEW t \in Threads, cancelTask(t)
  PROVE  IInv'
<1>1. PICK i \in returned :
        /\ i \in DOMAIN tasks
        /\ At(t, "cancel", [NoLocals EXCEPT !.id = i, !.from = tasks[i].state,
                                            !.to = "Canceled"])
  BY DEF cancelTask
<1> DEFINE r == [NoLocals EXCEPT !.id = i, !.from = tasks[i].state, !.to = "Canceled"]
<1>2. r \in Locals /\ r.id = i /\ r.to \in States
  <2>1. i \in TaskIds /\ tasks[i].state \in States /\ "Canceled" \in States
    BY <1>1 DEF IInv, TypeOK, Task, States
  <2> QED BY <2>1, NoLocalsType DEF Locals, NoLocals
<1>3. "cancel" \in Locations BY DEF Locations
<1> HIDE DEF r
<1>4. At(t, "cancel", r) BY <1>1 DEF r
<1> QED BY <1>1, <1>2, <1>3, <1>4, AtType, MoveInv DEF IInv, TypeOK, cancelTask

LEMMA CheckInv ==
  ASSUME IInv, NEW t \in Threads, CheckCancelable(t)
  PROVE  IInv'
<1>1. local[t] \in Locals /\ local[t].id \in DOMAIN tasks /\ "update" \in Locations
  BY DEF IInv, TypeOK, Working, CheckCancelable, Locations
<1>2. CASE At(t, "update", local[t])
  BY <1>1, <1>2, AtType, MoveInv DEF IInv, TypeOK, CheckCancelable
<1>3. CASE Return(t)
  BY <1>3, ReturnType, MoveInv DEF IInv, TypeOK, CheckCancelable
<1> QED BY <1>2, <1>3 DEF CheckCancelable

LEMMA ArtifactInv ==
  ASSUME IInv, NEW t \in Threads, addArtifact(t)
  PROVE  IInv'
<1>1. PICK i \in returned :
        /\ i \in DOMAIN tasks
        /\ At(t, "update", [NoLocals EXCEPT !.id = i, !.to = None])
  BY DEF addArtifact
<1> DEFINE r == [NoLocals EXCEPT !.id = i, !.to = None]
<1>2. r \in Locals /\ r.id = i
  BY <1>1, NoLocalsType DEF Locals, NoLocals, IInv, TypeOK
<1>3. "update" \in Locations BY DEF Locations
<1> HIDE DEF r
<1>4. At(t, "update", r) BY <1>1 DEF r
<1> QED BY <1>1, <1>2, <1>3, <1>4, AtType, MoveInv DEF IInv, TypeOK, addArtifact

LEMMA NotifyInv ==
  ASSUME IInv, NEW t \in Threads, Notify(t)
  PROVE  IInv'
<1>1. local[t].to \in States BY DEF IInv, Working, Notify
<1>2. told' \in [TaskIds -> States] BY <1>1 DEF IInv, TypeOK, Notify
<1> QED BY <1>2, ReturnType, MoveInv DEF IInv, TypeOK, Notify

-----------------------------------------------------------------------------
(* Steps that change a stored task.                                        *)

\* The store keeps its domain and one of its tasks becomes another task.
LEMMA RewriteInv ==
  ASSUME IInv, NEW t \in Threads, NEW i \in DOMAIN tasks, NEW task \in Task,
         tasks' = [tasks EXCEPT ![i] = task] \/ tasks' = tasks,
         UNCHANGED <<index, told>>, messages' \in 0..MaxMessages,
         pc' \in [Threads -> Locations], local' \in [Threads -> Locals],
         \A u \in Threads \ {t} : pc'[u] = pc[u] /\ local'[u] = local[u],
         \/ pc'[t] = "idle"
         \/ pc'[t] = "notify" /\ local'[t].id \in TaskIds /\ local'[t].to \in States
         \/ pc'[t] = pc[t] /\ local'[t] = local[t]
  PROVE  IInv'
<1>1. DOMAIN tasks' = DOMAIN tasks /\ \A j \in DOMAIN tasks : tasks'[j] \in Task
  BY DEF IInv, TypeOK
<1>2. UNCHANGED <<created, contexts, total, returned, told>> BY DEF index
<1>3. TypeOK'   BY <1>1, <1>2 DEF IInv, TypeOK
<1>4. Reserved' BY <1>1, <1>2 DEF IInv, Reserved
<1>5. Working'  BY <1>1, <1>2 DEF IInv, Working
<1> QED BY <1>3, <1>4, <1>5 DEF IInv

LEMMA WriteInv ==
  ASSUME IInv, NEW t \in Threads, WriteTask(t)
  PROVE  IInv'
<1> DEFINE i == local[t].id
<1>1. /\ local[t] \in Locals /\ i \in DOMAIN tasks /\ i \in TaskIds
      /\ tasks[i] \in Task
  BY DEF IInv, TypeOK, Working, WriteTask
<1>2. Changed(t, tasks[i]) \in Task
  BY <1>1, ChangedType
<1>3. UNCHANGED <<index, messages, told>> /\ messages \in 0..MaxMessages
  BY DEF WriteTask, IInv, TypeOK
<1>4. CASE Written(t) /\ (\/ tasks' = [tasks EXCEPT ![i] = Changed(t, @)]
                          \/ tasks' = tasks)
  <2>1. local[t].to # None => local[t].to \in States
    BY <1>1 DEF Locals
  <2>2. tasks' = [tasks EXCEPT ![i] = Changed(t, tasks[i])] \/ tasks' = tasks
    BY <1>4
  <2> HIDE DEF i
  <2>3. i = local[t].id BY DEF i
  <2> QED BY <1>1, <1>2, <1>3, <1>4, <2>1, <2>2, <2>3, WrittenType, RewriteInv DEF IInv
<1>5. CASE /\ At(t, "flush", [local[t] EXCEPT !.copy = Changed(t, tasks[i])])
           /\ UNCHANGED tasks
  <2> DEFINE r == [local[t] EXCEPT !.copy = Changed(t, tasks[i])]
  <2>1. r \in Locals /\ r.id = i /\ r.copy = Changed(t, tasks[i])
    BY <1>1, <1>2 DEF Locals
  <2>2. "flush" \in Locations BY DEF Locations
  <2> HIDE DEF r
  <2>3. At(t, "flush", r) BY <1>5 DEF r
  <2>4. told \in [TaskIds -> States] BY DEF IInv, TypeOK
  <2> QED BY <1>1, <1>2, <1>3, <1>5, <2>1, <2>2, <2>3, <2>4, AtType, MoveInv DEF IInv
<1> QED BY <1>4, <1>5 DEF WriteTask

LEMMA FlushInv ==
  ASSUME IInv, NEW t \in Threads, FlushTask(t)
  PROVE  IInv'
<1> DEFINE i == local[t].id
<1>1. /\ local[t] \in Locals /\ i \in DOMAIN tasks /\ i \in TaskIds
      /\ local[t].copy \in Task
  BY DEF IInv, TypeOK, Working, FlushTask
<1>2. local[t].to # None => local[t].to \in States
  BY <1>1 DEF Locals
<1>3. tasks' = [tasks EXCEPT ![i] = local[t].copy] \/ tasks' = tasks
  BY DEF FlushTask
<1>4. Written(t) /\ UNCHANGED <<index, messages, told>> /\ messages \in 0..MaxMessages
  BY DEF FlushTask, IInv, TypeOK
<1> HIDE DEF i
<1>5. i = local[t].id BY DEF i
<1> QED BY <1>1, <1>2, <1>3, <1>4, <1>5, WrittenType, RewriteInv DEF IInv

LEMMA MessageInv ==
  ASSUME IInv, NEW t \in Threads, addMessage(t)
  PROVE  IInv'
<1>1. PICK i \in DOMAIN tasks :
        tasks' = [tasks EXCEPT ![i].history = Append(@, messages + 1)]
  BY DEF addMessage
<1>2. messages' = messages + 1 /\ messages + 1 \in 1..MaxMessages
  BY SetupAssumption DEF addMessage, IInv, TypeOK, SetupAssumption
<1> DEFINE task == [tasks[i] EXCEPT !.history = Append(@, messages + 1)]
<1>3. task \in Task
  <2>1. tasks[i] \in Task BY DEF IInv, TypeOK
  <2>2. Append(tasks[i].history, messages + 1) \in Seq(1..MaxMessages)
    BY <2>1, <1>2 DEF Task
  <2> QED BY <2>1, <2>2 DEF Task
<1>4. tasks' = [tasks EXCEPT ![i] = task]
  BY <1>1
<1> HIDE DEF task
<1>5. UNCHANGED <<index, pc, local, told>>
  BY DEF addMessage
<1>6. pc' \in [Threads -> Locations] /\ local' \in [Threads -> Locals]
  BY <1>5 DEF IInv, TypeOK
<1>7. UNCHANGED <<index, told>> /\ pc' = pc /\ local' = local
  BY <1>5
<1>8. messages' \in 0..MaxMessages
  BY <1>2 DEF IInv, TypeOK
<1> QED BY <1>3, <1>4, <1>6, <1>7, <1>8, RewriteInv

-----------------------------------------------------------------------------
(* getHistory                                                              *)

LEMMA ElementsType ==
  ASSUME NEW S, NEW s \in Seq(S)
  PROVE  Elements(s) \subseteq S
<1>1. DOMAIN s = 1..Len(s) /\ \A k \in 1..Len(s) : s[k] \in S
  OBVIOUS
<1> QED BY <1>1 DEF Elements

LEMMA MessagesOfType ==
  ASSUME TypeOK, NEW c \in Contexts
  PROVE  MessagesOf(c) \subseteq 1..MaxMessages
<1>1. ASSUME NEW i \in DOMAIN tasks PROVE Elements(tasks[i].history) \subseteq 1..MaxMessages
  <2>1. tasks[i].history \in Seq(1..MaxMessages) BY DEF TypeOK, Task
  <2> QED BY <2>1, ElementsType
<1> QED BY <1>1 DEF MessagesOf

LEMMA HistoryInv ==
  ASSUME IInv, NEW t \in Threads, getHistory(t) \/ CollectHistory(t) \/ ReturnHistory(t)
  PROVE  IInv'
<1>1. "history" \in Locations BY DEF Locations
<1>2. UNCHANGED <<tasks, index, messages, told>>
  BY DEF getHistory, CollectHistory, ReturnHistory
<1>3. CASE getHistory(t)
  <2>1. PICK c \in Contexts :
          At(t, "history", [NoLocals EXCEPT !.context = c, !.ids = contexts[c],
                                            !.before = MessagesOf(c)])
    BY <1>3 DEF getHistory
  <2> DEFINE r == [NoLocals EXCEPT !.context = c, !.ids = contexts[c],
                                   !.before = MessagesOf(c)]
  <2>2. r \in Locals
    BY NoLocalsType, MessagesOfType DEF Locals, NoLocals, IInv, TypeOK
  <2> HIDE DEF r
  <2>3. At(t, "history", r) BY <2>1 DEF r
  <2> QED BY <1>1, <1>2, <2>2, <2>3, AtType, MoveInv DEF IInv, TypeOK
<1>4. CASE CollectHistory(t)
  <2> DEFINE i == Head(local[t].ids)
             g == IF i \in DOMAIN tasks THEN local[t].got \o tasks[i].history
                  ELSE local[t].got
             r == [local[t] EXCEPT !.ids = Tail(@),
                     !.got = IF i \in DOMAIN tasks THEN @ \o tasks[i].history ELSE @]
  <2>1. local[t] \in Locals /\ local[t].ids # <<>>
    BY <1>4 DEF CollectHistory, IInv, TypeOK
  <2>2. Tail(local[t].ids) \in Seq(TaskIds)
    BY <2>1 DEF Locals
  <2>3. g \in Seq(1..MaxMessages)
    <3>1. local[t].got \in Seq(1..MaxMessages) BY <2>1 DEF Locals
    <3>2. i \in DOMAIN tasks => tasks[i].history \in Seq(1..MaxMessages)
      BY DEF IInv, TypeOK, Task
    <3>3. CASE i \in DOMAIN tasks
      <4>1. local[t].got \o tasks[i].history \in Seq(1..MaxMessages)
        BY <3>1, <3>2, <3>3
      <4> QED BY <4>1, <3>3
    <3>4. CASE i \notin DOMAIN tasks
      BY <3>1, <3>4
    <3> QED BY <3>3, <3>4
  <2>4. r = [local[t] EXCEPT !.ids = Tail(local[t].ids), !.got = g]
    BY <2>1 DEF Locals
  <2> HIDE DEF g, i
  <2>5. r \in Locals
    BY <2>1, <2>2, <2>3, <2>4 DEF Locals
  <2>6. At(t, "history", r)
    BY <1>4 DEF CollectHistory, i
  <2> HIDE DEF r
  <2> QED BY <1>1, <1>2, <2>5, <2>6, AtType, MoveInv DEF IInv, TypeOK
<1>5. CASE ReturnHistory(t)
  BY <1>2, <1>5, ReturnType, MoveInv DEF ReturnHistory, IInv, TypeOK
<1> QED BY <1>3, <1>4, <1>5

-----------------------------------------------------------------------------
(* The invariant                                                           *)

LEMMA InitInv == Init => IInv
<1> SUFFICES ASSUME Init PROVE IInv
  OBVIOUS
<1>1. DOMAIN tasks = {} BY DEF Init
<1>2. "idle" \in Locations /\ "Submitted" \in States /\ <<>> \in Seq(TaskIds)
  BY DEF Locations, States
<1>3. TypeOK
  BY <1>1, <1>2, NoLocalsType, SetupAssumption DEF Init, TypeOK, SetupAssumption
<1>4. Reserved BY <1>1 DEF Init, Reserved
<1>5. Working  BY <1>1 DEF Init, Working
<1> QED BY <1>3, <1>4, <1>5 DEF IInv

LEMMA NextInv == IInv /\ [Next]_vars => IInv'
<1> SUFFICES ASSUME IInv, [Next]_vars PROVE IInv'
  OBVIOUS
<1>1. CASE Next
  BY <1>1, CreateInv, StoreInv, TrackInv, CountInv, UpdateInv, CancelInv, CheckInv,
     ArtifactInv, WriteInv, FlushInv, NotifyInv, MessageInv, HistoryInv
  DEF Next
<1>2. CASE UNCHANGED vars
  BY <1>2 DEF vars, IInv, TypeOK, Reserved, Working
<1> QED BY <1>1, <1>2

THEOREM Invariance == Spec => []IInv
  BY InitInv, NextInv, PTL DEF Spec

\* The variables, and what the threads hold, stay in their types.
THEOREM TypeCorrect == Spec => []TypeOK
  BY Invariance, PTL DEF IInv

\* createTask never replaces a task that the store has, in either store and
\* for any number of threads drawing ids.
THEOREM CreateIsFreshHolds == Spec => CreateIsFresh
<1> DEFINE Fresh == \A t \in Threads : pc[t] = "store" /\ pc'[t] = "track" =>
                      local[t].id \notin DOMAIN tasks
<1>1. IInv /\ [Next]_vars => [Fresh]_vars
  BY DEF IInv, Reserved
<1> QED
  BY <1>1, Invariance, PTL DEF Spec, CreateIsFresh

-----------------------------------------------------------------------------
(* Any number of writers: what a change of state has behind it.            *)

LEMMA ChangedState ==
  ASSUME NEW t \in Threads, local[t] \in Locals, NEW task \in Task
  PROVE  /\ Changed(t, task) \in Task
         /\ local[t].to = None => Changed(t, task).state = task.state
         /\ local[t].to # None => Changed(t, task).state = local[t].to
BY ChangedType DEF Changed, Task

\* The change that thread t is about to write.
ChosenBy(t) ==
  /\ pc[t] = "cancel" => local[t].to = "Canceled"
  /\ pc[t] \in {"update", "flush"} /\ local[t].to # None =>
       isValidTransition(local[t].from, local[t].to) \/ local[t].to = "Canceled"
  /\ pc[t] = "flush" => Redis /\ (local[t].to # None => local[t].copy.state = local[t].to)

Chosen == \A t \in Threads : ChosenBy(t)

LEMMA NextChosen ==
  ASSUME IInv, Chosen, [Next]_vars
  PROVE  Chosen'
<1>1. ASSUME NEW t \in Threads, ChosenBy(t)',
             \A u \in Threads \ {t} : pc'[u] = pc[u] /\ local'[u] = local[u]
      PROVE  Chosen'
  BY <1>1 DEF Chosen, ChosenBy
<1>2. ASSUME NEW t \in Threads,
             createTask(t) \/ StoreTask(t) \/ trackContextTask(t) \/ CountTask(t)
               \/ Notify(t) \/ getHistory(t) \/ CollectHistory(t) \/ ReturnHistory(t)
      PROVE  Chosen'
  <2>1. /\ pc'[t] \in {"store", "track", "count", "idle", "history"}
        /\ \A u \in Threads \ {t} : pc'[u] = pc[u] /\ local'[u] = local[u]
    BY <1>2 DEF createTask, StoreTask, trackContextTask, CountTask, Notify, getHistory,
                CollectHistory, ReturnHistory, Return, At, IInv, TypeOK
  <2> QED BY <1>1, <2>1 DEF ChosenBy
<1>3. ASSUME NEW t \in Threads, addMessage(t) PROVE Chosen'
  BY <1>3 DEF addMessage, Chosen, ChosenBy
<1>4. ASSUME NEW t \in Threads, updateTaskState(t) PROVE Chosen'
  <2>1. PICK i \in returned, to \in States :
          /\ isValidTransition(tasks[i].state, to)
          /\ At(t, "update", [NoLocals EXCEPT !.id = i, !.from = tasks[i].state, !.to = to])
    BY <1>4 DEF updateTaskState
  <2>2. /\ pc'[t] = "update" /\ local'[t].from = tasks[i].state /\ local'[t].to = to
        /\ \A u \in Threads \ {t} : pc'[u] = pc[u] /\ local'[u] = local[u]
    BY <2>1 DEF At, NoLocals, IInv, TypeOK
  <2> QED BY <1>1, <2>1, <2>2 DEF ChosenBy
<1>5. ASSUME NEW t \in Threads, cancelTask(t) PROVE Chosen'
  <2>1. PICK i \in returned :
          At(t, "cancel", [NoLocals EXCEPT !.id = i, !.from = tasks[i].state,
                                           !.to = "Canceled"])
    BY <1>5 DEF cancelTask
  <2>2. /\ pc'[t] = "cancel" /\ local'[t].to = "Canceled"
        /\ \A u \in Threads \ {t} : pc'[u] = pc[u] /\ local'[u] = local[u]
    BY <2>1 DEF At, NoLocals, IInv, TypeOK
  <2> QED BY <1>1, <2>2 DEF ChosenBy
<1>6. ASSUME NEW t \in Threads, CheckCancelable(t) PROVE Chosen'
  <2>1. /\ \/ pc'[t] = "idle"
           \/ pc'[t] = "update" /\ local'[t] = local[t]
        /\ \A u \in Threads \ {t} : pc'[u] = pc[u] /\ local'[u] = local[u]
    BY <1>6 DEF CheckCancelable, Return, At, IInv, TypeOK
  <2>2. local[t].to = "Canceled"
    BY <1>6 DEF CheckCancelable, Chosen, ChosenBy
  <2> QED BY <1>1, <2>1, <2>2 DEF ChosenBy
<1>7. ASSUME NEW t \in Threads, addArtifact(t) PROVE Chosen'
  <2>1. /\ pc'[t] = "update" /\ local'[t].to = None
        /\ \A u \in Threads \ {t} : pc'[u] = pc[u] /\ local'[u] = local[u]
    BY <1>7 DEF addArtifact, At, NoLocals, IInv, TypeOK
  <2> QED BY <1>1, <2>1 DEF ChosenBy
<1>8. ASSUME NEW t \in Threads, WriteTask(t) \/ FlushTask(t) PROVE Chosen'
  <2>1. CASE Written(t)
    <3>1. /\ pc'[t] \in {"idle", "notify"}
          /\ \A u \in Threads \ {t} : pc'[u] = pc[u] /\ local'[u] = local[u]
      BY <2>1, WrittenType DEF IInv
    <3> QED BY <1>1, <3>1 DEF ChosenBy
  <2>2. CASE ~Written(t)
    <3> DEFINE task == Changed(t, tasks[local[t].id])
    <3>1. /\ pc[t] = "update" /\ Redis
          /\ At(t, "flush", [local[t] EXCEPT !.copy = task])
      BY <1>8, <2>2 DEF WriteTask, FlushTask
    <3>2. local[t].to # None => task.state = local[t].to
      BY <3>1, ChangedState DEF IInv, TypeOK, Working
    <3> HIDE DEF task
    <3>3. /\ pc'[t] = "flush" /\ local'[t].from = local[t].from /\ local'[t].to = local[t].to
          /\ local'[t].copy = task
          /\ \A u \in Threads \ {t} : pc'[u] = pc[u] /\ local'[u] = local[u]
      BY <3>1 DEF At, IInv, TypeOK, Locals
    <3>4. ChosenBy(t)'
      BY <3>1, <3>2, <3>3 DEF Chosen, ChosenBy
    <3> QED BY <1>1, <3>3, <3>4
  <2> QED BY <2>1, <2>2
<1>9. CASE UNCHANGED vars
  BY <1>9 DEF vars, Chosen, ChosenBy
<1> QED BY <1>2, <1>3, <1>4, <1>5, <1>6, <1>7, <1>8, <1>9 DEF Next

\* A thread is behind the change of the state of task i.
ChangedBy(t, i) ==
  /\ pc[t] \in {"update", "flush"} /\ local[t].id = i
  /\ \/ isValidTransition(local[t].from, tasks'[i].state)
     \/ tasks'[i].state = "Canceled"
     \/ Redis /\ local[t].to = None

\* Whenever a stored task changes its state, a call writes it that read the
\* task before and found the change valid, or cancels it, however many other
\* calls write in between; or, in Redis, it is one that adds an artifact and
\* writes back the state it has read.  So nobody starts, completes or fails a
\* task without having found it Submitted or Running.
ChangeValidated ==
  [][\A i \in DOMAIN tasks : tasks'[i].state # tasks[i].state =>
       \E t \in Threads : ChangedBy(t, i)]_vars

LEMMA StepChanged ==
  ASSUME IInv, Chosen, [Next]_vars, NEW i \in DOMAIN tasks,
         tasks'[i].state # tasks[i].state
  PROVE  \E t \in Threads : ChangedBy(t, i)
<1>1. ASSUME NEW t \in Threads, StoreTask(t) PROVE FALSE
  BY <1>1 DEF StoreTask, IInv, Reserved
<1>2. ASSUME NEW t \in Threads, addMessage(t) PROVE FALSE
  BY <1>2 DEF addMessage, IInv, TypeOK, Task
<1>3. ASSUME NEW t \in Threads, WriteTask(t) PROVE ChangedBy(t, i)
  <2>1. pc[t] = "update" /\ local[t].id \in DOMAIN tasks
    BY <1>3 DEF WriteTask, IInv, Working
  <2>2. tasks' = [tasks EXCEPT ![local[t].id] = Changed(t, tasks[local[t].id])]
    BY <1>3 DEF WriteTask
  <2>3. i = local[t].id /\ tasks'[i] = Changed(t, tasks[i])
    BY <2>1, <2>2
  <2>4. local[t].to # None /\ tasks'[i].state = local[t].to
    BY <2>3, ChangedState DEF IInv, TypeOK
  <2> QED BY <2>1, <2>3, <2>4 DEF Chosen, ChosenBy, ChangedBy
<1>4. ASSUME NEW t \in Threads, FlushTask(t) PROVE ChangedBy(t, i)
  <2>1. pc[t] = "flush" /\ local[t].id \in DOMAIN tasks
    BY <1>4 DEF FlushTask, IInv, Working
  <2>2. tasks' = [tasks EXCEPT ![local[t].id] = local[t].copy]
    BY <1>4 DEF FlushTask
  <2>3. i = local[t].id /\ tasks'[i] = local[t].copy
    BY <2>1, <2>2
  <2> QED BY <2>1, <2>3 DEF Chosen, ChosenBy, ChangedBy
<1>5. CASE UNCHANGED tasks
  BY <1>5
<1>6. ASSUME NEW t \in Threads,
             \/ createTask(t) \/ trackContextTask(t) \/ CountTask(t)
             \/ updateTaskState(t) \/ cancelTask(t) \/ CheckCancelable(t) \/ addArtifact(t)
             \/ Notify(t) \/ getHistory(t) \/ CollectHistory(t) \/ ReturnHistory(t)
      PROVE  UNCHANGED tasks
  BY <1>6 DEF createTask, trackContextTask, CountTask, updateTaskState, cancelTask,
              CheckCancelable, addArtifact, Notify, getHistory, CollectHistory, ReturnHistory
<1> QED BY <1>1, <1>2, <1>3, <1>4, <1>5, <1>6 DEF Next, vars

\* No change of state is written unvalidated, in either store and for any
\* number of threads that change the same tasks.
THEOREM ChangeValidatedHolds == Spec => ChangeValidated
<1> DEFINE Behind == \A i \in DOMAIN tasks : tasks'[i].state # tasks[i].state =>
                       \E t \in Threads : ChangedBy(t, i)
<1>1. Init => Chosen
  BY DEF Init, Chosen, ChosenBy
<1>2. IInv /\ Chosen /\ [Next]_vars => Chosen'
  BY NextChosen
<1>3. IInv /\ Chosen /\ [Next]_vars => [Behind]_vars
  BY StepChanged
<1> QED BY <1>1, <1>2, <1>3, Invariance, PTL DEF Spec, ChangeValidated

-----------------------------------------------------------------------------
(* Calls that do not overlap: the state machine.                           *)

\* What a thread has validated it may still write, and has in its copy; a
\* cancellation is its own.
Validated ==
  \A t \in Threads :
    /\ pc[t] = "cancel" => local[t].to = "Canceled"
    /\ pc[t] \in {"update", "flush"} /\ local[t].to # None =>
         isValidTransition(tasks[local[t].id].state, local[t].to)
    /\ pc[t] = "flush" =>
         /\ Redis
         /\ local[t].to # None => local[t].copy.state = local[t].to
         /\ local[t].to = None => local[t].copy.state = tasks[local[t].id].state

\* The other steps keep the states of the stored tasks and end validations only.
LEMMA OtherValidated ==
  ASSUME IInv, Validated, NEW t \in Threads,
         \A i \in DOMAIN tasks : tasks'[i].state = tasks[i].state,
         \A u \in Threads \ {t} : pc'[u] = pc[u] /\ local'[u] = local[u],
         pc'[t] \notin {"update", "flush", "cancel"}
  PROVE  Validated'
  BY DEF IInv, Working, Validated

\* A write of thread t leaves the state of a task alone that another thread
\* has validated, or copied.
LEMMA WriteValidated ==
  ASSUME Serial, IInv, Validated, NEW t \in Threads, NEW task \in Task,
         pc[t] \in {"update", "flush"}, Written(t),
         tasks' = [tasks EXCEPT ![local[t].id] = task],
         local[t].to = None => task.state = tasks[local[t].id].state
  PROVE  Validated'
<1> DEFINE i == local[t].id
<1>1. i \in DOMAIN tasks /\ i \in TaskIds
  BY DEF IInv, TypeOK, Working
<1>2. /\ pc'[t] \in {"idle", "notify"}
      /\ \A u \in Threads \ {t} : pc'[u] = pc[u] /\ local'[u] = local[u]
  BY WrittenType DEF IInv
<1>3. ASSUME NEW u \in Threads \ {t},
             pc[u] = "flush" \/ (pc[u] = "update" /\ local[u].to # None)
      PROVE  tasks'[local[u].id].state = tasks[local[u].id].state
  <2>1. local[u].id \in DOMAIN tasks /\ Changing(u)
    BY <1>3 DEF Validated, IInv, Working, Changing
  <2>2. CASE local[u].id # i BY <1>1, <2>1, <2>2
  <2>3. CASE local[u].id = i
    <3>1. local[t].to = None
      BY <2>1, <2>3 DEF Serial, Changing
    <3> QED BY <1>1, <2>3, <3>1
  <2> QED BY <2>2, <2>3
<1> QED BY <1>2, <1>3 DEF Validated

\* The two stores' ways to write: in place, or in a copy.
LEMMA UpdateValidated ==
  ASSUME Serial, IInv, Validated, NEW t \in Threads, WriteTask(t)
  PROVE  Validated'
<1> DEFINE i == local[t].id
           task == Changed(t, tasks[i])
<1>1. pc[t] = "update" /\ i \in DOMAIN tasks /\ i \in TaskIds /\ tasks[i] \in Task
  BY DEF WriteTask, IInv, TypeOK, Working
<1>2. /\ task \in Task
      /\ local[t].to = None => task.state = tasks[i].state
      /\ local[t].to # None => task.state = local[t].to
  BY <1>1, ChangedState DEF IInv, TypeOK
<1>3. CASE ~Redis
  <2>1. tasks' = [tasks EXCEPT ![i] = task] /\ Written(t)
    BY <1>3 DEF WriteTask
  <2> QED BY <1>1, <1>2, <2>1, WriteValidated
<1>4. CASE Redis /\ Written(t) /\ UNCHANGED tasks
  <2>1. /\ pc'[t] \in {"idle", "notify"}
        /\ \A u \in Threads \ {t} : pc'[u] = pc[u] /\ local'[u] = local[u]
    BY <1>4, WrittenType DEF IInv
  <2> QED BY <1>4, <2>1, OtherValidated
<1>5. CASE /\ Redis /\ UNCHANGED tasks
           /\ At(t, "flush", [local[t] EXCEPT !.copy = task])
  <2>1. /\ pc'[t] = "flush" /\ local'[t].id = i /\ local'[t].to = local[t].to
        /\ local'[t].copy = task
        /\ \A u \in Threads \ {t} : pc'[u] = pc[u] /\ local'[u] = local[u]
    BY <1>5 DEF At, IInv, TypeOK, Locals
  <2> QED BY <1>1, <1>2, <1>5, <2>1 DEF Validated
<1> QED BY <1>3, <1>4, <1>5 DEF WriteTask

LEMMA FlushValidated ==
  ASSUME Serial, IInv, Validated, NEW t \in Threads, FlushTask(t)
  PROVE  Validated'
<1>1. /\ pc[t] = "flush" /\ local[t].copy \in Task /\ Written(t)
      /\ local[t].to = None => local[t].copy.state = tasks[local[t].id].state
  BY DEF FlushTask, IInv, Working, Validated
<1>2. CASE tasks' = [tasks EXCEPT ![local[t].id] = local[t].copy]
  BY <1>1, <1>2, WriteValidated
<1>3. CASE UNCHANGED tasks
  <2>1. /\ pc'[t] \in {"idle", "notify"}
        /\ \A u \in Threads \ {t} : pc'[u] = pc[u] /\ local'[u] = local[u]
    BY <1>1, WrittenType DEF IInv
  <2> QED BY <1>3, <2>1, OtherValidated
<1> QED BY <1>2, <1>3 DEF FlushTask

\* Reading and validating.
LEMMA ReadValidated ==
  ASSUME IInv, Validated, NEW t \in Threads,
         updateTaskState(t) \/ cancelTask(t) \/ CheckCancelable(t) \/ addArtifact(t)
  PROVE  Validated'
<1>1. UNCHANGED tasks
  BY DEF updateTaskState, cancelTask, CheckCancelable, addArtifact
<1>2. CASE updateTaskState(t)
  <2>1. PICK i \in returned, to \in States :
          /\ isValidTransition(tasks[i].state, to)
          /\ At(t, "update", [NoLocals EXCEPT !.id = i, !.from = tasks[i].state, !.to = to])
    BY <1>2 DEF updateTaskState
  <2>2. /\ pc'[t] = "update" /\ local'[t].id = i /\ local'[t].to = to
        /\ \A u \in Threads \ {t} : pc'[u] = pc[u] /\ local'[u] = local[u]
    BY <2>1 DEF At, NoLocals, IInv, TypeOK
  <2> QED BY <1>1, <2>1, <2>2 DEF Validated
<1>3. CASE cancelTask(t)
  <2>1. PICK i \in returned :
          At(t, "cancel", [NoLocals EXCEPT !.id = i, !.from = tasks[i].state,
                                           !.to = "Canceled"])
    BY <1>3 DEF cancelTask
  <2>2. /\ pc'[t] = "cancel" /\ local'[t].id = i /\ local'[t].to = "Canceled"
        /\ \A u \in Threads \ {t} : pc'[u] = pc[u] /\ local'[u] = local[u]
    BY <2>1 DEF At, NoLocals, IInv, TypeOK
  <2> QED BY <1>1, <2>2 DEF Validated
<1>4. CASE CheckCancelable(t)
  <2>1. /\ \/ pc'[t] = "idle"
           \/ /\ pc'[t] = "update" /\ local'[t] = local[t]
              /\ tasks[local[t].id].state \notin Terminal
        /\ \A u \in Threads \ {t} : pc'[u] = pc[u] /\ local'[u] = local[u]
    BY <1>4 DEF CheckCancelable, Return, At, IInv, TypeOK
  <2>2. tasks[local[t].id].state \in States
    BY <1>4 DEF CheckCancelable, IInv, TypeOK, Working, Task
  <2>3. tasks[local[t].id].state \notin Terminal =>
          isValidTransition(tasks[local[t].id].state, "Canceled")
    BY <2>2 DEF States, Terminal, isValidTransition
  <2> QED BY <1>1, <1>4, <2>1, <2>3 DEF Validated, CheckCancelable
<1>5. CASE addArtifact(t)
  <2>1. /\ pc'[t] = "update" /\ local'[t].to = None
        /\ \A u \in Threads \ {t} : pc'[u] = pc[u] /\ local'[u] = local[u]
    BY <1>5 DEF addArtifact, At, NoLocals, IInv, TypeOK
  <2> QED BY <1>1, <2>1 DEF Validated
<1> QED BY <1>2, <1>3, <1>4, <1>5

LEMMA NextValidated ==
  ASSUME Serial, IInv, Validated, [Next]_vars
  PROVE  Validated'
<1>1. ASSUME NEW t \in Threads,
             createTask(t) \/ StoreTask(t) \/ trackContextTask(t) \/ CountTask(t)
               \/ Notify(t) \/ getHistory(t) \/ CollectHistory(t) \/ ReturnHistory(t)
      PROVE  Validated'
  <2>1. /\ pc'[t] \in {"store", "track", "count", "idle", "history"}
        /\ \A u \in Threads \ {t} : pc'[u] = pc[u] /\ local'[u] = local[u]
    BY <1>1 DEF createTask, StoreTask, trackContextTask, CountTask, Notify, getHistory,
                CollectHistory, ReturnHistory, Return, At, IInv, TypeOK
  <2>2. \A i \in DOMAIN tasks : tasks'[i].state = tasks[i].state
    <3>1. CASE StoreTask(t)
      BY <3>1 DEF StoreTask, IInv, Reserved
    <3>2. CASE UNCHANGED tasks BY <3>2
    <3> QED BY <1>1, <3>1, <3>2 DEF createTask, trackContextTask, CountTask, Notify,
               getHistory, CollectHistory, ReturnHistory
  <2> QED BY <2>1, <2>2, OtherValidated
<1>2. ASSUME NEW t \in Threads, addMessage(t) PROVE Validated'
  <2>1. \A i \in DOMAIN tasks : tasks'[i].state = tasks[i].state
    BY <1>2 DEF addMessage, IInv, TypeOK, Task
  <2> QED BY <1>2, <2>1 DEF addMessage, IInv, Working, Validated
<1>3. CASE UNCHANGED vars
  BY <1>3 DEF vars, Validated
<1> QED BY <1>1, <1>2, <1>3, ReadValidated, UpdateValidated, FlushValidated DEF Next

\* A state that was validated is a move of the machine.
LEMMA MoveRefines ==
  ASSUME IInv, NEW i \in DOMAIN tasks, NEW task \in Task,
         tasks' = [tasks EXCEPT ![i] = task],
         task.state = tasks[i].state \/ isValidTransition(tasks[i].state, task.state)
  PROVE  [Machine!Next]_Phase
<1>1. i \in TaskIds /\ tasks[i] \in Task
  BY DEF IInv, TypeOK
<1>2. CASE task.state = tasks[i].state
  BY <1>1, <1>2 DEF Phase
<1>3. CASE isValidTransition(tasks[i].state, task.state)
  <2>1. Machine!Move(i, tasks[i].state, task.state)
    BY <1>1 DEF Phase, Machine!Move
  <2>2. Machine!Start(i) \/ Machine!GiveUp(i) \/ Machine!Finish(i)
    BY <1>3, <2>1 DEF isValidTransition, Machine!Start, Machine!GiveUp, Machine!Finish
  <2> QED BY <1>1, <2>2 DEF Machine!Next
<1> QED BY <1>2, <1>3

\* Every step is a step of the machine, or changes no task's phase.
LEMMA StepRefines ==
  ASSUME IInv, Validated, [Next]_vars
  PROVE  [Machine!Next]_Phase
<1>1. ASSUME NEW t \in Threads, StoreTask(t) PROVE [Machine!Next]_Phase
  <2> DEFINE i == local[t].id
  <2>1. i \in TaskIds /\ i \notin DOMAIN tasks
    BY <1>1 DEF StoreTask, IInv, Reserved, TypeOK
  <2>2. CASE tasks' = [j \in DOMAIN tasks \cup {i} |->
                         IF j = i THEN NewTask(local[t].context) ELSE tasks[j]]
    <3>1. Phase[i] = None /\ Phase' = [Phase EXCEPT ![i] = "Submitted"]
      BY <2>1, <2>2 DEF Phase, NewTask
    <3>2. Machine!Create(i)
      BY <3>1 DEF Machine!Create, Machine!Move
    <3> QED BY <2>1, <3>2 DEF Machine!Next
  <2>3. CASE UNCHANGED tasks
    BY <2>3 DEF Phase
  <2> QED BY <1>1, <2>2, <2>3 DEF StoreTask
<1>2. ASSUME NEW t \in Threads, WriteTask(t) PROVE [Machine!Next]_Phase
  <2> DEFINE i == local[t].id
             task == Changed(t, tasks[i])
  <2>1. pc[t] = "update" /\ i \in DOMAIN tasks /\ i \in TaskIds /\ tasks[i] \in Task
    BY <1>2 DEF WriteTask, IInv, TypeOK, Working
  <2>2. /\ task \in Task
        /\ local[t].to = None => task.state = tasks[i].state
        /\ local[t].to # None => task.state = local[t].to
    BY <2>1, ChangedState DEF IInv, TypeOK
  <2>3. CASE tasks' = [tasks EXCEPT ![i] = task]
    <3>1. task.state = tasks[i].state \/ isValidTransition(tasks[i].state, task.state)
      BY <2>1, <2>2 DEF Validated
    <3> QED BY <2>1, <2>2, <2>3, <3>1, MoveRefines
  <2>4. CASE UNCHANGED tasks
    BY <2>4 DEF Phase
  <2> QED BY <1>2, <2>3, <2>4 DEF WriteTask
<1>3. ASSUME NEW t \in Threads, addMessage(t) PROVE UNCHANGED Phase
  BY <1>3 DEF addMessage, Phase, IInv, TypeOK, Task
<1>4. ASSUME NEW t \in Threads, FlushTask(t) PROVE [Machine!Next]_Phase
  <2>1. /\ local[t].copy \in Task /\ local[t].id \in DOMAIN tasks
        /\ \/ local[t].copy.state = tasks[local[t].id].state
           \/ isValidTransition(tasks[local[t].id].state, local[t].copy.state)
    BY <1>4 DEF FlushTask, IInv, Working, Validated
  <2>2. CASE tasks' = [tasks EXCEPT ![local[t].id] = local[t].copy]
    BY <2>1, <2>2, MoveRefines
  <2>3. CASE UNCHANGED tasks
    BY <2>3 DEF Phase
  <2> QED BY <1>4, <2>2, <2>3 DEF FlushTask
<1>5. CASE UNCHANGED tasks
  BY <1>5 DEF Phase
<1>6. ASSUME NEW t \in Threads,
             \/ createTask(t) \/ trackContextTask(t) \/ CountTask(t)
             \/ updateTaskState(t) \/ cancelTask(t) \/ CheckCancelable(t) \/ addArtifact(t)
             \/ Notify(t) \/ getHistory(t) \/ CollectHistory(t) \/ ReturnHistory(t)
      PROVE  UNCHANGED tasks
  BY <1>6 DEF createTask, trackContextTask, CountTask, updateTaskState, cancelTask,
              CheckCancelable, addArtifact, Notify, getHistory, CollectHistory, ReturnHistory
<1> QED BY <1>1, <1>2, <1>3, <1>4, <1>5, <1>6 DEF Next, vars

\* Only calls that overlap on one task can take it off the machine: as long as
\* none do, in either store and on any threads, the tasks live as TaskMachine
\* says, although validation and write are separate commands, and in
\* RedisTaskStore the write is that of a copy.
THEOREM MachineHolds == Spec /\ []Serial => MachineSpec
<1>1. Init => Validated /\ Machine!Init
  BY DEF Init, Validated, Phase, Machine!Init
<1>2. IInv /\ Validated /\ Serial /\ [Next]_vars => Validated'
  BY NextValidated
<1>3. IInv /\ Validated /\ [Next]_vars => [Machine!Next]_Phase
  BY StepRefines
<1> QED
  BY <1>1, <1>2, <1>3, Invariance, PTL DEF Spec, MachineSpec, Machine!Spec

-----------------------------------------------------------------------------
(* The index of the contexts and the count, in either store.               *)

IsListed(i) == \E c \in Contexts : \E k \in 1..Len(contexts[c]) : contexts[c][k] = i

Creating == {t \in Threads : pc[t] \in {"store", "track", "count"}}

\* An id is listed by the thread that reserved it, once, before it returns.
Claims ==
  /\ \A t \in Threads :
       /\ pc[t] \in {"store", "track"} => ~IsListed(local[t].id)
       /\ pc[t] = "count" => IsListed(local[t].id)
  /\ \A t, u \in Threads :
       pc[t] \in {"store", "track"} /\ pc[u] \in {"store", "track"}
         /\ local[t].id = local[u].id => t = u

Lists ==
  /\ \A i \in returned : IsListed(i)
  /\ \A c \in Contexts : \A k \in 1..Len(contexts[c]) : contexts[c][k] \in created
  /\ \A c, d \in Contexts : \A k \in 1..Len(contexts[c]) : \A l \in 1..Len(contexts[d]) :
       contexts[c][k] = contexts[d][l] => c = d /\ k = l

\* A task that is there has the context its thread lists it under, and the
\* copy that Redis is given back has it too.
ContextsFit ==
  /\ \A c \in Contexts : \A k \in 1..Len(contexts[c]) :
       contexts[c][k] \in DOMAIN tasks => tasks[contexts[c][k]].context = c
  /\ \A t \in Threads :
       /\ pc[t] = "track" /\ local[t].id \in DOMAIN tasks =>
            tasks[local[t].id].context = local[t].context
       /\ pc[t] = "flush" => local[t].copy.context = tasks[local[t].id].context

Tally ==
  /\ IsFiniteSet(created) /\ IsFiniteSet(Creating)
  /\ total + Cardinality(Creating) = Cardinality(created)

Index == Claims /\ Lists /\ ContextsFit /\ Tally

\* Steps that create nothing: they keep the contexts of the stored tasks.
LEMMA OtherIndex ==
  ASSUME IInv, Index, NEW t \in Threads, UNCHANGED index,
         DOMAIN tasks' = DOMAIN tasks,
         \A i \in DOMAIN tasks : tasks'[i].context = tasks[i].context,
         \A u \in Threads \ {t} : pc'[u] = pc[u] /\ local'[u] = local[u],
         \/ pc'[t] = pc[t] /\ local'[t] = local[t]
         \/ /\ pc[t] \notin {"store", "track", "count"}
            /\ pc'[t] \notin {"store", "track", "count"}
            /\ pc'[t] = "flush" =>
                 /\ local'[t].id \in DOMAIN tasks
                 /\ local'[t].copy.context = tasks[local'[t].id].context
  PROVE  Index'
<1>1. UNCHANGED <<created, contexts, total, returned>>
  BY DEF index
<1>2. Creating' = Creating
  BY DEF Creating
<1>3. Tally'
  BY <1>1, <1>2 DEF Index, Tally
<1>4. \A i : IsListed(i)' <=> IsListed(i)
  BY <1>1 DEF IsListed
<1>5. \A u \in Threads : pc'[u] \in {"store", "track", "count"} => pc'[u] = pc[u] /\ local'[u] = local[u]
  OBVIOUS
<1>6. Claims'
  BY <1>4, <1>5 DEF Index, Claims
<1>7. Lists'
  BY <1>1, <1>4 DEF Index, Lists
<1>8. ContextsFit'
  BY <1>1, <1>5 DEF Index, ContextsFit, IInv, Working
<1> QED BY <1>3, <1>6, <1>7, <1>8 DEF Index

LEMMA CreateIndex ==
  ASSUME IInv, Index, NEW t \in Threads, createTask(t)
  PROVE  Index'
<1>1. PICK i \in TaskIds \ created, c \in Contexts :
        /\ created' = created \cup {i}
        /\ At(t, "store", [NoLocals EXCEPT !.id = i, !.context = c])
  BY DEF createTask
<1>2. /\ pc'[t] = "store" /\ local'[t].id = i
      /\ \A u \in Threads \ {t} : pc'[u] = pc[u] /\ local'[u] = local[u]
  BY <1>1 DEF At, NoLocals, IInv, TypeOK
<1>3. UNCHANGED <<tasks, contexts, total, returned>> /\ pc[t] = "idle"
  BY DEF createTask
<1>4. \A j : IsListed(j)' <=> IsListed(j)
  BY <1>3 DEF IsListed
<1>5. ~IsListed(i) /\ \A u \in Threads : pc[u] \in {"store", "track"} => local[u].id # i
  BY DEF Index, Lists, IsListed, IInv, Reserved, Working
<1>6. Claims'
  BY <1>2, <1>3, <1>4, <1>5 DEF Index, Claims
<1>7. Lists'
  BY <1>1, <1>3, <1>4 DEF Index, Lists
<1>8. ContextsFit'
  BY <1>2, <1>3 DEF Index, ContextsFit
<1>9. Tally'
  <2>1. Creating' = Creating \cup {t} /\ t \notin Creating
    BY <1>2, <1>3 DEF Creating
  <2>2. IsFiniteSet(created) /\ IsFiniteSet(Creating) /\ total \in Nat
        /\ total + Cardinality(Creating) = Cardinality(created)
    BY DEF Index, Tally, IInv, TypeOK
  <2>3. IsFiniteSet(created') /\ Cardinality(created') = Cardinality(created) + 1
    BY <1>1, <2>2, FS_AddElement
  <2>4. IsFiniteSet(Creating') /\ Cardinality(Creating') = Cardinality(Creating) + 1
    BY <2>1, <2>2, FS_AddElement
  <2>5. Cardinality(created) \in Nat /\ Cardinality(Creating) \in Nat
    BY <2>2, FS_CardinalityType
  <2> QED BY <1>3, <2>2, <2>3, <2>4, <2>5 DEF Tally
<1> QED BY <1>6, <1>7, <1>8, <1>9 DEF Index

LEMMA StoreIndex ==
  ASSUME IInv, Index, NEW t \in Threads, StoreTask(t)
  PROVE  Index'
<1> DEFINE i == local[t].id
<1>1. /\ pc[t] = "store" /\ pc'[t] = "track" /\ local'[t] = local[t]
      /\ \A u \in Threads \ {t} : pc'[u] = pc[u] /\ local'[u] = local[u]
  BY DEF StoreTask, At, IInv, TypeOK
<1>2. UNCHANGED <<created, contexts, total, returned>>
  BY DEF StoreTask, index
<1>3. i \notin DOMAIN tasks /\ ~IsListed(i)
  BY <1>1 DEF IInv, Reserved, Index, Claims
<1>4. \/ tasks' = tasks
      \/ /\ DOMAIN tasks' = DOMAIN tasks \cup {i}
         /\ tasks'[i].context = local[t].context
         /\ \A j \in DOMAIN tasks : tasks'[j] = tasks[j]
  BY <1>3 DEF StoreTask, NewTask
<1>5. \A j : IsListed(j)' <=> IsListed(j)
  BY <1>2 DEF IsListed
<1>6. Claims'
  BY <1>1, <1>5 DEF Index, Claims
<1>7. Lists'
  BY <1>2, <1>5 DEF Index, Lists
<1>8. ContextsFit'
  <2>1. \A c \in Contexts : \A k \in 1..Len(contexts[c]) : contexts[c][k] # i
    BY <1>3 DEF IsListed
  <2>2. \A u \in Threads : pc[u] = "track" => local[u].id # i
    BY <1>1 DEF Index, Claims
  <2> HIDE DEF i
  <2>3. \A u \in Threads : pc[u] = "flush" => local[u].id \in DOMAIN tasks
    BY DEF IInv, Working
  <2>4. \A c \in Contexts : \A k \in 1..Len(contexts[c]) :
           contexts[c][k] \in DOMAIN tasks' => tasks'[contexts[c][k]].context = c
    BY <1>4, <2>1 DEF Index, ContextsFit
  <2>5. \A u \in Threads \ {t} :
          /\ pc[u] = "track" /\ local[u].id \in DOMAIN tasks' =>
               tasks'[local[u].id].context = local[u].context
          /\ pc[u] = "flush" => local[u].copy.context = tasks'[local[u].id].context
    BY <1>4, <2>2, <2>3 DEF Index, ContextsFit
  <2>6. i \in DOMAIN tasks' => tasks'[i].context = local[t].context
    BY <1>3, <1>4
  <2> QED BY <1>1, <1>2, <2>4, <2>5, <2>6 DEF ContextsFit, i
<1>9. Tally'
  <2>1. Creating' = Creating
    BY <1>1 DEF Creating
  <2> QED BY <1>2, <2>1 DEF Index, Tally
<1> QED BY <1>6, <1>7, <1>8, <1>9 DEF Index

LEMMA TrackIndex ==
  ASSUME IInv, Index, NEW t \in Threads, trackContextTask(t)
  PROVE  Index'
<1> DEFINE i == local[t].id
           c == local[t].context
           list == contexts[c]
<1>1. /\ pc[t] = "track" /\ pc'[t] = "count" /\ local'[t] = local[t]
      /\ \A u \in Threads \ {t} : pc'[u] = pc[u] /\ local'[u] = local[u]
  BY DEF trackContextTask, At, IInv, TypeOK
<1>2. UNCHANGED <<tasks, created, total, returned>>
  BY DEF trackContextTask
<1>3. i \in created /\ i \in TaskIds /\ c \in Contexts /\ ~IsListed(i)
      /\ (i \in DOMAIN tasks => tasks[i].context = c)
  BY <1>1 DEF IInv, Working, TypeOK, Index, Claims, ContextsFit
<1>4. contexts' = [contexts EXCEPT ![c] = Append(list, i)] /\ list \in Seq(TaskIds)
      /\ c \in DOMAIN contexts /\ DOMAIN contexts = Contexts
      /\ \A d \in Contexts : Len(contexts[d]) \in Nat
  BY <1>3 DEF trackContextTask, IInv, TypeOK
<1>5. /\ Len(contexts'[c]) = Len(list) + 1 /\ contexts'[c][Len(list) + 1] = i
      /\ \A k \in 1..Len(list) : contexts'[c][k] = list[k]
      /\ \A d \in Contexts : d # c => contexts'[d] = contexts[d]
  BY <1>3, <1>4
<1> HIDE DEF i, c, list
<1>6. list = contexts[c] /\ Len(list) \in Nat
  BY <1>3, <1>4 DEF list
\* The new list of a context: as it was, or the new id at the end of its own.
<1>7. ASSUME NEW d \in Contexts, NEW k \in 1..Len(contexts'[d])
      PROVE  \/ k \in 1..Len(contexts[d]) /\ contexts'[d][k] = contexts[d][k]
             \/ d = c /\ k = Len(contexts[c]) + 1 /\ contexts'[d][k] = i
  BY <1>5, <1>6, <1>7
<1>8. \A j : IsListed(j)' <=> (IsListed(j) \/ j = i)
  <2>1. \A j : IsListed(j)' => (IsListed(j) \/ j = i)
    BY <1>7 DEF IsListed
  <2>2. ASSUME NEW j, j = i PROVE IsListed(j)'
    <3>1. Len(list) + 1 \in 1..Len(contexts'[c])
      BY <1>5, <1>6
    <3> QED BY <1>3, <1>5, <2>2, <3>1 DEF IsListed
  <2>3. ASSUME NEW d \in Contexts, NEW k \in 1..Len(contexts[d])
        PROVE  k \in 1..Len(contexts'[d]) /\ contexts'[d][k] = contexts[d][k]
    BY <1>5, <1>6
  <2>4. \A j : IsListed(j) => IsListed(j)'
    BY <2>3 DEF IsListed
  <2> QED BY <2>1, <2>2, <2>4
<1>9. Claims'
  BY <1>1, <1>8 DEF Index, Claims, i
<1>10. Lists'
  <2>1. \A d \in Contexts : \A k \in 1..Len(contexts[d]) : contexts[d][k] # i
    BY <1>3 DEF IsListed
  <2>2. \A j \in returned' : IsListed(j)'
    BY <1>2, <1>8 DEF Index, Lists
  <2>3. \A d \in Contexts : \A k \in 1..Len(contexts'[d]) : contexts'[d][k] \in created'
    BY <1>2, <1>3, <1>7 DEF Index, Lists
  <2>4. ASSUME NEW d \in Contexts, NEW e \in Contexts,
               NEW k \in 1..Len(contexts'[d]), NEW l \in 1..Len(contexts'[e]),
               contexts'[d][k] = contexts'[e][l]
        PROVE  d = e /\ k = l
    <3>1. CASE contexts'[d][k] = i
      <4>1. d = c /\ k = Len(contexts[c]) + 1
        BY <1>7, <2>1, <3>1
      <4>2. e = c /\ l = Len(contexts[c]) + 1
        BY <1>7, <2>1, <2>4, <3>1
      <4> QED BY <4>1, <4>2
    <3>2. CASE contexts'[d][k] # i
      <4>1. k \in 1..Len(contexts[d]) /\ contexts'[d][k] = contexts[d][k]
        BY <1>7, <3>2
      <4>2. l \in 1..Len(contexts[e]) /\ contexts'[e][l] = contexts[e][l]
        BY <1>7, <2>4, <3>2
      <4>3. contexts[d][k] = contexts[e][l]
        BY <2>4, <4>1, <4>2
      <4> QED BY <4>1, <4>2, <4>3 DEF Index, Lists
    <3> QED BY <3>1, <3>2
  <2> QED BY <2>2, <2>3, <2>4 DEF Lists
<1>11. ContextsFit'
  <2>1. \A d \in Contexts : \A k \in 1..Len(contexts'[d]) :
          contexts'[d][k] \in DOMAIN tasks => tasks[contexts'[d][k]].context = d
    BY <1>3, <1>7 DEF Index, ContextsFit
  <2>2. \A u \in Threads : pc'[u] \in {"track", "flush"} => u # t
    BY <1>1
  <2> QED BY <1>1, <1>2, <2>1, <2>2 DEF Index, ContextsFit
<1>12. Tally'
  <2>1. Creating' = Creating
    BY <1>1 DEF Creating
  <2> QED BY <1>2, <2>1 DEF Index, Tally
<1> QED BY <1>9, <1>10, <1>11, <1>12 DEF Index

LEMMA CountIndex ==
  ASSUME IInv, Index, NEW t \in Threads, CountTask(t)
  PROVE  Index'
<1>1. /\ pc[t] = "count" /\ pc'[t] = "idle"
      /\ \A u \in Threads \ {t} : pc'[u] = pc[u] /\ local'[u] = local[u]
  BY ReturnType DEF CountTask, IInv
<1>2. /\ UNCHANGED <<tasks, created, contexts>>
      /\ total' = total + 1 /\ returned' = returned \cup {local[t].id}
  BY DEF CountTask
<1>3. \A j : IsListed(j)' <=> IsListed(j)
  BY <1>2 DEF IsListed
<1>4. Claims'
  BY <1>1, <1>3 DEF Index, Claims
<1>5. Lists'
  BY <1>1, <1>2, <1>3 DEF Index, Lists, Claims
<1>6. ContextsFit'
  BY <1>1, <1>2 DEF Index, ContextsFit
<1>7. Tally'
  <2>1. Creating' = Creating \ {t} /\ t \in Creating
    BY <1>1 DEF Creating
  <2>2. IsFiniteSet(created) /\ IsFiniteSet(Creating) /\ total \in Nat
        /\ total + Cardinality(Creating) = Cardinality(created)
    BY DEF Index, Tally, IInv, TypeOK
  <2>3. IsFiniteSet(Creating') /\ Cardinality(Creating') = Cardinality(Creating) - 1
    BY <2>1, <2>2, FS_RemoveElement
  <2>4. Cardinality(created) \in Nat /\ Cardinality(Creating) \in Nat
    BY <2>2, FS_CardinalityType
  <2> QED BY <1>2, <2>2, <2>3, <2>4 DEF Tally
<1> QED BY <1>4, <1>5, <1>6, <1>7 DEF Index

\* The writes of a task keep its context, the copy that Redis is given too.
LEMMA WriteIndex ==
  ASSUME IInv, Index, NEW t \in Threads, WriteTask(t) \/ FlushTask(t) \/ addMessage(t)
  PROVE  Index'
<1> DEFINE i == local[t].id
<1>1. UNCHANGED index
  BY DEF WriteTask, FlushTask, addMessage
<1>2. CASE addMessage(t)
  BY <1>1, <1>2, OtherIndex DEF addMessage, IInv, TypeOK, Task
<1>3. ASSUME WriteTask(t) \/ FlushTask(t)
      PROVE  i \in DOMAIN tasks /\ tasks[i] \in Task /\ local[t] \in Locals
             /\ pc[t] \in {"update", "flush"}
  BY <1>3 DEF WriteTask, FlushTask, IInv, TypeOK, Working
<1>4. ASSUME WriteTask(t) \/ FlushTask(t)
      PROVE  Changed(t, tasks[i]).context = tasks[i].context
  BY <1>3, <1>4 DEF Changed, Task
<1>5. CASE Written(t) /\ (\/ WriteTask(t) /\ tasks' = [tasks EXCEPT ![i] = Changed(t, tasks[i])]
                          \/ FlushTask(t) /\ tasks' = [tasks EXCEPT ![i] = local[t].copy]
                          \/ (WriteTask(t) \/ FlushTask(t)) /\ tasks' = tasks)
  <2>1. /\ pc'[t] \in {"idle", "notify"}
        /\ \A u \in Threads \ {t} : pc'[u] = pc[u] /\ local'[u] = local[u]
    BY <1>5, WrittenType DEF IInv
  <2>2. FlushTask(t) => local[t].copy.context = tasks[i].context
    BY DEF FlushTask, Index, ContextsFit
  <2> HIDE DEF i
  <2>3. DOMAIN tasks' = DOMAIN tasks /\ \A j \in DOMAIN tasks : tasks'[j].context = tasks[j].context
    BY <1>3, <1>4, <1>5, <2>2 DEF i
  <2> QED BY <1>1, <1>3, <1>5, <2>1, <2>3, OtherIndex DEF i
<1>6. CASE /\ WriteTask(t) /\ UNCHANGED tasks
           /\ At(t, "flush", [local[t] EXCEPT !.copy = Changed(t, tasks[i])])
  <2>1. /\ pc'[t] = "flush" /\ local'[t].id = i /\ local'[t].copy = Changed(t, tasks[i])
        /\ \A u \in Threads \ {t} : pc'[u] = pc[u] /\ local'[u] = local[u]
    BY <1>3, <1>6 DEF At, IInv, TypeOK, Locals
  <2> QED BY <1>1, <1>3, <1>4, <1>6, <2>1, OtherIndex
<1>7. ASSUME WriteTask(t) PROVE Index'
  BY <1>5, <1>6, <1>7 DEF WriteTask
<1>8. ASSUME FlushTask(t) PROVE Index'
  BY <1>5, <1>8 DEF FlushTask
<1> QED BY <1>2, <1>7, <1>8

LEMMA NextIndex ==
  ASSUME IInv, Index, [Next]_vars
  PROVE  Index'
<1>1. ASSUME NEW t \in Threads,
             updateTaskState(t) \/ cancelTask(t) \/ CheckCancelable(t) \/ addArtifact(t)
               \/ Notify(t) \/ getHistory(t) \/ CollectHistory(t) \/ ReturnHistory(t)
      PROVE  Index'
  <2>1. /\ pc'[t] \in {"update", "cancel", "idle", "history"}
        /\ pc[t] \in {"cancel", "notify", "idle", "history"}
        /\ \A u \in Threads \ {t} : pc'[u] = pc[u] /\ local'[u] = local[u]
    BY <1>1 DEF updateTaskState, cancelTask, CheckCancelable, addArtifact, Notify, getHistory,
                CollectHistory, ReturnHistory, Collected, Return, At, IInv, TypeOK
  <2>2. UNCHANGED <<tasks, index>>
    BY <1>1 DEF updateTaskState, cancelTask, CheckCancelable, addArtifact, Notify, getHistory,
                CollectHistory, ReturnHistory
  <2> QED BY <2>1, <2>2, OtherIndex
<1>2. CASE UNCHANGED vars
  <2>1. UNCHANGED <<tasks, created, contexts, total, returned, pc, local>>
    BY <1>2 DEF vars
  <2>2. Creating' = Creating /\ \A j : IsListed(j)' <=> IsListed(j)
    BY <2>1 DEF Creating, IsListed
  <2> QED BY <2>1, <2>2 DEF Index, Claims, Lists, ContextsFit, Tally
<1> QED BY <1>1, <1>2, CreateIndex, StoreIndex, TrackIndex, CountIndex, WriteIndex DEF Next

LEMMA InitIndex == Init => Index
<1> SUFFICES ASSUME Init PROVE Index
  OBVIOUS
<1>1. /\ \A c \in Contexts : Len(contexts[c]) = 0
      /\ \A t \in Threads : pc[t] = "idle"
      /\ returned = {} /\ created = {} /\ total = 0
  BY DEF Init
<1>2. Creating = {}
  BY <1>1 DEF Creating
<1>3. Tally
  BY <1>1, <1>2, FS_EmptySet DEF Tally
<1> QED BY <1>1, <1>3 DEF Index, Claims, Lists, ContextsFit

\* The reserved ids, the lists of the contexts and the count agree, whichever
\* creations of whichever threads are under way and whatever Redis loses.
THEOREM IndexAgreesHolds == Spec => []IndexAgrees
<1>1. ASSUME IInv, Index PROVE IndexAgrees
  <2> DEFINE entries == UNION {{c} \X DOMAIN contexts[c] : c \in Contexts}
             Id(e)   == contexts[e[1]][e[2]]
  <2>1. \A c \in Contexts : DOMAIN contexts[c] = 1..Len(contexts[c])
    BY <1>1 DEF IInv, TypeOK
  <2>2. \A e : e \in entries =>
          e[1] \in Contexts /\ e[2] \in 1..Len(contexts[e[1]]) /\ e = <<e[1], e[2]>>
    BY <2>1
  <2>3. \A c \in Contexts : \A k \in 1..Len(contexts[c]) : <<c, k>> \in entries
    BY <2>1
  <2> HIDE DEF entries
  <2>4. returned \subseteq {Id(e) : e \in entries}
    <3>1. SUFFICES ASSUME NEW i \in returned PROVE \E e \in entries : Id(e) = i
      OBVIOUS
    <3>2. PICK c \in Contexts : \E k \in 1..Len(contexts[c]) : contexts[c][k] = i
      BY <1>1 DEF Index, Lists, IsListed
    <3>3. PICK k \in 1..Len(contexts[c]) : contexts[c][k] = i
      BY <3>2
    <3> QED BY <2>3, <3>3
  <2>5. \A d, e \in entries : Id(d) = Id(e) => d = e
    <3>1. ASSUME NEW d \in entries, NEW e \in entries, Id(d) = Id(e) PROVE d = e
      <4>1. d[1] = e[1] /\ d[2] = e[2]
        BY <1>1, <2>2, <3>1 DEF Index, Lists
      <4> QED BY <2>2, <4>1
    <3> QED BY <3>1
  <2>6. \A e \in entries : Id(e) \in DOMAIN tasks => tasks[Id(e)].context = e[1]
    BY <1>1, <2>2 DEF Index, ContextsFit
  <2>7. total + Cardinality(Creating) = Cardinality(created)
    BY <1>1 DEF Index, Tally
  <2> QED BY <2>4, <2>5, <2>6, <2>7 DEF IndexAgrees, Creating, entries
<1>2. IInv /\ Index /\ [Next]_vars => Index'
  BY NextIndex
<1> QED BY <1>1, <1>2, InitIndex, Invariance, PTL DEF Spec

-----------------------------------------------------------------------------
(* MemoryTaskStore and calls that do not overlap: what the listener knows. *)

\* A thread that changes a task has read the state that the listener was last
\* told; the store is ahead of the listener only by the change of a thread
\* that is about to notify it.
Known ==
  /\ \A t \in Threads :
       /\ pc[t] \in {"cancel", "notify"} \/ (pc[t] = "update" /\ local[t].to # None) =>
            local[t].to # None /\ local[t].from = told[local[t].id]
       /\ pc[t] = "notify" =>
            /\ local[t].id \in DOMAIN tasks
            /\ tasks[local[t].id].state = local[t].to
  /\ \A i \in DOMAIN tasks :
       tasks[i].state = told[i] \/ \E t \in Threads : pc[t] = "notify" /\ local[t].id = i
  /\ \A i \in TaskIds \ DOMAIN tasks : told[i] = "Submitted"

\* Where nothing is stored or told and no thread begins or ends a change.
LEMMA OtherKnown ==
  ASSUME IInv, Known, NEW t \in Threads, told' = told,
         DOMAIN tasks' = DOMAIN tasks,
         \A i \in DOMAIN tasks : tasks'[i].state = tasks[i].state,
         \A u \in Threads \ {t} : pc'[u] = pc[u] /\ local'[u] = local[u],
         \/ pc'[t] = pc[t] /\ local'[t] = local[t]
         \/ /\ pc[t] # "notify"
            /\ \/ pc'[t] \notin {"cancel", "update", "notify"}
               \/ pc'[t] = "update" /\ local'[t].to = None
               \/ /\ pc'[t] \in {"cancel", "update"}
                  /\ local'[t].to # None
                  /\ local'[t].from = told[local'[t].id]
  PROVE  Known'
  BY DEF Known

\* A thread that begins a change finds the listener up to date.
LEMMA ReadKnown ==
  ASSUME Serial', IInv, Known, NEW t \in Threads,
         updateTaskState(t) \/ cancelTask(t) \/ CheckCancelable(t) \/ addArtifact(t)
  PROVE  Known'
<1>1. UNCHANGED <<tasks, told>>
  BY DEF updateTaskState, cancelTask, CheckCancelable, addArtifact
<1>2. ASSUME NEW i \in returned, NEW to \in States, NEW l \in {"update", "cancel"},
             pc[t] = "idle", i \in DOMAIN tasks,
             At(t, l, [NoLocals EXCEPT !.id = i, !.from = tasks[i].state, !.to = to])
      PROVE  Known'
  <2>1. /\ pc'[t] = l /\ local'[t].id = i /\ local'[t].from = tasks[i].state
        /\ local'[t].to = to /\ to # None
        /\ \A u \in Threads \ {t} : pc'[u] = pc[u] /\ local'[u] = local[u]
    BY <1>2, SetupAssumption DEF At, NoLocals, IInv, TypeOK, SetupAssumption
  <2>2. ASSUME NEW u \in Threads, pc[u] = "notify", local[u].id = i PROVE FALSE
    <3>1. u # t /\ pc'[u] = "notify" /\ local'[u].id = i /\ local'[u].to # None
      BY <1>2, <2>1, <2>2 DEF Known
    <3>2. Changing(u)' /\ Changing(t)'
      BY <2>1, <3>1 DEF Changing
    <3> QED BY <2>1, <3>1, <3>2 DEF Serial
  <2>3. tasks[i].state = told[i]
    BY <1>2, <2>2 DEF Known
  <2> QED BY <1>1, <1>2, <2>1, <2>3, OtherKnown
<1>3. CASE updateTaskState(t)
  BY <1>2, <1>3 DEF updateTaskState
<1>4. CASE cancelTask(t)
  BY <1>2, <1>4 DEF cancelTask, States
<1>5. CASE CheckCancelable(t)
  <2>1. /\ pc[t] = "cancel"
        /\ \/ pc'[t] = "idle"
           \/ pc'[t] = "update" /\ local'[t] = local[t]
        /\ \A u \in Threads \ {t} : pc'[u] = pc[u] /\ local'[u] = local[u]
    BY <1>5 DEF CheckCancelable, Return, At, IInv, TypeOK
  <2>2. local[t].to # None /\ local[t].from = told[local[t].id]
    BY <2>1 DEF Known
  <2> QED BY <1>1, <2>1, <2>2, OtherKnown
<1>6. CASE addArtifact(t)
  <2>1. /\ pc[t] = "idle" /\ pc'[t] = "update" /\ local'[t].to = None
        /\ \A u \in Threads \ {t} : pc'[u] = pc[u] /\ local'[u] = local[u]
    BY <1>6 DEF addArtifact, At, NoLocals, IInv, TypeOK
  <2> QED BY <1>1, <2>1, OtherKnown
<1> QED BY <1>3, <1>4, <1>5, <1>6

LEMMA WriteKnown ==
  ASSUME Serial, Redis = FALSE, IInv, Known, NEW t \in Threads, WriteTask(t)
  PROVE  Known'
<1> DEFINE i == local[t].id
<1>1. /\ pc[t] = "update" /\ i \in DOMAIN tasks /\ i \in TaskIds
      /\ tasks' = [tasks EXCEPT ![i] = Changed(t, tasks[i])] /\ Written(t) /\ told' = told
      /\ tasks[i] \in Task
  BY DEF WriteTask, IInv, TypeOK, Working
<1>2. /\ DOMAIN tasks' = DOMAIN tasks /\ tasks'[i] = Changed(t, tasks[i])
      /\ \A j \in DOMAIN tasks : j # i => tasks'[j] = tasks[j]
  BY <1>1
<1>3. \A u \in Threads \ {t} : pc'[u] = pc[u] /\ local'[u] = local[u]
  BY <1>1, WrittenType DEF IInv
<1>4. CASE local[t].to = None
  <2>1. Changed(t, tasks[i]).state = tasks[i].state
    BY <1>1, <1>4 DEF Changed, Task
  <2>2. pc'[t] = "idle"
    BY <1>1, <1>4, ReturnType DEF Written, IInv
  <2>3. \A j \in DOMAIN tasks : tasks'[j].state = tasks[j].state
    BY <1>2, <2>1
  <2> QED BY <1>1, <1>2, <1>3, <2>2, <2>3, OtherKnown
<1>5. CASE local[t].to # None
  <2>1. tasks'[i].state = local[t].to
    BY <1>1, <1>2, <1>5 DEF Changed, Task
  <2>2. pc'[t] = "notify" /\ local'[t] = local[t]
    BY <1>1, <1>5 DEF Written, At, IInv, TypeOK
  <2>3. local[t].from = told[i]
    BY <1>1, <1>5 DEF Known
  <2>4. \A u \in Threads \ {t} : pc[u] = "notify" => local[u].id # i
    BY <1>1, <1>5 DEF Known, Serial, Changing
  <2> HIDE DEF i
  <2>5. i = local[t].id /\ i = local'[t].id
    BY <2>2 DEF i
  <2>6. \A u \in Threads :
          /\ pc'[u] \in {"cancel", "notify"} \/ (pc'[u] = "update" /\ local'[u].to # None) =>
               local'[u].to # None /\ local'[u].from = told'[local'[u].id]
          /\ pc'[u] = "notify" =>
               /\ local'[u].id \in DOMAIN tasks'
               /\ tasks'[local'[u].id].state = local'[u].to
    BY <1>1, <1>2, <1>3, <1>5, <2>1, <2>2, <2>3, <2>4, <2>5 DEF Known
  <2>7. \A j \in DOMAIN tasks' :
          tasks'[j].state = told'[j] \/ \E u \in Threads : pc'[u] = "notify" /\ local'[u].id = j
    <3>1. ASSUME NEW j \in DOMAIN tasks, j # i, tasks[j].state # told[j]
          PROVE  \E u \in Threads : pc'[u] = "notify" /\ local'[u].id = j
      <4>1. PICK u \in Threads : pc[u] = "notify" /\ local[u].id = j
        BY <3>1 DEF Known
      <4>2. u # t
        BY <1>1, <4>1
      <4> QED BY <1>3, <4>1, <4>2
    <3> QED BY <1>1, <1>2, <2>2, <2>5, <3>1
  <2>8. \A j \in TaskIds \ DOMAIN tasks' : told'[j] = "Submitted"
    BY <1>1, <1>2 DEF Known
  <2> QED BY <2>6, <2>7, <2>8 DEF Known
<1> QED BY <1>4, <1>5

LEMMA NotifyKnown ==
  ASSUME Serial, IInv, Known, NEW t \in Threads, Notify(t)
  PROVE  Known'
<1> DEFINE i == local[t].id
<1>1. /\ pc[t] = "notify" /\ pc'[t] = "idle" /\ tasks' = tasks
      /\ \A u \in Threads \ {t} : pc'[u] = pc[u] /\ local'[u] = local[u]
  BY ReturnType DEF Notify, IInv
<1>2. i \in DOMAIN tasks /\ tasks[i].state = local[t].to /\ local[t].to # None /\ i \in TaskIds
  BY <1>1 DEF Known, IInv, TypeOK
<1>3. told'[i] = local[t].to /\ \A j \in TaskIds : j # i => told'[j] = told[j]
  BY <1>2 DEF Notify, IInv, TypeOK
<1>4. ASSUME NEW u \in Threads \ {t},
             pc[u] \in {"cancel", "notify"} \/ (pc[u] = "update" /\ local[u].to # None)
      PROVE  local[u].id \in TaskIds /\ local[u].id # i
  <2>1. Changing(t) /\ Changing(u)
    BY <1>1, <1>2, <1>4 DEF Known, Changing
  <2>2. local[u].id \in TaskIds
    BY <1>4 DEF IInv, Working, TypeOK
  <2> QED BY <2>1, <2>2 DEF Serial
<1> HIDE DEF i
<1>5. \A j \in DOMAIN tasks : j \in TaskIds
  BY DEF IInv, TypeOK
<1>6. ASSUME NEW j \in DOMAIN tasks, tasks[j].state # told'[j]
      PROVE  \E u \in Threads : pc'[u] = "notify" /\ local'[u].id = j
  <2>1. j # i /\ tasks[j].state # told[j]
    BY <1>2, <1>3, <1>5, <1>6
  <2>2. PICK u \in Threads : pc[u] = "notify" /\ local[u].id = j
    BY <2>1 DEF Known
  <2>3. u # t
    BY <2>1, <2>2 DEF i
  <2> QED BY <1>1, <2>2, <2>3
<1>7. \A j \in TaskIds \ DOMAIN tasks : told'[j] = "Submitted"
  BY <1>2, <1>3 DEF Known
<1>8. \A u \in Threads :
        /\ pc'[u] \in {"cancel", "notify"} \/ (pc'[u] = "update" /\ local'[u].to # None) =>
             local'[u].to # None /\ local'[u].from = told'[local'[u].id]
        /\ pc'[u] = "notify" =>
             /\ local'[u].id \in DOMAIN tasks
             /\ tasks[local'[u].id].state = local'[u].to
  BY <1>1, <1>3, <1>4 DEF Known
<1> QED BY <1>1, <1>6, <1>7, <1>8 DEF Known

LEMMA StoreKnown ==
  ASSUME Redis = FALSE, IInv, Known, NEW t \in Threads, StoreTask(t)
  PROVE  Known'
<1> DEFINE i == local[t].id
<1>1. /\ pc[t] = "store" /\ pc'[t] = "track" /\ told' = told
      /\ \A u \in Threads \ {t} : pc'[u] = pc[u] /\ local'[u] = local[u]
  BY DEF StoreTask, At, IInv, TypeOK
<1>2. i \in TaskIds \ DOMAIN tasks
  BY <1>1 DEF IInv, Reserved, TypeOK
<1>3. /\ DOMAIN tasks' = DOMAIN tasks \cup {i} /\ tasks'[i].state = "Submitted"
      /\ \A j \in DOMAIN tasks : tasks'[j] = tasks[j]
  BY <1>2 DEF StoreTask, NewTask
<1> HIDE DEF i
<1>4. told[i] = "Submitted"
  BY <1>2 DEF Known
<1>5. ASSUME NEW j \in DOMAIN tasks, tasks[j].state # told[j]
      PROVE  \E u \in Threads : pc'[u] = "notify" /\ local'[u].id = j
  BY <1>1, <1>5 DEF Known
<1> QED BY <1>1, <1>2, <1>3, <1>4, <1>5 DEF Known

LEMMA NextKnown ==
  ASSUME Serial, Serial', Redis = FALSE, IInv, Validated, Known, [Next]_vars
  PROVE  Known'
<1>1. ASSUME NEW t \in Threads,
             createTask(t) \/ trackContextTask(t) \/ CountTask(t)
               \/ getHistory(t) \/ CollectHistory(t) \/ ReturnHistory(t)
      PROVE  Known'
  <2>1. /\ pc'[t] \in {"store", "count", "idle", "history"} /\ pc[t] # "notify"
        /\ \A u \in Threads \ {t} : pc'[u] = pc[u] /\ local'[u] = local[u]
    BY <1>1 DEF createTask, trackContextTask, CountTask, getHistory, CollectHistory,
                ReturnHistory, Collected, Return, At, IInv, TypeOK
  <2>2. UNCHANGED <<tasks, told>>
    BY <1>1 DEF createTask, trackContextTask, CountTask, getHistory, CollectHistory, ReturnHistory
  <2> QED BY <2>1, <2>2, OtherKnown
<1>2. ASSUME NEW t \in Threads, addMessage(t) PROVE Known'
  <2>1. \A i \in DOMAIN tasks : tasks'[i].state = tasks[i].state
    BY <1>2 DEF addMessage, IInv, TypeOK, Task
  <2>2. DOMAIN tasks' = DOMAIN tasks /\ UNCHANGED <<pc, local, told>>
    BY <1>2 DEF addMessage
  <2> QED BY <1>2, <2>1, <2>2, OtherKnown
<1>3. ASSUME NEW t \in Threads, FlushTask(t) PROVE FALSE
  BY <1>3 DEF FlushTask, Validated
<1>4. CASE UNCHANGED vars
  BY <1>4 DEF vars, Known
<1> QED BY <1>1, <1>2, <1>3, <1>4, ReadKnown, WriteKnown, NotifyKnown, StoreKnown DEF Next

\* With MemoryTaskStore, and as long as no calls overlap on one task, the
\* listener of state changes is told a gapless chain that ends in the task's
\* state, although a change is validated, written and notified in separate
\* commands.
THEOREM ListenerKnowsHolds ==
  ASSUME Redis = FALSE
  PROVE  EitherSpec /\ []Serial => []ListenerKnowsMemory
<1> DEFINE Knows == store = "memory" => IInv /\ Validated /\ Known
<1>1. EitherInit => Knows
  BY InitInv DEF EitherInit, Init, Validated, Known
<1>2. Knows /\ Serial /\ Serial' /\ [EitherNext]_<<vars, store>> => Knows'
  <2>1. ASSUME Knows, [EitherNext]_<<vars, store>>, store' = "memory"
        PROVE  store = "memory" /\ [Next]_vars
    BY <2>1 DEF EitherNext
  <2> QED BY <2>1, NextInv, NextValidated, NextKnown
<1>3. Knows => ListenerKnowsMemory
  <2>1. ASSUME Known PROVE ListenerKnows
    BY <2>1 DEF Known, ListenerKnows
  <2> QED BY <2>1 DEF ListenerKnowsMemory
<1> QED BY <1>1, <1>2, <1>3, PTL DEF EitherSpec

-----------------------------------------------------------------------------
(* MemoryTaskStore: what getHistory collects.                              *)

Has(s, x) == \E k \in 1..Len(s) : s[k] = x

\* No two places of the histories hold the same message.
Unique ==
  /\ \A i \in DOMAIN tasks : \A k \in 1..Len(tasks[i].history) : tasks[i].history[k] <= messages
  /\ \A i, j \in DOMAIN tasks :
       \A k \in 1..Len(tasks[i].history) : \A l \in 1..Len(tasks[j].history) :
         tasks[i].history[k] = tasks[j].history[l] => i = j /\ k = l

\* What a thread has got comes from tasks it is done with; what it owes it has,
\* or will find in one it has still to read.
Reads(stored, ids, got, before) ==
  /\ \A m, n \in 1..Len(ids) : ids[m] = ids[n] => m = n
  /\ \A m, n \in 1..Len(got) : got[m] = got[n] => m = n
  /\ \A k \in 1..Len(got) : \E j \in DOMAIN stored : ~Has(ids, j) /\ Has(stored[j].history, got[k])
  /\ \A x \in before :
       \/ Has(got, x)
       \/ \E i \in DOMAIN stored : Has(ids, i) /\ Has(stored[i].history, x)

Reading == \A t \in Threads : pc[t] = "history" => Reads(tasks, local[t].ids, local[t].got, local[t].before)

\* Histories only grow.
Grow ==
  \A i \in DOMAIN tasks : i \in DOMAIN tasks' /\ \A x : Has(tasks[i].history, x) => Has(tasks'[i].history, x)

LEMMA SeqParts ==
  ASSUME NEW S, NEW s \in Seq(S)
  PROVE  Len(s) \in Nat /\ \A k \in 1..Len(s) : s[k] \in S
OBVIOUS

LEMMA HistoryType ==
  ASSUME IInv, NEW i \in DOMAIN tasks
  PROVE  /\ tasks[i].history \in Seq(1..MaxMessages) /\ Len(tasks[i].history) \in Nat
         /\ \A k \in 1..Len(tasks[i].history) : tasks[i].history[k] \in 1..MaxMessages
<1> DEFINE h == tasks[i].history
<1>1. h \in Seq(1..MaxMessages)
  BY DEF IInv, TypeOK, Task
<1> HIDE DEF h
<1> DEFINE S == 1..MaxMessages
<1> HIDE DEF S
<1>2. h \in Seq(S)
  BY <1>1 DEF S
<1>3. Len(h) \in Nat /\ \A k \in 1..Len(h) : h[k] \in S
  BY <1>2, SeqParts
<1> QED BY <1>1, <1>3 DEF h, S

LEMMA ReadsGrow ==
  ASSUME Grow, NEW ids, NEW got, NEW before, Reads(tasks, ids, got, before)
  PROVE  Reads(tasks', ids, got, before)
<1>1. /\ \A m, n \in 1..Len(ids) : ids[m] = ids[n] => m = n
      /\ \A m, n \in 1..Len(got) : got[m] = got[n] => m = n
  BY DEF Reads
<1>2. \A k \in 1..Len(got) : \E j \in DOMAIN tasks : ~Has(ids, j) /\ Has(tasks[j].history, got[k])
  BY DEF Reads
<1>3. \A x \in before :
       \/ Has(got, x)
       \/ \E i \in DOMAIN tasks : Has(ids, i) /\ Has(tasks[i].history, x)
  BY DEF Reads
<1>4. \A k \in 1..Len(got) : \E j \in DOMAIN tasks' : ~Has(ids, j) /\ Has(tasks'[j].history, got[k])
  BY <1>2 DEF Grow
<1>5. \A x \in before :
       \/ Has(got, x)
       \/ \E i \in DOMAIN tasks' : Has(ids, i) /\ Has(tasks'[i].history, x)
  BY <1>3 DEF Grow
<1> QED BY <1>1, <1>4, <1>5 DEF Reads

\* The next task's history goes to the end of what the thread has.
LEMMA CollectReads ==
  ASSUME IInv, Unique, NEW ids \in Seq(TaskIds), NEW got \in Seq(1..MaxMessages), NEW before,
         Reads(tasks, ids, got, before), ids # <<>>
  PROVE  Reads(tasks, Tail(ids), IF Head(ids) \in DOMAIN tasks THEN got \o tasks[Head(ids)].history ELSE got,
               before)
<1> DEFINE i == Head(ids)
           rest == Tail(ids)
           h == tasks[i].history
<1>1. /\ Len(ids) \in Nat \ {0} /\ i = ids[1] /\ Len(rest) = Len(ids) - 1
      /\ \A m \in 1..Len(rest) : rest[m] = ids[m + 1]
  OBVIOUS
<1>2. Len(got) \in Nat
  OBVIOUS
<1> HIDE DEF i, rest
<1>3. \A m, n \in 1..Len(rest) : rest[m] = rest[n] => m = n
  <2>1. \A m \in 1..Len(rest) : m + 1 \in 1..Len(ids)
    BY <1>1
  <2>2. ASSUME NEW m \in 1..Len(rest), NEW n \in 1..Len(rest), rest[m] = rest[n] PROVE m = n
    <3>1. m + 1 = n + 1
      BY <1>1, <2>1, <2>2 DEF Reads
    <3> QED BY <3>1
  <2> QED BY <2>2
<1>4. ~Has(rest, i)
  <2>1. ASSUME NEW m \in 1..Len(rest), rest[m] = i PROVE FALSE
    <3>1. m + 1 \in 1..Len(ids) /\ 1 \in 1..Len(ids) /\ ids[m + 1] = ids[1] /\ m + 1 # 1
      BY <1>1, <2>1
    <3> QED BY <3>1 DEF Reads
  <2> QED BY <2>1 DEF Has
<1>5. \A j : Has(rest, j) => Has(ids, j)
  <2>1. \A m \in 1..Len(rest) : m + 1 \in 1..Len(ids)
    BY <1>1
  <2> QED BY <1>1, <2>1 DEF Has
<1>6. \A j : Has(ids, j) => j = i \/ Has(rest, j)
  <2>1. ASSUME NEW m \in 1..Len(ids), m # 1 PROVE Has(rest, ids[m])
    <3>1. m - 1 \in 1..Len(rest) /\ (m - 1) + 1 = m
      BY <1>1, <2>1
    <3> QED BY <1>1, <3>1 DEF Has
  <2> QED BY <1>1, <2>1 DEF Has
<1>7. Has(ids, i)
  BY <1>1 DEF Has
<1>8. CASE i \notin DOMAIN tasks
  BY <1>3, <1>5, <1>6, <1>8 DEF Reads, i, rest
<1>9. CASE i \in DOMAIN tasks
  <2> DEFINE all == got \o h
  <2>1. h \in Seq(1..MaxMessages) /\ Len(h) \in Nat
    BY <1>9, HistoryType
  <2> HIDE DEF h
  <2>2. /\ Len(all) = Len(got) + Len(h)
        /\ \A k \in 1..Len(got) : all[k] = got[k]
        /\ \A k \in 1..Len(h) : all[Len(got) + k] = h[k]
    BY <2>1
  <2> HIDE DEF all
  <2>3. ASSUME NEW k \in 1..Len(all)
        PROVE  \/ k \in 1..Len(got) /\ all[k] = got[k]
               \/ \E l \in 1..Len(h) : k = Len(got) + l /\ all[k] = h[l]
    <3>1. CASE k <= Len(got)
      BY <1>2, <2>1, <2>2, <3>1
    <3>2. CASE ~(k <= Len(got))
      <4>1. k - Len(got) \in 1..Len(h) /\ k = Len(got) + (k - Len(got))
        BY <1>2, <2>1, <2>2, <3>2
      <4> QED BY <2>2, <4>1
    <3> QED BY <3>1, <3>2
  <2>4. ASSUME NEW k \in 1..Len(got), NEW l \in 1..Len(h) PROVE got[k] # h[l]
    <3>1. PICK j \in DOMAIN tasks : ~Has(ids, j) /\ Has(tasks[j].history, got[k])
      BY DEF Reads
    <3>2. PICK m \in 1..Len(tasks[j].history) : tasks[j].history[m] = got[k]
      BY <3>1 DEF Has
    <3>3. ~(tasks[j].history[m] = h[l])
      <4>1. j # i
        BY <1>7, <3>1
      <4>2. l \in 1..Len(tasks[i].history) /\ h[l] = tasks[i].history[l]
        BY DEF h
      <4>3. tasks[j].history[m] = tasks[i].history[l] => j = i
        BY <1>9, <4>2 DEF Unique
      <4> QED BY <4>1, <4>2, <4>3
    <3> QED BY <3>2, <3>3
  <2>5. \A k, l \in 1..Len(h) : h[k] = h[l] => k = l
    BY <1>9 DEF Unique, h
  <2>6. ASSUME NEW m \in 1..Len(all), NEW n \in 1..Len(all), all[m] = all[n] PROVE m = n
    <3>1. CASE m \in 1..Len(got) /\ all[m] = got[m] /\ n \in 1..Len(got) /\ all[n] = got[n]
      BY <2>6, <3>1 DEF Reads
    <3>2. ASSUME NEW k \in 1..Len(h), m = Len(got) + k, all[m] = h[k],
                 NEW l \in 1..Len(h), n = Len(got) + l, all[n] = h[l]
          PROVE  m = n
      BY <2>5, <2>6, <3>2
    <3> QED BY <2>3, <2>4, <2>6, <3>1, <3>2
  <2>7. ASSUME NEW k \in 1..Len(all)
        PROVE  \E j \in DOMAIN tasks : ~Has(rest, j) /\ Has(tasks[j].history, all[k])
    <3>1. CASE k \in 1..Len(got) /\ all[k] = got[k]
      BY <1>5, <3>1 DEF Reads
    <3>2. ASSUME NEW l \in 1..Len(h), all[k] = h[l] PROVE Has(tasks[i].history, all[k])
      BY <3>2 DEF Has, h
    <3> QED BY <1>4, <1>9, <2>3, <3>1, <3>2
  <2>8. \A x : Has(got, x) => Has(all, x)
    <3>1. \A k \in 1..Len(got) : k \in 1..Len(all)
      BY <1>2, <2>1, <2>2
    <3> QED BY <2>2, <3>1 DEF Has
  <2>9. \A x : Has(h, x) => Has(all, x)
    <3>1. \A k \in 1..Len(h) : Len(got) + k \in 1..Len(all)
      BY <1>2, <2>1, <2>2
    <3> QED BY <2>2, <3>1 DEF Has
  <2>10. ASSUME NEW x \in before
         PROVE  \/ Has(all, x)
                \/ \E j \in DOMAIN tasks : Has(rest, j) /\ Has(tasks[j].history, x)
    <3>1. CASE Has(got, x)
      BY <2>8, <3>1
    <3>2. ASSUME NEW j \in DOMAIN tasks, Has(ids, j), Has(tasks[j].history, x)
          PROVE  Has(all, x) \/ Has(rest, j)
      BY <1>6, <2>9, <3>2 DEF h
    <3> QED BY <3>1, <3>2 DEF Reads
  <2>11. Reads(tasks, rest, all, before)
    BY <1>3, <2>6, <2>7, <2>10 DEF Reads
  <2> QED BY <1>9, <2>11 DEF all, h, i, rest
<1> QED BY <1>8, <1>9

\* What there is to read for a context when getHistory is called.
LEMMA BeginReads ==
  ASSUME IInv, Index, NEW c \in Contexts
  PROVE  Reads(tasks, contexts[c], <<>>, MessagesOf(c))
<1>1. Len(<<>>) = 0
  OBVIOUS
<1>2. \A m, n \in 1..Len(contexts[c]) : contexts[c][m] = contexts[c][n] => m = n
  BY DEF Index, Lists
<1>3. ASSUME NEW x \in MessagesOf(c)
      PROVE  \E i \in DOMAIN tasks : Has(contexts[c], i) /\ Has(tasks[i].history, x)
  <2>1. PICK i \in returned \cap DOMAIN tasks :
          tasks[i].context = c /\ x \in Elements(tasks[i].history)
    BY DEF MessagesOf
  <2>2. Has(tasks[i].history, x)
    BY <2>1, HistoryType DEF Elements, Has
  <2>3. PICK d \in Contexts : \E k \in 1..Len(contexts[d]) : contexts[d][k] = i
    BY <2>1 DEF Index, Lists, IsListed
  <2>4. d = c
    BY <2>1, <2>3 DEF Index, ContextsFit
  <2> QED BY <2>1, <2>2, <2>3, <2>4 DEF Has
<1> QED BY <1>1, <1>2, <1>3 DEF Reads

LEMMA SameHistories ==
  ASSUME IInv, Unique, messages' = messages,
         \A i \in DOMAIN tasks : i \in DOMAIN tasks' /\ tasks'[i].history = tasks[i].history,
         \A i \in DOMAIN tasks' \ DOMAIN tasks : Len(tasks'[i].history) = 0
  PROVE  Unique' /\ Grow
  BY DEF Unique, Grow

LEMMA MessageUnique ==
  ASSUME IInv, Unique, NEW t \in Threads, addMessage(t)
  PROVE  Unique' /\ Grow
<1>1. PICK i \in DOMAIN tasks :
        tasks' = [tasks EXCEPT ![i].history = Append(@, messages + 1)]
  BY DEF addMessage
<1> DEFINE h == tasks[i].history
           g == tasks'[i].history
<1>2. messages' = messages + 1 /\ messages \in Nat
  BY SetupAssumption DEF addMessage, IInv, TypeOK
<1>3. DOMAIN tasks' = DOMAIN tasks /\ \A j \in DOMAIN tasks : j # i => tasks'[j] = tasks[j]
  BY <1>1
<1>4. g = Append(h, messages + 1) /\ h \in Seq(1..MaxMessages) /\ Len(h) \in Nat
  BY <1>1, HistoryType DEF IInv, TypeOK, Task
<1>5. messages + 1 \in 1..MaxMessages
  BY SetupAssumption DEF addMessage, IInv, TypeOK
<1> HIDE DEF h, g
<1>6. /\ Len(g) = Len(h) + 1 /\ g[Len(h) + 1] = messages + 1
      /\ \A k \in 1..Len(h) : g[k] = h[k]
  BY <1>4, <1>5
<1>7. ASSUME NEW j \in DOMAIN tasks, NEW k \in 1..Len(tasks'[j].history)
      PROVE  \/ k \in 1..Len(tasks[j].history) /\ tasks'[j].history[k] = tasks[j].history[k]
             \/ j = i /\ k = Len(h) + 1 /\ tasks'[j].history[k] = messages + 1
  <2>1. CASE j # i
    BY <1>3, <2>1
  <2>2. CASE j = i
    BY <1>4, <1>6, <2>2 DEF g, h
  <2> QED BY <2>1, <2>2
<1>8. ASSUME NEW j \in DOMAIN tasks, NEW k \in 1..Len(tasks[j].history)
      PROVE  tasks[j].history[k] \in Nat /\ tasks[j].history[k] <= messages
  BY HistoryType DEF Unique
<1>9. ASSUME NEW j \in DOMAIN tasks, NEW k \in 1..Len(tasks'[j].history)
      PROVE  tasks'[j].history[k] <= messages'
  BY <1>2, <1>7, <1>8
<1>10. ASSUME NEW j \in DOMAIN tasks, NEW m \in DOMAIN tasks,
              NEW k \in 1..Len(tasks'[j].history), NEW l \in 1..Len(tasks'[m].history),
              tasks'[j].history[k] = tasks'[m].history[l]
       PROVE  j = m /\ k = l
  <2>1. CASE tasks'[j].history[k] = messages + 1
    <3>1. ASSUME NEW n \in DOMAIN tasks, NEW o \in 1..Len(tasks'[n].history),
                 tasks'[n].history[o] = messages + 1
          PROVE  n = i /\ o = Len(h) + 1
      <4>1. CASE o \in 1..Len(tasks[n].history) /\ tasks'[n].history[o] = tasks[n].history[o]
        <5>1. tasks[n].history[o] \in Nat /\ tasks[n].history[o] <= messages
          BY <1>8, <4>1
        <5>2. tasks[n].history[o] = messages + 1
          BY <3>1, <4>1
        <5> QED BY <1>2, <5>1, <5>2
      <4>2. CASE n = i /\ o = Len(h) + 1
        BY <4>2
      <4> QED BY <1>7, <4>1, <4>2
    <3>2. j = i /\ k = Len(h) + 1
      BY <2>1, <3>1
    <3>3. m = i /\ l = Len(h) + 1
      BY <1>10, <2>1, <3>1
    <3> QED BY <3>2, <3>3
  <2>2. CASE tasks'[j].history[k] # messages + 1
    <3>1. /\ k \in 1..Len(tasks[j].history) /\ tasks'[j].history[k] = tasks[j].history[k]
          /\ l \in 1..Len(tasks[m].history) /\ tasks'[m].history[l] = tasks[m].history[l]
      BY <1>7, <1>10, <2>2
    <3>2. tasks[j].history[k] = tasks[m].history[l]
      BY <1>10, <3>1
    <3> QED BY <3>1, <3>2 DEF Unique
  <2> QED BY <2>1, <2>2
<1>11. Grow
  <2>1. \A k \in 1..Len(h) : k \in 1..Len(g)
    BY <1>4, <1>6
  <2>2. \A x : Has(h, x) => Has(g, x)
    BY <1>6, <2>1 DEF Has
  <2> QED BY <1>3, <2>2 DEF Grow, h, g
<1> QED BY <1>3, <1>9, <1>10, <1>11 DEF Unique

\* Nobody is between the GET and the SET of Redis.
InMemory == \A t \in Threads : pc[t] # "flush"

LEMMA NextInMemory ==
  ASSUME Redis = FALSE, IInv, InMemory, [Next]_vars
  PROVE  InMemory'
<1>2. ASSUME NEW t \in Threads, Written(t) PROVE InMemory'
  BY <1>2, WrittenType DEF InMemory, IInv
<1>3. ASSUME NEW t \in Threads, WriteTask(t) \/ FlushTask(t) PROVE InMemory'
  BY <1>2, <1>3 DEF WriteTask, FlushTask
<1>4. ASSUME NEW t \in Threads,
             createTask(t) \/ StoreTask(t) \/ trackContextTask(t) \/ CountTask(t)
               \/ updateTaskState(t) \/ cancelTask(t) \/ CheckCancelable(t) \/ addArtifact(t)
               \/ Notify(t) \/ getHistory(t) \/ CollectHistory(t) \/ ReturnHistory(t)
      PROVE  InMemory'
  BY <1>4 DEF createTask, StoreTask, trackContextTask, CountTask, updateTaskState, cancelTask,
              CheckCancelable, addArtifact, Notify, getHistory, CollectHistory, ReturnHistory,
              Return, At, IInv, TypeOK, InMemory
<1>5. ASSUME NEW t \in Threads, addMessage(t) PROVE InMemory'
  BY <1>5 DEF addMessage, InMemory
<1>6. CASE UNCHANGED vars
  BY <1>6 DEF vars, InMemory
<1> QED BY <1>3, <1>4, <1>5, <1>6 DEF Next

LEMMA OtherReading ==
  ASSUME Grow, Reading, NEW t \in Threads,
         \A u \in Threads \ {t} : pc'[u] = pc[u] /\ local'[u] = local[u],
         pc'[t] = "history" =>
           \/ pc'[t] = pc[t] /\ local'[t] = local[t]
           \/ Reads(tasks', local'[t].ids, local'[t].got, local'[t].before)
  PROVE  Reading'
<1>1. ASSUME NEW u \in Threads, pc[u] = "history"
      PROVE  Reads(tasks', local[u].ids, local[u].got, local[u].before)
  <2>1. Reads(tasks, local[u].ids, local[u].got, local[u].before)
    BY <1>1 DEF Reading
  <2> QED BY <2>1, ReadsGrow
<1>2. ASSUME NEW u \in Threads, pc'[u] = "history"
      PROVE  Reads(tasks', local'[u].ids, local'[u].got, local'[u].before)
  BY <1>1, <1>2
<1> QED BY <1>2 DEF Reading

\* What the thread of a getHistory goes through.
LEMMA HistoryReading ==
  ASSUME IInv, Index, Unique, Reading, NEW t \in Threads,
         getHistory(t) \/ CollectHistory(t) \/ ReturnHistory(t)
  PROVE  Reading'
<1>1. UNCHANGED tasks /\ Grow /\ \A u \in Threads \ {t} : pc'[u] = pc[u] /\ local'[u] = local[u]
  BY DEF getHistory, CollectHistory, ReturnHistory, Return, At, IInv, TypeOK, Grow
<1>2. CASE getHistory(t)
  <2>1. PICK c \in Contexts :
          At(t, "history", [NoLocals EXCEPT !.context = c, !.ids = contexts[c],
                                            !.before = MessagesOf(c)])
    BY <1>2 DEF getHistory
  <2>2. local'[t].ids = contexts[c] /\ local'[t].got = <<>> /\ local'[t].before = MessagesOf(c)
    BY <2>1 DEF At, NoLocals, IInv, TypeOK
  <2>3. Reads(tasks, local'[t].ids, local'[t].got, local'[t].before)
    BY <2>2, BeginReads
  <2> QED BY <1>1, <2>3, OtherReading
<1>3. CASE CollectHistory(t)
  <2> DEFINE ids == local[t].ids
             got == local[t].got
             i == Head(ids)
  <2>1. /\ local'[t].ids = Tail(ids) /\ local'[t].before = local[t].before
        /\ local'[t].got = IF i \in DOMAIN tasks THEN got \o tasks[i].history ELSE got
    BY <1>3 DEF CollectHistory, At, IInv, TypeOK, Locals
  <2>2. ids \in Seq(TaskIds) /\ got \in Seq(1..MaxMessages) /\ ids # <<>>
    BY <1>3 DEF CollectHistory, IInv, TypeOK, Locals
  <2>3. Reads(tasks, ids, got, local[t].before)
    BY <1>3 DEF CollectHistory, Reading
  <2> HIDE DEF ids, got
  <2>4. Reads(tasks, local'[t].ids, local'[t].got, local'[t].before)
    BY <2>1, <2>2, <2>3, CollectReads
  <2> QED BY <1>1, <2>4, OtherReading
<1>4. CASE ReturnHistory(t)
  <2>1. pc'[t] = "idle"
    BY <1>4, ReturnType DEF ReturnHistory, IInv
  <2> QED BY <1>1, <2>1, OtherReading
<1> QED BY <1>2, <1>3, <1>4

LEMMA NextReading ==
  ASSUME Redis = FALSE, IInv, Index, InMemory, Unique, Reading, [Next]_vars
  PROVE  Unique' /\ Reading'
<1>1. ASSUME NEW t \in Threads,
             createTask(t) \/ trackContextTask(t) \/ CountTask(t)
               \/ updateTaskState(t) \/ cancelTask(t) \/ CheckCancelable(t) \/ addArtifact(t)
               \/ Notify(t)
      PROVE  Unique' /\ Reading'
  <2>1. /\ pc'[t] # "history"
        /\ \A u \in Threads \ {t} : pc'[u] = pc[u] /\ local'[u] = local[u]
    BY <1>1 DEF createTask, trackContextTask, CountTask, updateTaskState, cancelTask,
                CheckCancelable, addArtifact, Notify, Return, At, IInv, TypeOK
  <2>2. UNCHANGED <<tasks, messages>>
    BY <1>1 DEF createTask, trackContextTask, CountTask, updateTaskState, cancelTask,
                CheckCancelable, addArtifact, Notify
  <2> QED BY <2>1, <2>2, SameHistories, OtherReading
<1>2. ASSUME NEW t \in Threads, StoreTask(t) PROVE Unique' /\ Reading'
  <2> DEFINE i == local[t].id
  <2>1. /\ pc'[t] = "track" /\ messages' = messages
        /\ \A u \in Threads \ {t} : pc'[u] = pc[u] /\ local'[u] = local[u]
    BY <1>2 DEF StoreTask, At, IInv, TypeOK
  <2>2. i \notin DOMAIN tasks
    BY <1>2 DEF StoreTask, IInv, Reserved
  <2>3. /\ DOMAIN tasks' = DOMAIN tasks \cup {i} /\ Len(tasks'[i].history) = 0
        /\ \A j \in DOMAIN tasks : tasks'[j] = tasks[j]
    BY <1>2, <2>2 DEF StoreTask, NewTask
  <2> HIDE DEF i
  <2> QED BY <2>1, <2>2, <2>3, SameHistories, OtherReading
<1>3. ASSUME NEW t \in Threads, WriteTask(t) PROVE Unique' /\ Reading'
  <2> DEFINE i == local[t].id
  <2>1. /\ i \in DOMAIN tasks /\ tasks[i] \in Task /\ Written(t) /\ messages' = messages
        /\ tasks' = [tasks EXCEPT ![i] = Changed(t, tasks[i])]
    BY <1>3 DEF WriteTask, IInv, TypeOK, Working
  <2>2. Changed(t, tasks[i]).history = tasks[i].history
    BY <2>1 DEF Changed, Task
  <2>3. /\ pc'[t] # "history"
        /\ \A u \in Threads \ {t} : pc'[u] = pc[u] /\ local'[u] = local[u]
    BY <2>1, WrittenType DEF IInv
  <2> HIDE DEF i
  <2>4. DOMAIN tasks' = DOMAIN tasks /\ \A j \in DOMAIN tasks : tasks'[j].history = tasks[j].history
    BY <2>1, <2>2
  <2> QED BY <2>1, <2>3, <2>4, SameHistories, OtherReading
<1>4. ASSUME NEW t \in Threads, FlushTask(t) PROVE FALSE
  BY <1>4 DEF FlushTask, InMemory
<1>5. ASSUME NEW t \in Threads, addMessage(t) PROVE Unique' /\ Reading'
  <2>1. pc' = pc /\ local' = local
    BY <1>5 DEF addMessage
  <2> QED BY <1>5, <2>1, MessageUnique, OtherReading
<1>6. ASSUME NEW t \in Threads, getHistory(t) \/ CollectHistory(t) \/ ReturnHistory(t)
      PROVE  Unique' /\ Reading'
  <2>1. UNCHANGED <<tasks, messages>>
    BY <1>6 DEF getHistory, CollectHistory, ReturnHistory
  <2> QED BY <1>6, <2>1, SameHistories, HistoryReading
<1>7. CASE UNCHANGED vars
  BY <1>7 DEF vars, Unique, Reading
<1> QED BY <1>1, <1>2, <1>3, <1>4, <1>5, <1>6, <1>7 DEF Next

\* With MemoryTaskStore getHistory returns every message that its context had
\* when it was called, and none twice, although it reads one task after the
\* other while other threads add messages and create tasks.
THEOREM HistoryCompleteHolds ==
  ASSUME Redis = FALSE
  PROVE  Spec => []HistoryComplete
<1>1. Init => InMemory /\ Unique /\ Reading
  BY DEF Init, InMemory, Unique, Reading
<1>2. IInv /\ Index /\ InMemory /\ Unique /\ Reading /\ [Next]_vars
        => InMemory' /\ Unique' /\ Reading'
  BY NextInMemory, NextReading
<1>3. ASSUME IInv, Reading PROVE HistoryComplete
  <2>1. SUFFICES ASSUME NEW t \in Threads, Collected(t)
                 PROVE  /\ local[t].before \subseteq Elements(local[t].got)
                        /\ \A j, k \in DOMAIN local[t].got :
                             local[t].got[j] = local[t].got[k] => j = k
    BY DEF HistoryComplete
  <2>2. Reads(tasks, <<>>, local[t].got, local[t].before) /\ pc[t] = "history"
    BY <1>3, <2>1 DEF Reading, Collected
  <2>3. DOMAIN local[t].got = 1..Len(local[t].got) /\ Len(<<>>) = 0
    BY <1>3, <2>1 DEF IInv, TypeOK, Locals
  <2> QED BY <2>2, <2>3 DEF Reads, Has, Elements
<1> QED BY <1>1, <1>2, <1>3, InitIndex, NextIndex, Invariance, PTL DEF Spec

=============================================================================
