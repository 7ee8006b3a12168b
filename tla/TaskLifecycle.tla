---------------------------- MODULE TaskLifecycle ----------------------------
(***************************************************************************)
(* The tasks of an A2A agent: TaskManagerWrapper over a2a::TaskManager     *)
(* over a task store (a2a_adapter/src/task_manager_wrapper.cpp,            *)
(* a2a/src/server/*.cpp, a2a/src/examples/redis_task_store.cpp).           *)
(*                                                                         *)
(* Each store command is atomic: MemoryTaskStore holds its mutex for it,   *)
(* Redis executes it alone.  Everything above makes several of them in a   *)
(* row and holds no lock in between, so every command is a step.  In       *)
(* MemoryTaskStore updating a task is one command; in RedisTaskStore it is *)
(* a GET of the whole task and a SET of the changed copy, and a command    *)
(* that fails is logged and forgotten.                                     *)
(*                                                                         *)
(* MayChange says which threads change which tasks: all of them, or one    *)
(* thread for each task.  Nobody in the repository calls delete_task.      *)
(***************************************************************************)
EXTENDS Naturals, Sequences, FiniteSets

CONSTANTS
  Threads, TaskIds, Contexts,
  MayChange,    \* <<thread, id>>: the thread may change the state of the task
  Redis,        \* TRUE: RedisTaskStore, FALSE: MemoryTaskStore
  MaxMessages,  \* bound on the messages added to histories
  MaxArtifacts, \* bound on the artifacts added to a task
  None

States   == {"Submitted", "Running", "Completed", "Failed", "Canceled", "Rejected"}
Terminal == {"Completed", "Failed", "Canceled", "Rejected"}

ASSUME SetupAssumption ==
  /\ MayChange \subseteq Threads \X TaskIds
  /\ Redis \in BOOLEAN
  /\ MaxMessages \in Nat /\ MaxArtifacts \in Nat
  /\ None \notin TaskIds \cup States \cup Contexts

VARIABLES
  tasks,       \* the store: id -> task, for the ids it has
  created,     \* created_task_ids_
  contexts,    \* context_to_tasks_
  total,       \* total_tasks_created_
  messages,    \* messages added so far; a message is its number
  pc, local,   \* where each thread is, and what it holds
  told,        \* history: per task, the last new state given to state_change_callback_
  returned     \* history: the ids that createTask has returned

vars == <<tasks, created, contexts, total, messages, pc, local, told, returned>>

NoLocals == [id |-> None, context |-> None, from |-> "Submitted", to |-> "Submitted",
             copy |-> None, ids |-> <<>>, got |-> <<>>, before |-> {}]

NewTask(c) == [state |-> "Submitted", context |-> c, artifacts |-> 0, history |-> <<>>]

Task == [state : States, context : Contexts, artifacts : 0..MaxArtifacts,
         history : Seq(1..MaxMessages)]

Locals == [id : TaskIds \cup {None}, context : Contexts \cup {None}, from : States,
           to : States \cup {None}, copy : Task \cup {None}, ids : Seq(TaskIds),
           got : Seq(1..MaxMessages), before : SUBSET (1..MaxMessages)]

Locations == {"idle", "store", "track", "count", "update", "flush", "cancel",
              "notify", "history"}

TypeOK ==
  /\ DOMAIN tasks \subseteq TaskIds /\ \A i \in DOMAIN tasks : tasks[i] \in Task
  /\ created \subseteq TaskIds /\ returned \subseteq created
  /\ contexts \in [Contexts -> Seq(TaskIds)]
  /\ total \in Nat
  /\ messages \in 0..MaxMessages
  /\ pc \in [Threads -> Locations]
  /\ local \in [Threads -> Locals]
  /\ told \in [TaskIds -> States]

Init ==
  /\ tasks = <<>>
  /\ created = {}
  /\ contexts = [c \in Contexts |-> <<>>]
  /\ total = 0 /\ messages = 0
  /\ pc = [t \in Threads |-> "idle"]
  /\ local = [t \in Threads |-> NoLocals]
  /\ told = [i \in TaskIds |-> "Submitted"]
  /\ returned = {}

At(t, l, r) ==
  /\ pc' = [pc EXCEPT ![t] = l]
  /\ local' = [local EXCEPT ![t] = r]

Return(t) == At(t, "idle", NoLocals)

index == <<created, contexts, total, returned>>

-----------------------------------------------------------------------------
(* createTask                                                              *)

\* Mutant: the id is not recorded.
createTask_NotRecorded(t) ==
  /\ pc[t] = "idle"
  /\ \E i \in TaskIds \ created, c \in Contexts :
       At(t, "store", [NoLocals EXCEPT !.id = i, !.context = c])
  /\ UNCHANGED <<tasks, created, contexts, total, messages, told, returned>>

\* Mutant: the id is looked up but not recorded under the same lock.
createTask_RecordsLate(t) ==
  /\ pc[t] = "idle"
  /\ \E i \in TaskIds \ DOMAIN tasks, c \in Contexts :
       /\ created' = created \cup {i}
       /\ At(t, "store", [NoLocals EXCEPT !.id = i, !.context = c])
  /\ UNCHANGED <<tasks, contexts, total, messages, told, returned>>

\* An id that no createTask had, recorded under task_ids_mutex_.  (After 100
\* attempts createTask throws: the thread stays where it is.)
createTask(t) ==
  /\ pc[t] = "idle"
  /\ \E i \in TaskIds \ created, c \in Contexts :
       /\ created' = created \cup {i}
       /\ At(t, "store", [NoLocals EXCEPT !.id = i, !.context = c])
  /\ UNCHANGED <<tasks, contexts, total, messages, told, returned>>

\* set_task stores the task; a failing Redis does not.
StoreTask(t) ==
  /\ pc[t] = "store"
  /\ LET i == local[t].id IN
       \/ tasks' = [j \in DOMAIN tasks \cup {i} |->
                      IF j = i THEN NewTask(local[t].context) ELSE tasks[j]]
       \/ Redis /\ UNCHANGED tasks
  /\ At(t, "track", local[t])
  /\ UNCHANGED <<index, messages, told>>

\* Mutant: the callback of TaskManager is not installed.
trackContextTask_Skipped(t) ==
  /\ pc[t] = "track"
  /\ At(t, "count", local[t])
  /\ UNCHANGED <<tasks, index, messages, told>>

\* The on_task_created callback.
trackContextTask(t) ==
  /\ pc[t] = "track"
  /\ contexts' = [contexts EXCEPT ![local[t].context] = Append(@, local[t].id)]
  /\ At(t, "count", local[t])
  /\ UNCHANGED <<tasks, created, total, messages, told, returned>>

CountTask(t) ==
  /\ pc[t] = "count"
  /\ total' = total + 1
  /\ returned' = returned \cup {local[t].id}
  /\ Return(t)
  /\ UNCHANGED <<tasks, created, contexts, messages, told>>

-----------------------------------------------------------------------------
(* updateTaskState, cancelTask, addArtifact                                *)

\* Mutant: Completed is not taken for terminal.
isValidTransition_Completed(from, to) ==
  \/ from = "Submitted" /\ to \in {"Running", "Canceled", "Rejected"}
  \/ from \in {"Running", "Completed"} /\ to \in {"Completed", "Failed", "Canceled"}

isValidTransition(from, to) ==
  \/ from = "Submitted" /\ to \in {"Running", "Canceled", "Rejected"}
  \/ from = "Running" /\ to \in {"Completed", "Failed", "Canceled"}

\* updateTaskState reads the task and validates; otherwise it throws.
updateTaskState(t) ==
  /\ pc[t] = "idle"
  /\ \E i \in returned, to \in States :
       /\ <<t, i>> \in MayChange
       /\ i \in DOMAIN tasks /\ isValidTransition(tasks[i].state, to)
       /\ At(t, "update", [NoLocals EXCEPT !.id = i, !.from = tasks[i].state, !.to = to])
  /\ UNCHANGED <<tasks, index, messages, told>>

\* cancelTask reads the task for the callback's old state ...
cancelTask(t) ==
  /\ pc[t] = "idle"
  /\ \E i \in returned :
       /\ <<t, i>> \in MayChange
       /\ i \in DOMAIN tasks
       /\ At(t, "cancel", [NoLocals EXCEPT !.id = i, !.from = tasks[i].state,
                                           !.to = "Canceled"])
  /\ UNCHANGED <<tasks, index, messages, told>>

\* ... and TaskManager::cancel_task reads it again and throws when it is terminal.
CheckCancelable(t) ==
  /\ pc[t] = "cancel"
  /\ \/ /\ tasks[local[t].id].state \notin Terminal
        /\ At(t, "update", local[t])
     \/ /\ Redis \/ tasks[local[t].id].state \in Terminal
        /\ Return(t)
  /\ UNCHANGED <<tasks, index, messages, told>>

\* addArtifact: return_artifact writes the task without reading it first.
addArtifact(t) ==
  /\ pc[t] = "idle"
  /\ \E i \in returned :
       /\ i \in DOMAIN tasks /\ tasks[i].artifacts < MaxArtifacts
       /\ At(t, "update", [NoLocals EXCEPT !.id = i, !.to = None])
  /\ UNCHANGED <<tasks, index, messages, told>>

\* The task as the call of thread t changes it: a new state or an artifact.
Changed(t, task) ==
  IF local[t].to # None THEN [task EXCEPT !.state = local[t].to]
  ELSE IF task.artifacts < MaxArtifacts THEN [task EXCEPT !.artifacts = @ + 1]
  ELSE task

\* After a write only a change of state is notified.
Written(t) == IF local[t].to # None THEN At(t, "notify", local[t]) ELSE Return(t)

\* update_status, add_artifact.  MemoryTaskStore changes the task in place;
\* RedisTaskStore makes a changed copy of it, or its GET fails.
WriteTask(t) ==
  /\ pc[t] = "update"
  /\ LET i == local[t].id IN
       \/ ~Redis /\ tasks' = [tasks EXCEPT ![i] = Changed(t, @)] /\ Written(t)
       \/ Redis /\ At(t, "flush", [local[t] EXCEPT !.copy = Changed(t, tasks[i])])
                /\ UNCHANGED tasks
       \/ Redis /\ Written(t) /\ UNCHANGED tasks
  /\ UNCHANGED <<index, messages, told>>

\* RedisTaskStore: the SET of the copy, which may fail.
FlushTask(t) ==
  /\ pc[t] = "flush"
  /\ \/ tasks' = [tasks EXCEPT ![local[t].id] = local[t].copy]
     \/ UNCHANGED tasks
  /\ Written(t)
  /\ UNCHANGED <<index, messages, told>>

\* Mutant: the listener is told of new states only while the task is active.
Notify_ActiveOnly(t) ==
  /\ pc[t] = "notify"
  /\ told' = [told EXCEPT ![local[t].id] = IF local[t].to \in Terminal THEN @ ELSE local[t].to]
  /\ Return(t)
  /\ UNCHANGED <<tasks, index, messages>>

\* state_change_callback_(id, old, new), the old state as read at the start.
Notify(t) ==
  /\ pc[t] = "notify"
  /\ told' = [told EXCEPT ![local[t].id] = local[t].to]
  /\ Return(t)
  /\ UNCHANGED <<tasks, index, messages>>

-----------------------------------------------------------------------------
(* addMessage, processMessage, getHistory                                  *)

\* addMessage, and processMessage with a task id: the message goes to the end
\* of the task's history.
addMessage(t) ==
  /\ pc[t] = "idle" /\ messages < MaxMessages
  /\ messages' = messages + 1
  /\ \E i \in returned :
       /\ i \in DOMAIN tasks
       /\ tasks' = [tasks EXCEPT ![i].history = Append(@, messages + 1)]
  /\ UNCHANGED <<index, pc, local, told>>

Elements(s) == {s[k] : k \in DOMAIN s}

\* The messages of a context, as its tasks have them now.
MessagesOf(c) ==
  UNION {Elements(tasks[i].history) : i \in {j \in returned \cap DOMAIN tasks :
                                               tasks[j].context = c}}

\* getHistory copies the ids under context_mutex_ ...
getHistory(t) ==
  /\ pc[t] = "idle" /\ messages > 0
  /\ \E c \in Contexts :
       At(t, "history", [NoLocals EXCEPT !.context = c, !.ids = contexts[c],
                                         !.before = MessagesOf(c)])
  /\ UNCHANGED <<tasks, index, messages, told>>

\* ... and collects one history after the other.
CollectHistory(t) ==
  /\ pc[t] = "history" /\ local[t].ids # <<>>
  /\ LET i == Head(local[t].ids) IN
       At(t, "history",
          [local[t] EXCEPT !.ids = Tail(@),
             !.got = IF i \in DOMAIN tasks THEN @ \o tasks[i].history ELSE @])
  /\ UNCHANGED <<tasks, index, messages, told>>

Collected(t) == pc[t] = "history" /\ local[t].ids = <<>>

\* (max_length = 0; a context that is also a task id is left out.)
ReturnHistory(t) ==
  /\ Collected(t)
  /\ Return(t)
  /\ UNCHANGED <<tasks, index, messages, told>>

Next ==
  \E t \in Threads :
    \/ createTask(t) \/ StoreTask(t) \/ trackContextTask(t) \/ CountTask(t)
    \/ updateTaskState(t) \/ cancelTask(t) \/ CheckCancelable(t) \/ addArtifact(t)
    \/ WriteTask(t) \/ FlushTask(t) \/ Notify(t)
    \/ addMessage(t) \/ getHistory(t) \/ CollectHistory(t) \/ ReturnHistory(t)

Spec == Init /\ [][Next]_vars

-----------------------------------------------------------------------------
(* Properties                                                              *)

\* Creating a task never replaces a task that is there: createTask's ids are
\* its own even when threads draw the same one ("Property 2: Task ID
\* Uniqueness" of task_manager_wrapper.h).
CreateIsFresh ==
  [][\A t \in Threads : pc[t] = "store" /\ pc'[t] = "track" =>
       local[t].id \notin DOMAIN tasks]_vars

\* The reserved ids, the index of the contexts and the count of tasks agree,
\* whichever creations are under way: an id that was returned is in its
\* context's list, no id is in two lists or twice in one, and the count lags
\* by the creations that have not returned.
IndexAgrees ==
  LET entries == UNION {{c} \X DOMAIN contexts[c] : c \in Contexts}
      Id(e)   == contexts[e[1]][e[2]]
  IN /\ returned \subseteq {Id(e) : e \in entries}
     /\ \A d, e \in entries : Id(d) = Id(e) => d = e
     /\ \A e \in entries : Id(e) \in DOMAIN tasks => tasks[Id(e)].context = e[1]
     /\ total + Cardinality({t \in Threads : pc[t] \in {"store", "track", "count"}})
          = Cardinality(created)

\* getHistory gives every message its context had when it was called, and
\* none twice, although it reads the tasks one after the other.
HistoryComplete ==
  \A t \in Threads : Collected(t) =>
    /\ local[t].before \subseteq Elements(local[t].got)
    /\ \A j, k \in DOMAIN local[t].got : local[t].got[j] = local[t].got[k] => j = k

\* What the listener of state changes is told of a task is a chain: the old
\* state it gets is the new one it got before, and when nobody is at work on
\* the task the last new one is the task's state.
ListenerKnows ==
  /\ \A t \in Threads : pc[t] = "notify" => local[t].from = told[local[t].id]
  /\ \A i \in DOMAIN tasks :
       (\A t \in Threads : local[t].id # i) => tasks[i].state = told[i]

\* The life of a task, as the abstract machine has it.
Phase == [i \in TaskIds |-> IF i \in DOMAIN tasks THEN tasks[i].state ELSE None]

Machine == INSTANCE TaskMachine WITH phase <- Phase

\* Every change of a stored task is a step of the state machine.
MachineSpec == Machine!Spec

\* task_manager_wrapper.h: "Terminal states cannot transition", whoever writes.
TerminalStays ==
  [][\A i \in DOMAIN tasks :
       tasks[i].state \in Terminal => tasks'[i].state = tasks[i].state]_vars

=============================================================================
