# A verification development for my_agent_communication

TLA+ models of the concurrent core of this repository, checked by TLC on small
instances. Every safety property that TLC finds to hold is also proved, by TLAPS,
for every value of the constants. Paths below are relative to the repository
(`src/` here stands for the repository root, so its own `src/` directory is
`src/src/`).

- [1. The system](#1-the-system)
- [2. Modules](#2-modules)
- [3. Runs and bounds](#3-runs-and-bounds)
- [4. What the code does not do](#4-what-the-code-does-not-do)
- [5. Fairness](#5-fairness)
- [6. Proofs](#6-proofs)
- [7. What is left out, and why](#7-what-is-left-out-and-why)
- [8. Plan](#8-plan)
- [9. Working with the project](#9-working-with-the-project)

## 1. The system

A C++ framework in which agents talk to each other, offer tasks and call tools.
It is three systems side by side, joined by configuration more than by calls:

- **the message hub**: a gRPC service (`src/src/rpc_server.cpp`) where agents
  register, keep alive, and leave messages for each other, and the client
  library for it (`src/src/rpc_client.cpp`), with a circuit breaker, load
  balancers, service registries, metrics and a logger around them;
- **A2A**, agents offering tasks: a task manager over a memory or Redis store
  (`src/a2a`), wrapped for the framework (`src/a2a_adapter`), and a router that
  chooses an agent (`src/orchestrator`);
- **MCP**, tools: a server that runs plugins (`src/mcp_server_integrated`), and
  a client with a tool manager and tool retrieval by embeddings (`src/mcp`).

### Components

| component | state it keeps | operations | who else touches the state |
|---|---|---|---|
| agent service, `AgentCommunicationServiceImpl` | endpoints and message queues by agent id, one mutex over both, an atomic id counter | SendMessage, ReceiveMessage, BroadcastMessage, GetAgents, RegisterAgent, UnregisterAgent, Heartbeat, ListenMessages, BatchSendMessages, RealTimeCommunication | a pool of gRPC threads, and a thread that evicts silent agents every 30 s |
| RPC client, `RpcClient` | connection flags, stubs, its agent id, two thread objects, the real-time stream | connect, disconnect, the service's calls, start/stop of the real-time session | the heartbeat thread, which also reconnects, and the real-time thread; no lock |
| circuit breaker, `CircuitBreaker` | state, counters, time of the last change | execute (isRequestAllowed, recordSuccess, recordFailure), reset, updateConfig | every caller; the transition to half-open takes no lock |
| task manager, `TaskManagerWrapper` over `TaskManager` over `ITaskStore` | tasks with state, artifacts and history; reserved ids; ids by context | createTask, updateTaskState, cancelTask, addArtifact, addMessage, getHistory, processMessage | every caller, and every process that shares the Redis |
| MCP server, `Server` + `SSE` | two message queues, three connection flags, a notification queue, the transport | Connect, SendNotification, Stop; POST /messages, GET /sse | main, the writer thread, the HTTP pool, the SIGINT handler |
| MCP client, `MCPClient` | response queue, pipes or HTTP session, connected flag | connect, listTools, callTool, listResources... | a reader thread per transport |
| tool manager and integration | list and map of tools, cache, retry settings | refreshTools, executeTool(Async), callTool, shutdown | notification callbacks on the reader thread, detached threads |
| tool retrieval | LRU cache with expiry, index of embeddings | indexTools, refreshIndex, retrieve, get, put | callers of several threads |
| router, `AgentRouter` | agents, health, load, strategy, round-robin index | addAgent, removeAgent, updateAgentList, mark(Un)Healthy, selectAgent | callers, under one mutex |
| agent registry, `AgentRegistry` | agents, index by tag, last heartbeat | register, deregister, heartbeat, find_by_tag, check_health | callers, under one mutex |
| load balancers, service registries | member lists, counters, caches, watchers | selectEndpoint, updateEndpoints; register, discover | callers and a health-check thread |
| logger, metrics | queue of entries and a thread; counters | log, flush, start, stop; observe, increment | everybody |

`PROJECT.json` lists every component with what is modelled of it, including
those that are conversions or pure I/O and never will be.

### What is hard about it

- *One mutex, held over waits.* ReceiveMessage and ListenMessages keep the
  hub's mutex while they wait for messages and write to the network. That makes
  the iterator they hold safe and everybody else wait.
- *Check, then act, over several commands.* updateTaskState, cancelTask, the
  Redis store's read-modify-write, disconnect, executeTool.
- *State that half of its users lock.* The breaker's counters, the writer's
  flag in the MCP server, the logger's `running_`: lost updates, lost wakeups.
- *Threads that end by themselves.* A heartbeat that gives up, a listen that
  fails, a stream whose client leaves, each leaving flags and thread objects
  behind for a later call to find.
- *Work on a thread that something else waits for.* A notification callback that
  calls the client from its own reader; an asynchronous call on a detached
  thread that holds only `this`.
- *Two containers for one fact.* Agents and their tag index, a cache's list and
  map, an index and the list of tools it was made from, notes and Consul.
- *Retries and late answers.* Heartbeats that reconnect, probes of a half-open
  breaker, responses that arrive after their request timed out.

`PROJECT.json` "hazards" lists forty of these, each at its line, with the
properties that would see it go wrong or the reason why there is none yet.

### What makes each component correct

| component | correct when |
|---|---|
| agent service | a message accepted for an agent is handed out as often as it was addressed there, in order, or is lost only with its agent or its stream; the two maps agree; no iterator dangles; every call gives the mutex back |
| RPC client | no thread object is assigned or destroyed while joinable; nobody who began with a stub meets none; an id given back is not kept alive; stopping the heartbeat returns |
| circuit breaker | whoever holds the lock finds consistent counters; it opens only on enough requests, and at its rate; it is left after its timeout, and decides when half-open |
| task manager | ids are unique; a change of state is one that its caller validated, and follows the state machine unless calls overlap; indexes agree with the store; histories are complete; the listener is told a gapless chain |
| MCP server | one answer for each request, each message to one place, in order for each client; a stream serves with the whole of a connection until a client leaves; the writer does not oversleep |
| MCP client, tool manager | a request gets its own response; disconnect waits for nothing but the server's process |
| tool retrieval | list and map agree, and are a least-recently-used cache; each vector belongs to its text; a refresh, a restart or a failure loses no tool behind anybody's back |
| router, registry | round robin starves nobody while the candidates stay; a search by tag finds who has the tag |
| load balancers, service registry | two endpoints are selected in proportion to their weights, until an `int` overflows; only what Consul has answered for is reported alive |
| logger, metrics | entries come out in order and in one file, wherever a rotation is killed or fails; a loop that sleeps leaves none behind; counts lose nothing |

## 2. Modules

| module | models | abstraction |
|---|---|---|
| `AgentService` | `src/src/rpc_server.cpp`, every call of the service that changes state (GetAgents only reads) and the cleanup thread; `MessageQueue` of `rpc_framework.h` | an action is a critical section; ReceiveMessage and ListenMessages, which wait and write with the mutex held, are several, with `owner` in between. Time is in ticks of 30 s, kept as ages. A message is its id with the number of the copy: a broadcast carries a list of targets, and an agent named twice gets two |
| `Mailbox` | the promise of the hub, abstractly | a FIFO mailbox per agent: Open, Close, Post of some copies to each of several at once, Take |
| `RpcClient` | `src/src/rpc_client.cpp` | one action per store to a flag or object that another thread reads. What the application's thread still has to do is a sequence of steps, so disconnect runs stopHeartbeat. A thread whose stub, stream or string was replaced under it is `torn` and may crash at any time; a real-time session that is started without a stub is `unready`, and crashes there |
| `CircuitBreaker` | `src/src/circuit_breaker.cpp` | every load and store of the state or of a counter is a step: the two increments of a report and its judgement, under the mutex, the stores of reset, and those of the transition to half-open, without. The rate is `\div`, as in the code |
| `TaskLifecycle` | `task_manager_wrapper.cpp`, `task_manager.cpp`, both stores | a store command is a step; nothing is held between two. Redis commands may fail; messages are numbers, artifacts are counted |
| `TaskStores` | the two stores that `TaskManagerWrapper` may be built over, EXTENDS `TaskLifecycle` | `store` says which, and is chosen for good |
| `TaskMachine` | the promise of `TaskStateValidator`, abstractly | one state per task and the legal moves |
| `SseTransport` | `SseTransport.cpp` | each store to a flag is a step, the three of Stop too, and the test of a POST is apart from its push; the content provider is "take", "write", "terminate" per stream. The listening thread binds or finds the port taken at any time after Start; what the library does is mapped to the vendored `httplib.h` |
| `McpServer` | `Server.cpp`, `main.cpp`, EXTENDS `SseTransport` | main, the writer and the streams, with `output_mutex_` and the condition variable (including the gap between test and wait, and spurious wakeups). Requests are of four kinds: answered, notification, no JSON, other exception |
| `McpClient` | `mcp_client.cpp` with `mcp_tool_manager.cpp` | callers, the reader and a control thread that connects, initialises, shuts down. Requests are numbered; an answer is its request's number, or 0 for a message that answers none. initialize makes a new client, with a queue of its own. disconnect waits in `waitpid` for a process that may never end. What a freed manager does to the threads inside it is `crashed`, at any outcome |
| `EmbeddingCache` | `rag/embedding_cache.cpp` | list, map and the age of each place in ticks; list iterators are numbers used again, as addresses are |
| `ToolRetriever` | `rag/tool_retriever.cpp`, `vector_index.cpp`, `embedding_service.cpp` as `mcp_agent_integration.cpp` uses them, EXTENDS `EmbeddingCache` | the embedding of a text is the text; an API call may fail after all its attempts; the index is saved at shutdown and loaded at the next start |
| `Lru` | the promise of the cache, abstractly | keys in order of use, each of which expires by itself |
| `AgentRouter` | `orchestrator/src/agent_router.cpp` | the order of the hash map is any order, chosen again when an insertion may rehash; loads and names are left out |
| `WeightedBalancer` | the weighted balancer of `load_balancer.cpp` | the list that a caller passes only has to be non-empty, as in the code. A current weight is an `int` that wraps at `IntMax` |
| `AgentRegistry` | `a2a/examples/agent_registry.hpp` | silence is a set, of those a health check would evict |
| `ServiceRegistry` | the Consul registry of `service_registry.cpp` | requests may be lost before or after they are carried out, and any body, an error's too, is taken for success; caches and watchers are left out |
| `AsyncLogger` | `logger.cpp`: `AsyncLogger` and `FileAppender` | entries are numbers of one size; the files outlive the process. The write of an entry, each rename and the reopening are steps: the process may be killed between any two, and each rename or open may fail. `initialize` has started the loop before it adds the appender |
| `Metrics` | counter, gauge and histogram of `metrics.cpp` | compare-and-exchange is load, exchange, and a failure that loads again; the gauge exists from the first connection or initialize on; durations are one |
| `Parts` | the six above, side by side | they share no state: `part` says which one a behaviour exercises |

`MC*` modules give symmetry sets and the sets that a `.cfg` cannot write;
`*Proofs` modules hold the theorems. `McpServer` composes with `SseTransport`:
the server calls the transport's operators (`Read`, `Write`, `Start`, `StopRunning` ...)
inside its own actions, and the transport's own threads run beside it.
`ToolRetriever` calls the cache's `get`, `put` and `clear` inside its actions.
`AgentService` implements `Mailbox`, `TaskLifecycle` implements `TaskMachine`,
and the retriever's cache implements `Lru`, through `INSTANCE ... WITH` (`Hub`,
`Machine`, `LRU`). `TaskStores` takes `TaskLifecycle` twice, once for each
store: `InRedis` is the instance whose commands may fail, and `EitherSpec` has both.

Correspondence. Variables keep the names of the C++ members (`stub_`,
`heartbeat_running`, `owner` for the holder of a mutex, `pc`/`main`/`writer`/
`hb`/`rt` for where a thread is). Actions keep the names of the methods; a
method of several steps has one action for each and the method's name for their
disjunction (`heartbeatLoop`, `WriterLoop`, `StopServer`). Variables marked
*history* are read by no action. Operators whose comment begins with "Mutant:"
are wrong versions of the definition that follows them; each is used to see that
a property fails when the code is broken that way, and none is part of a
specification.

## 3. Runs and bounds

| run | states | question and answer |
|---|---|---|
| `agent_delivery` | @agent_delivery@ | Two threads of the pool serve any calls, the cleanup thread runs, broadcasts may name an agent twice. **Accounted**: each copy of an accepted message is in exactly one place. **OneQueuePerAgent**, **IteratorStaysValid**. **MailboxSpec**: the hub implements FIFO mailboxes. All hold |
| `agent_progress` | @agent_progress@ | Do calls give the mutex back? **ReceiveReturns**, **CancelReleases**, **ListenDrains** hold without any fairness of the mutex |
| `breaker_reports` | @breaker_reports@ | Three callers around one breaker. **Counted** (whenever nobody holds the mutex, and whenever a report is judged), **OpenNeedsRequests**, **OpenIsLeft** hold |
| `task_stores` | @task_stores@ | One thread per task; on the memory store everybody adds messages and artifacts, on Redis every command may fail. **IndexAgrees**, **HistoryComplete**, **ListenerKnowsMemory**, **CreateIsFresh**, **MachineSpec** hold. On Redis the listener may be told of a change that was not stored, so ListenerKnows is claimed for the memory store only |
| `mcp_flow` | @mcp_flow@ | Two streams, requests of all kinds, a notification, a port that is taken, Ctrl+C anywhere. **Accounted**, **SentInOrder**, **WholeUntilDeparture**, **WriterAwake** hold |
| `client_threads` | @client_threads@ | One client under heartbeats that fail and reconnect, and real-time sessions with and without a connection. **NeverTerminated**, **StubExists**, **NoLateHeartbeat**, **StopHeartbeatReturns** hold |
| `mcp_requests` | @mcp_requests@ | A caller, a reader that may call back, a manager that starts and stops, over stdio or SSE, with late, lost and foreign messages and a server that need not exit. **OwnAnswer**, **DisconnectReturns** hold |
| `tool_retrieval` | @tool_retrieval@ | Two threads index, refresh, remove and ask, with failing calls, an eviction at every turn, entries that expire one by one, shutdowns and kills. **InStep**, **VectorsMatch**, **ListedIsIndexed**, **LruSpec** hold |
| `parts` | @parts@ | The six parts that call nothing of the system: **RotatesEvenly** (router), **PairShares** (balancer), **TagsFind** (registry of agents), **ReportsOnlyRegistered** (registry of services), **FilesKeepTail** and **EntriesWritten** (logger), **Tallied** (metrics) hold |

The three other runs are in the next section. A `TypeOK` also says who holds
which mutex at which location, or which thread objects are joinable; where it is
not a property of its own it is the first conjunct of the component's invariant
(`Accounted` of `McpServer`, `NeverTerminated`, `OwnAnswer`).

Bounds, and why they are enough to meet the interesting cases:

- *AgentService*: two handlers are the least that can race for the mutex, and
  every property relates at most two calls. `MaxId = 2` ids are shared by
  agents and messages (`agent_progress`: 3); with real-time messages, whose id
  is the client's (`ClientIds`), there can be two messages in two queues.
  `OfflineAge = 2` ticks are the 60 s, `MaxAge` one more, since ages are only
  compared with it. The lists of a broadcast are empty (everybody), two agents,
  and one agent twice (`Audiences`); `MaxCopies = 2` bounds how often a list
  names one. In `agent_progress` agents go stale at once, to have eviction at
  every point.
- *CircuitBreaker*: `MaxRequests` bounds calls counted and under way; with a
  minimum of 2 and a threshold of 2, five are a trip, a recovery and one more
  round. Three callers are needed for a report and a transition to race with a
  third that decides. The half-open run needs a minimum above the threshold, the
  run of the rate one report more than its failures.
- *TaskLifecycle*: two threads, two tasks, two contexts, two messages: a pair
  of creations that collide, a history read over two tasks that change.
- *McpServer*: two streams, so that an old one ends under a new one; two
  requests for order; `MAX_PARSER_ERRORS` is 1 instead of 50. One notification
  (`MaxNotes`) is enough for its places and for the writer's sleep, but not for
  an order among notifications: that half of SentInOrder is the theorem's. Client
  reconnections are unbounded.
- *RpcClient*: `MaxIds = 2` registrations, so that an id is replaced; all else
  is unbounded. `MAX_RETRY_COUNT` is the code's 5. It is not reached: a
  heartbeat that fails to reconnect ends its thread.
- *McpClient*: one application thread beside the reader's callback and the
  control thread is three callers. Three requests are one that gives up, one
  that meets its late answer, and one more; one message that answers nothing;
  two connections, so that a queue may outlive one.
- *ToolRetriever*: two threads that race, two tools and the query in a cache of
  two, so that each use may evict what another thread is about to ask for; an
  entry expires at `ttl_seconds = 2` ticks, so that of two entries either may be
  the first; two starts, so that a saved index is loaded. With one version of
  each description the vectors still differ from tool to tool, and a race mixes
  them up; that no vector is left over from an *earlier description* of the same
  tool is the theorem's, for any number of versions. So is a cache of size 0.
- *AgentRouter*, *AgentRegistry*: three agents and an index that counts to 6
  before it wraps are two rounds, one of which may begin at any index. The lists
  that updateAgentList is given have all agents in one condition (`MCParts`);
  what differs between two comes of addAgent and of the marks. Two registered
  agents with two tags.
- *WeightedBalancer*: two endpoints with weights of 0 (nobody is best), 2 and 3,
  six selections of each; an `int` reaches 9 (`IntMax`) instead of 2,147,483,647,
  so that it overflows within them and wraps.
- *ServiceRegistry*: two threads on two services, beside the health check.
- *AsyncLogger*: files of two entries, two of them beside the current one, and
  six entries fill all three and turn the third rotation; three lives of the
  process. Two threads push.
- *Metrics*: the bucket is zero again at 2 instead of 65,536; three threads and
  four calls are a reset among observations.

`CHECK_DEADLOCK FALSE` is set where the system may really stop: after Ctrl+C
(`McpServer`), after the client is destroyed (`RpcClient`), when all ids are
used and all tasks are finished (`task_stores`), after the use of what was freed
(`McpClient`, `ToolRetriever`), and when the bounded calls and starts are used
up (`McpClient`, `ToolRetriever`, `Parts`).

## 4. What the code does not do

Three runs each check one statement of the repository and find it violated;
`PROJECT.json` "findings" quotes the line.

- `breaker_half_open` / **HalfOpenDecides**: half-open admits calls while
  `total_requests < success_threshold`, and `total_requests` is not reset on
  the way there. With a larger `min_request_count` the breaker rejects for ever.
- `breaker_rate` / **RateTrips**: the header has a failure rate threshold of
  0.5; `updateFailureRate` divides two ints and casts afterwards, so the rate is
  0 as soon as one counted call succeeded. Two failures of three leave the
  breaker closed.
- `task_shared` / **TerminalStays**: two threads validate against the same
  state and the second write replaces a terminal one. `task_stores` and the
  theorem `MachineHolds` show that only calls that overlap on one task can do
  that; nothing in the code keeps them apart. For any writers there remains
  `ChangeValidatedHolds`: each change was valid when its caller read the task.

The models also contain, as the code does, the following; properties are stated
so that they say what holds nevertheless.

- A broadcast that names an agent twice delivers twice (`Recipients`, `Push`).
- ListenMessages keeps the hub's mutex, so its stream carries only what was
  queued before it began (`ListenMessages` to `ListenEnd` of `AgentService`).
- Who reads the breaker's counters without its lock may find an outcome more
  than requests, between the two increments of a report (`Counted` does not
  speak of that moment), and a cleared breaker that is still open, between the
  two stores of a reset.
- The MCP server's Stop, and the logger's, clear a flag and notify without the
  mutex. A waiter between its test and its wait sleeps on, and the join with it
  (`WriterPark`, `Park`): WriterAwake and EntriesWritten speak of running threads.
- Ctrl+C while the listening thread is still binding: the library's stop does
  nothing yet, and the join waits for a listen that nobody stops
  (`CloseSocket`).
- An old stream that ends between the two stores of a new GET leaves
  `client_connected_` false and `sse_active_` true: POSTs are answered 503 while
  a stream is served. A stream that the library closes leaves both set with no
  stream, and requests are taken that nobody is there to be answered
  (`LibraryCloses`). WholeUntilDeparture says that only the end of a stream does
  such things.
- The logger's `running_` is read before anything has set it (`initialize`):
  EntriesWritten assumes that the loop has its thread. The loop is started
  before it has an appender; an entry popped before that, or while the file is
  not open, goes nowhere (`DropEntry`).
- What `rename` returns is not looked at, and the size is reset in any case
  (`RenameFails`, `Reopen`). A kill inside a rotation leaves an over-full file,
  or a number without a file. FilesKeepTail says what holds in each case: the
  order always, no gap unless a file could not be renamed or opened, full blocks
  unless a rotation was torn as well.
- RpcClient::disconnect sees `connected_` false while the heartbeat reconnects,
  returns, and the client is connected again afterwards.
- startRealTimeCommunication does not ask whether there is a connection: without
  a stub its thread crashes. StubExists excepts exactly that.
- MCPClient takes the first response in the queue (`Receive`). OwnAnswer says
  what it needs for that to be the right one: no call that gave up, no two calls
  at once, and a server that writes nothing but answers.
- MCPClient::disconnect waits for the server's process without a limit after its
  SIGTERM. A server that ignores it keeps the caller (`DisconnectReturns` ends
  at that wait).
- A manager is destroyed under the reader that runs its callback, or under a
  detached asynchronous call (`shutdown`, `Disconnected` of `McpClient`).
- MCPAgentIntegration::refreshTools indexes the list it already has; nothing
  fetches it again (`refreshTools` of `ToolRetriever`). A tool added between the
  copy and the clear of refreshIndex is lost (`ClearIndex`).
- A cache of capacity 0 holds one entry, since it evicts before it adds.
- deregister_agent leaves the agent in the registry and returns nothing
  (`AgentRegistry`); a new registration leaves its old tags in the index.
  TagsFind speaks of the others.
- One round-robin index serves every question; the shares of two questions that
  alternate may be uneven. RotatesEvenly speaks of selections in succession with
  the same candidates.
- The weighted balancer pays with the weight of the selected endpoint where the
  usual scheme pays with the sum. Two endpoints still share in proportion
  (PairShares); with three the weights grow, and for weights 1, 10, 10 the first
  is never selected. In any case they are ints that grow with every selection
  until they overflow, and PairShares ends there.
- The service registry takes any body for success, so a registration that Consul
  refused is noted and reported (`refused` of `ServiceRegistry`); it treats an
  empty body as a failure, and an unregistration whose request was lost leaves
  the service with Consul.
- A histogram's sum is loaded and stored; additions are lost (Tallied bounds it).

## 5. Fairness

- `AgentService!FairSpec`: a thread that holds the mutex runs on (weak fairness
  of `Work`), the clock ticks, the cleanup thread wakes. Nothing of clients, and
  nothing of who gets the mutex: `std::mutex` promises no order.
- `CircuitBreaker!FairBreakerSpec`: callers keep calling and are scheduled, time
  passes, and a thread gets a mutex that is free again and again; nobody has to
  call reset. OpenIsLeft assumes it, and speaks only of states where the bound
  on calls leaves room.
- `RpcClient!FairSpec`: the heartbeat thread runs, and its calls return, since
  they carry a deadline of 10 s and the retry delay is bounded; the
  application's thread finishes what it has begun. Nothing is assumed of the
  server's ending a real-time stream.
- `McpClient!FairSpec`: each call goes on, by its answer or by its time limit of
  30 s; the reader looks at its flag when poll returns, and connecting,
  initialising and disconnecting go on, up to the `waitpid` for the server's
  process. The server answers nothing it does not care to, its streams need not
  end, and neither need its process after a SIGTERM (`ServerExits` has no
  fairness): DisconnectReturns is claimed for stdio, and as far as `waitpid`.
- `Parts!FairSpec`: the logger's loop is scheduled, and a thread that has
  pushed notifies. No spurious wakeups.

## 6. Proofs

Every safety property of a passing run, its invariants and its action properties
and refinements, is a theorem too. The proofs hold for any values of the
constants that satisfy the named assumption of the module (`BoundsAssumption`,
`ClientAssumption`, `ConfigAssumption`, `SetupAssumption`, `ServerAssumption`,
`TransportAssumption`, `McpClientAssumption`, `CacheAssumption`,
`RetrieverAssumption`, `RouterAssumption`, `BalancerAssumption`,
`ServiceAssumption`, `LoggerAssumption`, `MetricsAssumption`): bounds are
naturals, weights are integers, the agents of the router are finitely many, the
owner "nobody" is no thread, and such. No bound has a value. A property that
also needs something of the configuration or of the behaviour has it as a
hypothesis of its theorem.

**AgentServiceProofs.** `TypeCorrect`, `OneQueuePerAgentHolds`,
`IteratorStaysValidHolds`; `Refinement`: `Spec => MailboxSpec`; `AccountedHolds`;
for any lists of targets (`Lists`).

- TypeOK is not inductive: what a handler pushes or registers is well typed
  because of the request it serves at that location (`CallsWellFormed`), and its
  queue exists only because it holds the mutex (`IteratorStaysValid`). `FreshIds`
  (the counter is above every id, and two pending registrations differ) makes
  the abstract step `Open` possible. `IInv` is their conjunction; there is one
  lemma per group of actions, and one for the steps that leave the maps alone.
- The refinement maps a locked push to one `Post`, which gives each agent as many
  copies as the list names it (`TimesRange`: no more than the bound), a pop to
  `Take`, registration to `Open`, leaving and eviction to `Close`, all else to
  stuttering.
- Accounted counts pairs of an agent and a copy of a message. `Placed` says where
  they are: waiting, in the hands of one call, handed out, lost or dropped, no
  two of these at once (`Apart`), no accepted pair elsewhere (`Covered`), and no
  copy twice in a queue (`Once`). A push keeps them apart because its id was
  never used (`FreshMessages`), for which the ids of requests on their way to
  their push must differ too, and because its copies are numbered (`Posted`). One
  lemma for each way a pair moves, and one for the steps that move none.

**ClientProofs**, the RPC client: `NeverTerminatedHolds`, `StubExistsHolds`,
`NoLateHeartbeatHolds`. The application's thread has a sequence of steps to do,
so the invariant says which sequences there are (`Shape`) and what each step
finds when it comes to be done, because of those before it (`Joined`: the thread
was stopped and joined; `StubInv`: nobody who began with a stub is left without
one; `FreshHeartbeat`: the id that a heartbeat thread sends has not been given
back).

**ClientProofs**, the circuit breaker: `BreakerTypeCorrect`, `CountedHolds`,
`OpenNeedsRequestsHolds`. The unlocked clears fall between the load and the store
of an increment, so the invariant says that what the thread holds in its register
is still covered by the total, and that an outcome which is ahead of it belongs
to the thread that is about to count the request (`Registers`).

**TaskLifecycleProofs.** For both stores, and any number of threads:

- `TypeCorrect`; `CreateIsFreshHolds`, from `Reserved`: the ids between
  reservation and storing are pairwise different and not stored;
  `IndexAgreesHolds`, from `Index`: each id is listed by the thread that reserved
  it and by no other (`Claims`, `Lists`), under the context its task has or will
  have (`ContextsFit`), and the counter lags by the creations under way (`Tally`);
- `ChangeValidatedHolds`, for any writers of any tasks: a task changes its state
  only under a call that read the task and found this change valid, or that
  cancels it, or that writes a copy with an artifact back to Redis, from `Chosen`:
  what a call is about to write is one of these;
- `MachineHolds`: `Spec /\ []Serial => MachineSpec`. As long as no two calls that
  change one task overlap (`Serial`, on whatever threads they run) every step is
  a step of `TaskMachine` or leaves the states alone, from `Validated`: what a
  call validated still holds when it writes, or when its copy is written. Nothing
  in the code sees to `Serial`, and `task_shared` shows what happens without it:
  the theorem says that overlapping calls are the only cause;
- `ListenerKnowsHolds`, with the memory store (`Redis = FALSE`) and `Serial`: the
  listener is told a gapless chain, from `Known`: the store is ahead of it only
  by the change of a call about to notify it. A corollary of calls that do not
  overlap rather than a result of its own, and not listed in `PROJECT.json`;
- `HistoryCompleteHolds`, with the memory store and any writers, from `Unique`
  (no two places of the histories hold the same message) and `Reading` (what a
  reader owes its caller it has, or will find in a task it has still to read),
  since histories only grow.

The run `task_stores` has each task changed by one thread, which is a way to have
`Serial`, and its Redis instance has no artifacts.

**McpServerProofs.** `WriterAwakeHolds`, from `Parking`: the writer holds the
mutex from its test of the queue to its wait, so no push falls between.
`WholeUntilDepartureHolds`, from `Typed` and `Whole`: until a client leaves, each
stream has set what its location says (`Sound`), and whatever is on its way was
accepted over a connection (`Carrying`), so that an answer finds one too.
`SentInOrderHolds`: each queue is in order, and what is further on its way comes
before all that is behind it (`Flow`). `AccountedHolds`: the places on
the way are apart (`InLine`, `Apart`), and with the answers missed and the
requests that get none they make up what was accepted (`Covered`).

**McpClientProofs.** `OwnAnswerHolds`. As long as nothing has mixed the answers
up (`Unmixed`) there is at most one call (`Single`), and whatever is in the queue
or still to be written answers it; so nothing is there when nobody waits, which
is why a queue that outlives its connection does no harm. The type invariant needs that a reader is gone
once the client is disconnected: otherwise a new connection would replace it in
the middle of a call.

**ToolRetrieverProofs.** `InStepHolds`, `VectorsMatchHolds`,
`ListedIsIndexedHolds`, and `LruRefined`: `Spec => LruSpec`. `Cached` relates list
and map entry by entry and says that a text is beside its own embedding, which
with what the threads hold (`ThreadsInv`) gives the vectors of the index
(`Matching`), for any number of versions of a description. The list has no more
entries than there is room for, and one where the maximum is 0 (`Room`). A listed
tool that is in no index is excused or still a job of some thread (`Pending`).
The refinement shows the abstract cache the list with the age of each entry, and
without its places, which are used again (`Shown`).

**DiscoveryProofs.** `TagsFindHolds`, `PairSharesHolds`,
`ReportsOnlyRegisteredHolds`, `RotatesEvenlyHolds`, of the specification of
`Parts`. The parts share no variable, so each has an invariant of its own and a
step of another part is a stutter. For the tags it is the property over all
agents instead of the listed ones (`RegistryInv`): what an eviction leaves in the
index must have been registered with other tags. For two endpoints each current
weight is its weight times the selections of the other (`Earned`), as long as
both products fit in an int (`Fits`): then no sum has wrapped (`WrappedSum`), and
the better endpoint differs from the other by what PairShares allows. Selections
only grow, so what does not fit never does again. For the services, `WalkInv`
says that the walk holds the mutex of the notes, and `NotesInv` that without a
race an answered registration is known to Consul, or was refused by it (`Known`),
until it is noted, and leaves only under an unregistration. The selections of a
streak are those at its last values of the index, which have different residues
as long as they are no more than the candidates (`OtherResidue`), and the list
they are taken from has no repetition.

**ObservabilityProofs.** `FilesKeepTailHolds`, of a log whose process may be
killed between any two steps and whose renames and opens may fail. What the loop
has taken is followed by what the queue holds, up to the last entry pushed
(`Queue`), so that an entry is due after the last one written and nothing in the
files is still to come (`Due`, `Ordered`, `Sorted`). A rotation keeps the last
entry and moves each file to where there is none (`Turning`), which leaves no gap
(`Gapless`); and half-way through it the files above the slot are one block
further than those below (`Shifting`), so that a rotation nobody tears ends with
the next blocks (`Exact`), by lemmas about quotients. `TalliedHolds`: bucket and
sum lack what the threads inside an observation have still to add, which is a
cardinality (`Lacks`); a reset that meets no observation has the histogram to
itself (`Alone`).

Only model-checked: the liveness properties (`ReceiveReturns`, `CancelReleases`,
`ListenDrains`, `OpenIsLeft`, `StopHeartbeatReturns`, `DisconnectReturns`,
`EntriesWritten`), since liveness under fairness and ENABLED are beyond the
prover. Recursive definitions over data would be beyond it too; the project has
none.

## 7. What is left out, and why

- Payloads, logging, metrics calls inside handlers, and the numbers that
  responses carry, unless a property is about them.
- `src/third_party`, `json.hpp` and the rest of the vendored code. gRPC, Redis
  and `std::condition_variable` are modelled by how the code uses them and are
  marked external in the map; of `httplib.h` the end of a chunked response is
  modelled, and mapped to its lines.
- GetAgents, which reads the agents under the mutex and changes nothing.
- A2A's model classes, JSON-RPC, the HTTP client, the message converter and the
  serializer: conversions field by field without state.
- The similarity of embeddings: floating-point arithmetic; so `retrieve` ends
  when the query's vector is there.
- The other balancers (round robin, random, least connections, consistent hash,
  response time), the in-memory registry and the caches and watchers of the
  Consul one, and summaries of metrics.
- MCPAgentIntegration's own retries and cache of results, the A2A adapter, and
  the start and stop of RpcServer.
- Duplicates: `service_register.cpp`, `metric.cpp`, `a2a/src/models`,
  `common/` are copies or older versions of what is modelled or planned.
- Undefined behaviour is modelled where a run meets it (`torn` in `RpcClient`).
  A function without its `return`, a dereferenced empty optional and a
  range-for that erases are on the list of hazards or in the component notes.

## 8. Plan

Modelled: the hub, its client, the task manager, the breaker, MCP server and
client, tool retrieval, and the six parts that call nothing of the system. What is left, in
order:

1. **Composition** of `RpcClient` with `AgentService`: an evicted client that is
   told its heartbeats succeed; RpcServer's start and stop.
2. The **adapter** of A2A over `TaskLifecycle`; the **other balancers** as
   operators; `RetryPolicy` with its bounded backoff.

## 9. Working with the project

    tlc -workers 2 -config McpServer_flow.cfg MCMcpServer
    tlapm TaskLifecycleProofs.tla

A change in the source shows in `PROJECT.json` "map": find the definitions whose
lines changed, bring them up to date, and run what uses them. "mutants" says
which broken definition each property has been seen to reject.
