---------------------------- MODULE ToolRetriever ----------------------------
(***************************************************************************)
(* Tool retrieval (rag/tool_retriever.cpp over rag/vector_index.cpp,       *)
(* rag/embedding_service.cpp and the cache of EmbeddingCache) as the agent *)
(* integration uses it (mcp_agent_integration.cpp): threads index tools,   *)
(* refresh the index and look for tools, each through an embedding that    *)
(* comes from the cache or from a remote API that may fail; the index is   *)
(* saved when the integration shuts down and loaded when it starts again.  *)
(*                                                                         *)
(* The text of a tool is its name and a version of its description, and    *)
(* the embedding of a text is the text itself.                             *)
(***************************************************************************)
EXTENDS EmbeddingCache

CONSTANTS
  Threads, Tools,
  Query, Nobody,
  Versions

ASSUME RetrieverAssumption ==
  /\ Query \notin Tools /\ Nobody \notin Threads
  /\ Versions \in Nat

VARIABLES
  tool_cache_,         \* the version each listed tool has, 0 for none
  tool_cache_mutex_,   \* its holder
  rag,                 \* "off", "starting", "on": rag_initialized_
  tools_,              \* the index: a version and a vector for each tool
  file,                \* the saved index
  at, jobs, vector,    \* where each thread is, the texts it has to embed, the last vector
  undefined,           \* something was freed under a thread that uses it
  excused              \* history: tools that may be missing from the index

integration == <<tool_cache_, tool_cache_mutex_, rag>>
threads     == <<at, jobs, vector>>
vars == <<cache, integration, tools_, file, threads, undefined, excused>>

Text(tool, version) == <<tool, version>>
None   == [version |-> 0, vector |-> <<>>]
Empty  == [x \in Tools |-> None]
Listed(list)  == {Text(x, list[x]) : x \in {y \in Tools : list[y] # 0}}
Indexed       == {x \in Tools : tools_[x].version # 0}

Excuse(texts) == excused' = excused \cup {x \in texts : x \in Tools /\ tool_cache_[x] # 0}

Init ==
  /\ CacheInit
  /\ tool_cache_ = [x \in Tools |-> 0] /\ tool_cache_mutex_ = Nobody /\ rag = "off"
  /\ tools_ = Empty /\ file = Empty
  /\ at = [t \in Threads |-> "idle"]
  /\ jobs = [t \in Threads |-> {}] /\ vector = [t \in Threads |-> <<>>]
  /\ undefined = FALSE /\ excused = {}

-----------------------------------------------------------------------------
(* Life of the integration                                                 *)

StartJobs(t, texts) ==
  /\ jobs' = [jobs EXCEPT ![t] = texts]
  /\ at' = [at EXCEPT ![t] = IF texts = {} THEN "idle" ELSE "next"]
  /\ UNCHANGED vector

\* The manager lists what the server has told it, if anything; the saved index
\* is loaded, tools it holds that are no longer listed included, and the
\* listed ones are indexed under tool_cache_mutex_.
initialize(t) ==
  /\ rag = "off"
  /\ tool_cache_' \in [Tools -> 0..Versions]
  /\ tools_' = file
  /\ StartJobs(t, Listed(tool_cache_'))
  /\ IF Listed(tool_cache_') = {} THEN rag' = "on" /\ UNCHANGED tool_cache_mutex_
     ELSE rag' = "starting" /\ tool_cache_mutex_' = t
  /\ excused' = {}
  /\ UNCHANGED <<cache, file, undefined>>

Stopped ==
  /\ rag' = "off"
  /\ tool_cache_' = [x \in Tools |-> 0] /\ tool_cache_mutex_' = Nobody
  /\ tools_' = Empty
  /\ clear
  /\ at' = [t \in Threads |-> "idle"]
  /\ jobs' = [t \in Threads |-> {}] /\ vector' = [t \in Threads |-> <<>>]
  /\ excused' = {}

\* The index is saved and freed, whoever uses it.
shutdown ==
  /\ rag = "on"
  /\ Stopped
  /\ file' = tools_
  /\ undefined' = \E t \in Threads : at[t] # "idle"

\* The process ends: what was not saved is lost, and a file that was being
\* written does not parse.
Killed ==
  /\ rag # "off"
  /\ Stopped
  /\ file' \in {file} \cup (IF rag = "on" THEN {Empty} ELSE {})
  /\ UNCHANGED undefined

-----------------------------------------------------------------------------
(* Operations                                                              *)

\* MCPAgentIntegration::refreshTools: the manager's list is not fetched again.
refreshTools(t) ==
  /\ rag = "on" /\ at[t] = "idle" /\ tool_cache_mutex_ = Nobody
  /\ Listed(tool_cache_) # {}
  /\ tool_cache_mutex_' = t
  /\ StartJobs(t, Listed(tool_cache_))
  /\ UNCHANGED <<cache, tool_cache_, rag, tools_, file, undefined, excused>>

\* addTool of a tool whose description may have changed.
addTool(t) ==
  /\ rag = "on" /\ at[t] = "idle"
  /\ \E x \in Tools, v \in 1..Versions : StartJobs(t, {Text(x, v)})
  /\ UNCHANGED <<cache, integration, tools_, file, undefined, excused>>

removeTool(t) ==
  /\ rag = "on" /\ at[t] = "idle"
  /\ \E x \in Indexed : tools_' = [tools_ EXCEPT ![x] = None] /\ Excuse({x})
  /\ UNCHANGED <<cache, integration, file, threads, undefined>>

\* refreshIndex takes a copy and clears the index, in two steps.
CopyIndex(t) ==
  /\ rag = "on" /\ at[t] = "idle"
  /\ at' = [at EXCEPT ![t] = "clearing"]
  /\ jobs' = [jobs EXCEPT ![t] = {Text(x, tools_[x].version) : x \in Indexed}]
  /\ UNCHANGED <<cache, integration, tools_, file, vector, undefined, excused>>

\* Tools that were added since the copy are lost with the rest.
ClearIndex(t) ==
  /\ at[t] = "clearing"
  /\ StartJobs(t, jobs[t])
  /\ tools_' = Empty
  /\ Excuse({x \in Indexed : \A v \in 1..Versions : Text(x, v) \notin jobs[t]})
  /\ UNCHANGED <<cache, integration, file, undefined>>

\* getRelevantTools
retrieve(t) ==
  /\ rag = "on" /\ at[t] = "idle" /\ Indexed # {}
  /\ StartJobs(t, {Text(Query, 0)})
  /\ UNCHANGED <<cache, integration, tools_, file, undefined, excused>>

-----------------------------------------------------------------------------
(* getEmbedding, and what becomes of the vector                            *)

\* When the last text is done indexTools returns, and with it the lock.
Done(t, rest) ==
  /\ jobs' = [jobs EXCEPT ![t] = rest]
  /\ at' = [at EXCEPT ![t] = IF rest = {} THEN "idle" ELSE "next"]
  /\ vector' = [vector EXCEPT ![t] = <<>>]
  /\ IF rest = {} /\ tool_cache_mutex_ = t
     THEN tool_cache_mutex_' = Nobody /\ rag' = "on"
     ELSE UNCHANGED <<tool_cache_mutex_, rag>>

LookUp(t) ==
  /\ at[t] = "next"
  /\ \E text \in jobs[t] :
       /\ get(text)
       /\ IF Hit(text)
          THEN /\ at' = [at EXCEPT ![t] = "adding"]
               /\ vector' = [vector EXCEPT ![t] = <<text, Entry(text).value>>]
          ELSE /\ at' = [at EXCEPT ![t] = "asking"]
               /\ vector' = [vector EXCEPT ![t] = <<text>>]
  /\ UNCHANGED <<integration, tools_, file, jobs, undefined, excused>>

\* Mutant: the answer goes through a member all threads share.
Embedded_Shared(t) ==
  /\ at[t] = "asking"
  /\ at' = [at EXCEPT ![t] = "putting"]
  /\ vector' = [u \in Threads |->
       IF u = t \/ at[u] = "putting" THEN <<vector[u][1], vector[t][1]>> ELSE vector[u]]
  /\ UNCHANGED <<cache, integration, tools_, file, jobs, undefined, excused>>

Embedded(t) ==
  /\ at[t] = "asking"
  /\ at' = [at EXCEPT ![t] = "putting"]
  /\ vector' = [vector EXCEPT ![t] = <<vector[t][1], vector[t][1]>>]
  /\ UNCHANGED <<cache, integration, tools_, file, jobs, undefined, excused>>

\* Mutant: the exception ends the loop over the tools.
EmbeddingFails_Escapes(t) ==
  /\ at[t] = "asking"
  /\ Done(t, {})
  /\ Excuse({vector[t][1][1]})
  /\ UNCHANGED <<cache, tool_cache_, tools_, file, undefined>>

\* All attempts have failed: the tool is skipped, the query finds nothing.
EmbeddingFails(t) ==
  /\ at[t] = "asking"
  /\ Done(t, jobs[t] \ {vector[t][1]})
  /\ Excuse({vector[t][1][1]})
  /\ UNCHANGED <<cache, tool_cache_, tools_, file, undefined>>

PutInCache(t) ==
  /\ at[t] = "putting"
  /\ put(vector[t][1], vector[t][2])
  /\ at' = [at EXCEPT ![t] = "adding"]
  /\ UNCHANGED <<integration, tools_, file, jobs, vector, undefined, excused>>

\* The index takes the tool under its mutex; a query only reads it.
AddToIndex(t) ==
  /\ at[t] = "adding"
  /\ LET text == vector[t][1]
     IN  /\ tools_' = IF text[1] \notin Tools THEN tools_
                      ELSE [tools_ EXCEPT ![text[1]] = [version |-> text[2], vector |-> vector[t][2]]]
         /\ Done(t, jobs[t] \ {text})
         /\ excused' = excused \ {text[1]}
  /\ UNCHANGED <<cache, tool_cache_, file, undefined>>

-----------------------------------------------------------------------------
Next ==
  /\ ~undefined
  /\ \/ shutdown \/ Killed
     \/ SecondPasses /\ UNCHANGED <<integration, tools_, file, threads, undefined, excused>>
     \/ \E t \in Threads :
          \/ initialize(t) \/ refreshTools(t) \/ addTool(t) \/ removeTool(t)
          \/ CopyIndex(t) \/ ClearIndex(t) \/ retrieve(t)
          \/ LookUp(t) \/ Embedded(t) \/ EmbeddingFails(t) \/ PutInCache(t) \/ AddToIndex(t)

Spec == Init /\ [][Next]_vars

-----------------------------------------------------------------------------
(* Properties                                                              *)

\* Every vector in the index is the embedding of the description it stands
\* beside, whichever threads race for the cache and the index, and whatever
\* the cache has kept of earlier descriptions.
VectorsMatch ==
  \A x \in Indexed : tools_[x].vector = Text(x, tools_[x].version)

\* After a start that found the saved index, an old one, or none, and whatever
\* refreshes, failures and races follow, a listed tool is missing from the
\* index only while somebody indexes, or if it was removed, its embedding
\* failed, or it was added behind the back of a refresh.
ListedIsIndexed ==
  rag = "on" /\ (\A t \in Threads : at[t] = "idle") =>
    \A x \in Tools : tool_cache_[x] # 0 => x \in Indexed \cup excused

\* The cache is a least-recently-used cache.
Texts == {Text(x, v) : x \in Tools, v \in 1..Versions} \cup {Text(Query, 0)}

Visible(e) == [key |-> e.key, value |-> e.value, age |-> e.age]

LRU == INSTANCE Lru WITH
  Keys     <- Texts,
  Values   <- Texts,
  Capacity <- max_size,
  Lifetime <- ttl_seconds,
  recent   <- [i \in DOMAIN cache_list_ |-> Visible(cache_list_[i])]

LruSpec == LRU!Spec

=============================================================================
