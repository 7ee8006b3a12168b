--------------------------- MODULE EmbeddingCache ---------------------------
(***************************************************************************)
(* The cache of embeddings (rag/embedding_cache.cpp): a list of entries,   *)
(* the last used first, and a map from texts to places in the list, in     *)
(* step under one mutex.  Each operation is one step of whoever calls it.  *)
(* Places are numbered and used again; the counters of hits, misses and    *)
(* evictions are left out.                                                 *)
(***************************************************************************)
EXTENDS Naturals, Sequences, SequencesExt

CONSTANTS max_size, ttl_seconds

ASSUME CacheAssumption == max_size \in Nat /\ ttl_seconds \in Nat

VARIABLES
  cache_list_,   \* of [place, key, value, age], the age counted up to ttl_seconds
  cache_map_     \* the place of each text that is cached

cache == <<cache_list_, cache_map_>>

CacheInit == cache_list_ = <<>> /\ cache_map_ = <<>>

Places(list)  == {list[i].place : i \in DOMAIN list}
Entries       == {cache_list_[i] : i \in DOMAIN cache_list_}
Index(text)   == CHOOSE i \in DOMAIN cache_list_ : cache_list_[i].place = cache_map_[text]
Entry(text)   == cache_list_[Index(text)]
Erase(text)   == RemoveAt(cache_list_, Index(text))
Forget(texts) == [t \in DOMAIN cache_map_ \ texts |-> cache_map_[t]]

isExpired(entry) == ttl_seconds # 0 /\ entry.age >= ttl_seconds

\* What get finds.
Hit(text) == text \in DOMAIN cache_map_ /\ ~isExpired(Entry(text))

\* The entry of a text that is cached, as it is now, becomes the first.
moveToFront(text, entry) == cache_list_' = <<entry>> \o Erase(text)

get(text) ==
  IF text \notin DOMAIN cache_map_ THEN UNCHANGED cache
  ELSE IF Hit(text) THEN moveToFront(text, Entry(text)) /\ UNCHANGED cache_map_
  ELSE cache_list_' = Erase(text) /\ cache_map_' = Forget({text})

\* Mutant: the entry that makes room is the one just used.
Kept_DropsFirst ==
  IF Len(cache_list_) < max_size THEN cache_list_
  ELSE SubSeq(cache_list_, Len(cache_list_) - (IF max_size = 0 THEN 0 ELSE max_size - 1) + 1,
              Len(cache_list_))

\* evictLRU until there is room for one entry more, or there is no entry.
Kept ==
  IF Len(cache_list_) < max_size THEN cache_list_
  ELSE SubSeq(cache_list_, 1, IF max_size = 0 THEN 0 ELSE max_size - 1)

New(place, text, value) == [place |-> place, key |-> text, value |-> value, age |-> 0]

Map(text, place, others) ==
  cache_map_' = [t \in {text} \cup others |-> IF t = text THEN place ELSE cache_map_[t]]

\* Mutant: what is evicted stays in the map.
put_KeepsMapping(text, value) ==
  LET place == CHOOSE p \in 1..(max_size + 1) : p \notin Places(Kept)
  IN  /\ cache_list_' = <<New(place, text, value)>> \o Kept
      /\ Map(text, place, DOMAIN cache_map_)

put(text, value) ==
  IF text \in DOMAIN cache_map_
  THEN /\ moveToFront(text, New(cache_map_[text], text, value))
       /\ UNCHANGED cache_map_
  ELSE LET place   == CHOOSE p \in 1..(max_size + 1) : p \notin Places(Kept)
           evicted == {e.key : e \in {f \in Entries : f.place \notin Places(Kept)}}
       IN  /\ cache_list_' = <<New(place, text, value)>> \o Kept
           /\ Map(text, place, DOMAIN cache_map_ \ evicted)

clear == cache_list_' = <<>> /\ cache_map_' = <<>>

\* Each entry grows older from its own created_at.
Older(entry) == [entry EXCEPT !.age = IF @ < ttl_seconds THEN @ + 1 ELSE @]

SecondPasses ==
  /\ cache_list_' = [i \in DOMAIN cache_list_ |-> Older(cache_list_[i])]
  /\ UNCHANGED cache_map_

\* The list and the map hold the same entries, each once and where the map
\* says, however evictions, expiries and updates follow one another; and never
\* more than the maximum, except that one is held where the maximum is zero.
InStep ==
  /\ \A i \in DOMAIN cache_list_ :
       /\ cache_list_[i].key \in DOMAIN cache_map_
       /\ cache_map_[cache_list_[i].key] = cache_list_[i].place
  /\ \A t \in DOMAIN cache_map_ : \E i \in DOMAIN cache_list_ : cache_list_[i].key = t
  /\ \A i, j \in DOMAIN cache_list_ : cache_list_[i].place = cache_list_[j].place => i = j
  /\ Len(cache_list_) <= (IF max_size = 0 THEN 1 ELSE max_size)

=============================================================================
