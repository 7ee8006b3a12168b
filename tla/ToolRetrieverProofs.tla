------------------------- MODULE ToolRetrieverProofs -------------------------
(***************************************************************************)
(* What TLAPS proves of the retrieval of tools and of its cache, for any   *)
(* threads, tools, versions of them and size of the cache: the list and    *)
(* the map stay in step, every vector is that of its description, a listed *)
(* tool is indexed or excused, and the cache implements the abstract one.  *)
(***************************************************************************)
EXTENDS ToolRetriever, SequenceTheorems, FiniteSetTheorems, TLAPS

EntryType == [place : Nat, key : Texts, value : Texts, age : Nat]

-----------------------------------------------------------------------------
(* Sequences                                                               *)

LEMMA RemoveAtProperties ==
  ASSUME NEW S, NEW s \in Seq(S), NEW i \in 1..Len(s)
  PROVE  /\ RemoveAt(s, i) \in Seq(S)
         /\ Len(RemoveAt(s, i)) = Len(s) - 1
         /\ \A j \in 1..Len(s)-1 : RemoveAt(s, i)[j] = IF j < i THEN s[j] ELSE s[j + 1]
<1> DEFINE a == SubSeq(s, 1, i - 1)
           b == SubSeq(s, i + 1, Len(s))
<1>1. Len(s) \in Nat /\ \A j \in 1..Len(s) : s[j] \in S
  BY LenProperties, ElementOfSeq
<1>2. a \in Seq(S) /\ Len(a) = i - 1 /\ \A j \in 1..i-1 : a[j] = s[j]
  BY <1>1, SubSeqProperties
<1>3. b \in Seq(S) /\ Len(b) = Len(s) - i /\ \A j \in 1..Len(s)-i : b[j] = s[j + i]
  BY <1>1, SubSeqProperties
<1> HIDE DEF a, b
<1>4. /\ a \o b \in Seq(S) /\ Len(a \o b) = Len(s) - 1
      /\ \A j \in 1..Len(s)-1 : (a \o b)[j] = IF j <= i - 1 THEN a[j] ELSE b[j - (i - 1)]
  <2>1. a \o b \in Seq(S) /\ Len(a \o b) = Len(a) + Len(b)
    BY <1>2, <1>3, ConcatProperties
  <2>2. \A j \in 1..Len(a) + Len(b) : (a \o b)[j] = IF j <= Len(a) THEN a[j] ELSE b[j - Len(a)]
    BY <1>2, <1>3, ConcatProperties
  <2>3. Len(a) + Len(b) = Len(s) - 1
    BY <1>1, <1>2, <1>3
  <2> QED BY <1>2, <2>1, <2>2, <2>3
<1>5. ASSUME NEW j \in 1..Len(s)-1 PROVE (a \o b)[j] = IF j < i THEN s[j] ELSE s[j + 1]
  <2>1. CASE j < i
    BY <1>1, <1>2, <1>4, <2>1
  <2>2. CASE ~(j < i)
    <3>1. j - (i - 1) \in 1..Len(s)-i /\ (j - (i - 1)) + i = j + 1
      BY <1>1, <2>2
    <3> QED BY <1>1, <1>3, <1>4, <2>2, <3>1
  <2> QED BY <2>1, <2>2
<1> QED BY <1>4, <1>5 DEF RemoveAt, a, b

LEMMA ConsProperties ==
  ASSUME NEW S, NEW s \in Seq(S), NEW e \in S
  PROVE  /\ <<e>> \o s \in Seq(S) /\ Len(<<e>> \o s) = Len(s) + 1
         /\ (<<e>> \o s)[1] = e
         /\ \A j \in 1..Len(s) : (<<e>> \o s)[j + 1] = s[j]
         /\ \A j \in 2..Len(s)+1 : (<<e>> \o s)[j] = s[j - 1]
<1>1. <<e>> \in Seq(S) /\ Len(<<e>>) = 1 /\ <<e>>[1] = e /\ Len(s) \in Nat
  BY LenProperties
<1> QED BY <1>1, ConcatProperties

-----------------------------------------------------------------------------
(* The cache                                                               *)

\* The list and the map have the same entries, and a text is beside its own
\* embedding.
Cached(list, map) ==
  /\ list \in Seq(EntryType)
  /\ \A i \in 1..Len(list) :
       /\ list[i].key \in DOMAIN map
       /\ map[list[i].key] = list[i].place
       /\ list[i].value = list[i].key
  /\ \A t \in DOMAIN map : \E i \in 1..Len(list) : list[i].key = t
  /\ \A i, j \in 1..Len(list) : list[i].place = list[j].place => i = j

Room == IF max_size = 0 THEN 1 ELSE max_size

CacheInv ==
  /\ Cached(cache_list_, cache_map_)
  /\ Len(cache_list_) <= Room

LEMMA CacheInStep ==
  ASSUME CacheInv
  PROVE  InStep
<1>1. DOMAIN cache_list_ = 1..Len(cache_list_)
  BY LenProperties DEF CacheInv, Cached
<1> QED BY <1>1 DEF CacheInv, Cached, InStep, Room

LEMMA CachedEntry ==
  ASSUME NEW list, NEW map, Cached(list, map), NEW i \in 1..Len(list)
  PROVE  /\ list[i] \in EntryType /\ list[i].place \in Nat /\ list[i].key \in Texts
         /\ DOMAIN list = 1..Len(list) /\ Len(list) \in Nat
<1>1. list[i] \in EntryType /\ DOMAIN list = 1..Len(list) /\ Len(list) \in Nat
  BY LenProperties, ElementOfSeq DEF Cached
<1> QED BY <1>1 DEF EntryType

\* The iterator that the map has for a text leads to its entry.
LEMMA IndexOfText ==
  ASSUME CacheInv, NEW text \in DOMAIN cache_map_
  PROVE  /\ Index(text) \in 1..Len(cache_list_)
         /\ Entry(text) = cache_list_[Index(text)] /\ Entry(text) \in EntryType
         /\ Entry(text).key = text /\ Entry(text).value = text
         /\ Entry(text).place = cache_map_[text]
<1>1. PICK i \in 1..Len(cache_list_) : cache_list_[i].key = text
  BY DEF CacheInv, Cached
<1>2. cache_list_[i].place = cache_map_[text] /\ DOMAIN cache_list_ = 1..Len(cache_list_)
  BY <1>1, CachedEntry DEF CacheInv, Cached
<1>3. Index(text) \in 1..Len(cache_list_) /\ cache_list_[Index(text)].place = cache_map_[text]
  BY <1>2 DEF Index
<1>4. Index(text) = i
  BY <1>2, <1>3 DEF CacheInv, Cached
<1> QED BY <1>1, <1>2, <1>4, CachedEntry DEF Entry, CacheInv, Cached

\* Moving the entry of a text to the front, with its own embedding, keeps the
\* list and the map in step.
LEMMA MoveToFrontKeeps ==
  ASSUME CacheInv, NEW text \in DOMAIN cache_map_, NEW entry \in EntryType,
         entry.key = text, entry.value = text, entry.place = cache_map_[text],
         moveToFront(text, entry), cache_map_' = cache_map_
  PROVE  /\ Cached(cache_list_, cache_map_)'
         /\ Places(cache_list_)' = Places(cache_list_)
         /\ Len(cache_list_') = Len(cache_list_)
<1> DEFINE i == Index(text)
           list == cache_list_'
<1>1. /\ i \in 1..Len(cache_list_) /\ cache_list_[i].key = text
      /\ cache_list_[i].place = cache_map_[text]
  BY IndexOfText
<1>2. Len(cache_list_) \in Nat /\ cache_list_ \in Seq(EntryType)
      /\ DOMAIN cache_list_ = 1..Len(cache_list_)
  BY LenProperties DEF CacheInv, Cached
<1>3. /\ list \in Seq(EntryType) /\ Len(list) = Len(cache_list_) /\ list[1] = entry
      /\ \A j \in 2..Len(cache_list_) : j <= i => list[j] = cache_list_[j - 1]
      /\ \A j \in 2..Len(cache_list_) : ~(j <= i) => list[j] = cache_list_[j]
  <2> DEFINE r == RemoveAt(cache_list_, i)
  <2>1. list = <<entry>> \o r
    BY DEF moveToFront, Erase
  <2>2. /\ r \in Seq(EntryType) /\ Len(r) = Len(cache_list_) - 1
        /\ \A j \in 1..Len(cache_list_)-1 : r[j] = IF j < i THEN cache_list_[j] ELSE cache_list_[j + 1]
    <3> HIDE DEF i
    <3> QED BY <1>1, <1>2, RemoveAtProperties
  <2> HIDE DEF list, i, r
  <2>3. /\ list \in Seq(EntryType) /\ Len(list) = Len(r) + 1 /\ list[1] = entry
        /\ \A j \in 2..Len(r)+1 : list[j] = r[j - 1]
    BY <2>1, <2>2, ConsProperties
  <2>4. ASSUME NEW j \in 2..Len(cache_list_)
        PROVE  list[j] = IF j <= i THEN cache_list_[j - 1] ELSE cache_list_[j]
    <3>1. j - 1 \in 1..Len(cache_list_)-1 /\ (j - 1) + 1 = j /\ (j - 1 < i <=> j <= i)
          /\ j \in 2..Len(r)+1
      <4>1. Len(cache_list_) \in Nat /\ i \in Int
        BY <1>1, <1>2
      <4> QED BY <2>2, <4>1
    <3> QED BY <2>2, <2>3, <3>1
  <2>5. Len(list) = Len(cache_list_)
    BY <1>2, <2>2, <2>3
  <2> QED BY <2>3, <2>4, <2>5
<1>4. DOMAIN list = 1..Len(list)
  BY <1>3, LenProperties
<1> HIDE DEF i, list
<1>5. \A j \in 1..Len(list) : \E k \in 1..Len(cache_list_) :
        /\ list[j].place = cache_list_[k].place /\ list[j].key = cache_list_[k].key
        /\ list[j].value = list[j].key
        /\ k = IF j = 1 THEN i ELSE IF j <= i THEN j - 1 ELSE j
  <2> SUFFICES ASSUME NEW j \in 1..Len(list)
               PROVE \E k \in 1..Len(cache_list_) :
        /\ list[j].place = cache_list_[k].place /\ list[j].key = cache_list_[k].key
        /\ list[j].value = list[j].key
        /\ k = IF j = 1 THEN i ELSE IF j <= i THEN j - 1 ELSE j
    OBVIOUS
  <2>1. CASE j = 1
    BY <1>1, <1>3, <2>1
  <2>2. CASE j # 1 /\ j <= i
    <3>1. j - 1 \in 1..Len(cache_list_) /\ list[j] = cache_list_[j - 1]
      BY <1>1, <1>2, <1>3, <2>2
    <3> QED BY <2>2, <3>1 DEF CacheInv, Cached
  <2>3. CASE j # 1 /\ ~(j <= i)
    <3>1. j \in 1..Len(cache_list_) /\ list[j] = cache_list_[j]
      BY <1>1, <1>2, <1>3, <2>3
    <3> QED BY <2>3, <3>1 DEF CacheInv, Cached
  <2> QED BY <2>1, <2>2, <2>3
<1>6. \A k \in 1..Len(cache_list_) : \E j \in 1..Len(list) :
        list[j].place = cache_list_[k].place /\ list[j].key = cache_list_[k].key
  <2> SUFFICES ASSUME NEW k \in 1..Len(cache_list_)
               PROVE \E j \in 1..Len(list) :
        list[j].place = cache_list_[k].place /\ list[j].key = cache_list_[k].key
    OBVIOUS
  <2>1. CASE k = i
    BY <1>1, <1>2, <1>3, <2>1
  <2>2. CASE k < i
    <3>1. k + 1 \in 2..Len(cache_list_) /\ list[k + 1] = cache_list_[k]
      BY <1>1, <1>2, <1>3, <2>2
    <3> QED BY <1>2, <1>3, <3>1
  <2>3. CASE k > i
    <3>1. k \in 2..Len(cache_list_) /\ list[k] = cache_list_[k]
      BY <1>1, <1>2, <1>3, <2>3
    <3> QED BY <1>2, <1>3, <3>1
  <2> QED BY <1>1, <1>2, <2>1, <2>2, <2>3
<1>7. Places(list) = Places(cache_list_)
  <2>1. ASSUME NEW j \in 1..Len(list) PROVE list[j].place \in Places(cache_list_)
    <3>1. PICK k \in 1..Len(cache_list_) : list[j].place = cache_list_[k].place
      BY <1>5
    <3> QED BY <1>2, <3>1 DEF Places
  <2>2. ASSUME NEW k \in 1..Len(cache_list_) PROVE cache_list_[k].place \in Places(list)
    <3>1. PICK j \in 1..Len(list) : list[j].place = cache_list_[k].place
      BY <1>6
    <3> QED BY <1>4, <3>1 DEF Places
  <2> QED BY <1>2, <1>4, <2>1, <2>2 DEF Places
<1>8. \A j, k \in 1..Len(list) : list[j].place = list[k].place => j = k
  <2> SUFFICES ASSUME NEW j \in 1..Len(list), NEW k \in 1..Len(list),
                      list[j].place = list[k].place
               PROVE  j = k
    OBVIOUS
  <2> DEFINE old(n) == IF n = 1 THEN i ELSE IF n <= i THEN n - 1 ELSE n
  <2>1. /\ old(j) \in 1..Len(cache_list_) /\ list[j].place = cache_list_[old(j)].place
        /\ old(k) \in 1..Len(cache_list_) /\ list[k].place = cache_list_[old(k)].place
    BY <1>5
  <2> HIDE DEF old
  <2>2. old(j) = old(k)
    BY <2>1 DEF CacheInv, Cached
  <2> USE DEF old
  <2> QED BY <1>1, <1>2, <1>3, <2>2
<1>9. \A j \in 1..Len(list) : list[j].key \in DOMAIN cache_map_ /\ list[j].value = list[j].key
                              /\ cache_map_[list[j].key] = list[j].place
  <2> SUFFICES ASSUME NEW j \in 1..Len(list)
               PROVE  list[j].key \in DOMAIN cache_map_ /\ list[j].value = list[j].key
                      /\ cache_map_[list[j].key] = list[j].place
    OBVIOUS
  <2>1. PICK k \in 1..Len(cache_list_) :
          /\ list[j].place = cache_list_[k].place /\ list[j].key = cache_list_[k].key
          /\ list[j].value = list[j].key
    BY <1>5
  <2> QED BY <2>1 DEF CacheInv, Cached
<1>10. \A t \in DOMAIN cache_map_ : \E j \in 1..Len(list) : list[j].key = t
  <2> SUFFICES ASSUME NEW t \in DOMAIN cache_map_
               PROVE  \E j \in 1..Len(list) : list[j].key = t
    OBVIOUS
  <2>1. PICK k \in 1..Len(cache_list_) : cache_list_[k].key = t
    BY DEF CacheInv, Cached
  <2> QED BY <1>6, <2>1
<1>11. Cached(list, cache_map_)
  BY <1>3, <1>8, <1>9, <1>10 DEF Cached
<1> QED BY <1>3, <1>7, <1>11 DEF list, Cached, Places

\* What get does to the cache when the text is there but too old.
LEMMA EraseKeeps ==
  ASSUME CacheInv, NEW text \in DOMAIN cache_map_, cache_list_' = Erase(text),
         cache_map_' = Forget({text})
  PROVE  CacheInv'
<1> DEFINE i == Index(text)
           list == cache_list_'
<1>1. /\ i \in 1..Len(cache_list_) /\ cache_list_[i].key = text
      /\ cache_list_[i].place = cache_map_[text]
  BY IndexOfText
<1>2. Len(cache_list_) \in Nat /\ cache_list_ \in Seq(EntryType)
      /\ DOMAIN cache_list_ = 1..Len(cache_list_)
  BY LenProperties DEF CacheInv, Cached
<1>3. /\ list \in Seq(EntryType) /\ Len(list) = Len(cache_list_) - 1
      /\ \A j \in 1..Len(cache_list_)-1 : j < i => list[j] = cache_list_[j]
      /\ \A j \in 1..Len(cache_list_)-1 : ~(j < i) => list[j] = cache_list_[j + 1]
  <2>1. list = RemoveAt(cache_list_, i)
    BY DEF Erase
  <2> HIDE DEF list, i
  <2> QED BY <1>1, <1>2, <2>1, RemoveAtProperties
<1>4. DOMAIN list = 1..Len(list)
  BY <1>3, LenProperties
<1>5. DOMAIN cache_map_' = DOMAIN cache_map_ \ {text}
      /\ \A t \in DOMAIN cache_map_ \ {text} : cache_map_'[t] = cache_map_[t]
  BY DEF Forget
<1> HIDE DEF i, list
<1>6. ASSUME NEW j \in 1..Len(list)
      PROVE  LET k == IF j < i THEN j ELSE j + 1
             IN  k \in 1..Len(cache_list_) /\ k # i /\ list[j] = cache_list_[k]
  BY <1>1, <1>2, <1>3
<1>7. ASSUME NEW k \in 1..Len(cache_list_), k # i
      PROVE  \E j \in 1..Len(list) : list[j] = cache_list_[k]
  <2>1. CASE k < i
    BY <1>1, <1>2, <1>3, <2>1
  <2>2. CASE ~(k < i)
    <3>1. k - 1 \in 1..Len(list) /\ ~(k - 1 < i) /\ (k - 1) + 1 = k
      BY <1>1, <1>2, <1>3, <1>7, <2>2
    <3> QED BY <1>3, <3>1
  <2> QED BY <2>1, <2>2
<1>8. ASSUME NEW k \in 1..Len(cache_list_), cache_list_[k].key = text
      PROVE  k = i
  <2>1. cache_map_[cache_list_[k].key] = cache_list_[k].place
    BY DEF CacheInv, Cached
  <2>2. cache_list_[k].place = cache_list_[i].place
    BY <1>1, <1>8, <2>1
  <2> HIDE DEF i
  <2> QED BY <1>1, <2>2 DEF CacheInv, Cached
<1>9. ASSUME NEW j \in 1..Len(list)
      PROVE  /\ list[j].key \in DOMAIN cache_map_' /\ list[j].value = list[j].key
             /\ cache_map_'[list[j].key] = list[j].place
  <2>1. PICK k \in 1..Len(cache_list_) : k # i /\ list[j] = cache_list_[k]
    BY <1>6
  <2>2. /\ cache_list_[k].key \in DOMAIN cache_map_ /\ cache_list_[k].value = cache_list_[k].key
        /\ cache_map_[cache_list_[k].key] = cache_list_[k].place
    BY DEF CacheInv, Cached
  <2> QED BY <1>5, <1>8, <2>1, <2>2
<1>10. ASSUME NEW t \in DOMAIN cache_map_' PROVE \E j \in 1..Len(list) : list[j].key = t
  <2>1. PICK k \in 1..Len(cache_list_) : cache_list_[k].key = t
    BY <1>5 DEF CacheInv, Cached
  <2>2. k # i
    BY <1>1, <1>5, <2>1
  <2> QED BY <1>7, <2>1, <2>2
<1>11. ASSUME NEW j \in 1..Len(list), NEW k \in 1..Len(list), list[j].place = list[k].place
       PROVE  j = k
  <2> DEFINE old(n) == IF n < i THEN n ELSE n + 1
  <2>1. /\ old(j) \in 1..Len(cache_list_) /\ list[j].place = cache_list_[old(j)].place
        /\ old(k) \in 1..Len(cache_list_) /\ list[k].place = cache_list_[old(k)].place
    BY <1>6
  <2> HIDE DEF old
  <2>2. old(j) = old(k)
    BY <1>11, <2>1 DEF CacheInv, Cached
  <2> USE DEF old
  <2> QED BY <1>1, <1>2, <1>3, <2>2
<1>12. Cached(list, cache_map_')
  BY <1>3, <1>9, <1>10, <1>11 DEF Cached
<1>14. Len(list) <= Room
  BY <1>2, <1>3, CacheAssumption DEF CacheInv, Room
<1> QED BY <1>12, <1>14 DEF CacheInv, Cached, Places, list

\* The entries that evictLRU leaves are the first ones, and leave a place.
LEMMA KeptProperties ==
  ASSUME CacheInv
  PROVE  /\ Kept \in Seq(EntryType) /\ DOMAIN Kept = 1..Len(Kept) /\ Len(Kept) \in Nat
         /\ Len(Kept) <= Len(cache_list_) /\ Len(Kept) + 1 <= Room
         /\ \A i \in 1..Len(Kept) : Kept[i] = cache_list_[i]
<1>1. Len(cache_list_) \in Nat /\ cache_list_ \in Seq(EntryType)
      /\ \A i \in 1..Len(cache_list_) : cache_list_[i] \in EntryType
  BY LenProperties, ElementOfSeq DEF CacheInv, Cached
<1>2. CASE Len(cache_list_) < max_size
  BY <1>1, <1>2, LenProperties, CacheAssumption DEF Kept, Room
<1>3. CASE ~(Len(cache_list_) < max_size)
  <2> DEFINE n == IF max_size = 0 THEN 0 ELSE max_size - 1
  <2>1. n \in Nat /\ n <= Len(cache_list_) /\ n + 1 <= Room
    BY <1>1, <1>3, CacheAssumption DEF Room
  <2>2. Kept = SubSeq(cache_list_, 1, n)
    BY <1>3 DEF Kept
  <2> HIDE DEF n
  <2>3. /\ Kept \in Seq(EntryType) /\ Len(Kept) = n
        /\ \A i \in 1..n : Kept[i] = cache_list_[i]
    BY <1>1, <2>1, <2>2, SubSeqProperties
  <2> QED BY <2>1, <2>3, LenProperties
<1> QED BY <1>2, <1>3

\* There are more places than entries that are kept.
LEMMA PlaceExists ==
  ASSUME CacheInv
  PROVE  \E p \in 1..(max_size + 1) : p \notin Places(Kept)
<1> DEFINE Kpt == Kept
<1>1. DOMAIN Kpt = 1..Len(Kpt) /\ Len(Kpt) \in Nat /\ Len(Kpt) <= max_size
  BY KeptProperties, CacheAssumption DEF Room
<1> HIDE DEF Kpt
<1>2. SUFFICES ASSUME \A p \in 1..(max_size + 1) : \E i \in 1..Len(Kpt) : Kpt[i].place = p
               PROVE  FALSE
  BY <1>1 DEF Places, Kpt
<1> DEFINE f == [p \in 1..(max_size + 1) |-> CHOOSE i \in 1..Len(Kpt) : Kpt[i].place = p]
<1>3. \A p \in 1..(max_size + 1) : f[p] \in 1..Len(Kpt) /\ Kpt[f[p]].place = p
  BY <1>2
<1>4. f \in [1..(max_size + 1) -> 1..Len(Kpt)]
  BY <1>3
<1> HIDE DEF f
<1>5. /\ IsFiniteSet(1..(max_size + 1)) /\ Cardinality(1..(max_size + 1)) = max_size + 1
      /\ IsFiniteSet(1..Len(Kpt)) /\ Cardinality(1..Len(Kpt)) = Len(Kpt)
  <2>1. 1 \in Int /\ max_size + 1 \in Int /\ Len(Kpt) \in Int /\ max_size + 1 >= 1
    BY <1>1, CacheAssumption
  <2>2. IsFiniteSet(1..(max_size + 1)) /\ IsFiniteSet(1..Len(Kpt))
    BY <2>1, FS_Interval
  <2>3. Cardinality(1..(max_size + 1)) = max_size + 1
    BY <2>1, FS_Interval
  <2>4. Cardinality(1..Len(Kpt)) = Len(Kpt)
    <3>1. Cardinality(1..Len(Kpt)) = IF 1 > Len(Kpt) THEN 0 ELSE Len(Kpt) - 1 + 1
      BY <2>1, FS_Interval
    <3> QED BY <1>1, <3>1
  <2> QED BY <2>2, <2>3, <2>4
<1>6. \E p, q \in 1..(max_size + 1) : p # q /\ f[p] = f[q]
  <2>1. Cardinality(1..Len(Kpt)) < Cardinality(1..(max_size + 1))
    BY <1>1, <1>5, CacheAssumption
  <2> QED BY <1>4, <1>5, <2>1, FS_PigeonHole
<1> QED BY <1>3, <1>6

\* A text that was not cached takes the first place of the list, and evicts
\* what has no room beside it.
LEMMA InsertKeeps ==
  ASSUME CacheInv, NEW text \in Texts, text \notin DOMAIN cache_map_, put(text, text)
  PROVE  CacheInv'
<1> DEFINE place   == CHOOSE p \in 1..(max_size + 1) : p \notin Places(Kept)
           evicted == {e.key : e \in {f \in Entries : f.place \notin Places(Kept)}}
           entry   == New(place, text, text)
           list    == cache_list_'
           map     == cache_map_'
<1>1. /\ list = <<entry>> \o Kept
      /\ Map(text, place, DOMAIN cache_map_ \ evicted)
  BY DEF put
<1>2. place \in Nat /\ place \notin Places(Kept)
  <2>1. place \in 1..(max_size + 1) /\ place \notin Places(Kept)
    BY PlaceExists
  <2> QED BY <2>1
<1>3. entry \in EntryType /\ entry.place = place /\ entry.key = text /\ entry.value = text
  BY <1>2 DEF EntryType, New
<1>4. /\ DOMAIN map = {text} \cup (DOMAIN cache_map_ \ evicted)
      /\ map[text] = place
      /\ \A t \in DOMAIN cache_map_ \ evicted : map[t] = cache_map_[t]
  BY <1>1 DEF Map
<1> HIDE DEF place, entry, list, map
<1>5. /\ list \in Seq(EntryType) /\ Len(list) = Len(Kept) + 1 /\ DOMAIN list = 1..Len(list)
      /\ list[1] = entry /\ Len(Kept) \in Nat
      /\ \A j \in 2..Len(list) : list[j] = Kept[j - 1] /\ j - 1 \in 1..Len(Kept)
  <2>1. Kept \in Seq(EntryType) /\ Len(Kept) \in Nat
    BY KeptProperties
  <2>2. /\ list \in Seq(EntryType) /\ Len(list) = Len(Kept) + 1 /\ list[1] = entry
        /\ \A j \in 2..Len(Kept)+1 : list[j] = Kept[j - 1]
    BY <1>1, <1>3, <2>1, ConsProperties
  <2> QED BY <2>1, <2>2, LenProperties
<1>6. \A i \in 1..Len(Kept) : i \in 1..Len(cache_list_) /\ Kept[i] = cache_list_[i]
                              /\ Kept[i].place \in Places(Kept)
  BY KeptProperties, LenProperties DEF CacheInv, Cached, Places
<1>7. ASSUME NEW i \in 1..Len(cache_list_)
      PROVE  cache_list_[i].key \in evicted <=> cache_list_[i].place \notin Places(Kept)
  <2>1. DOMAIN cache_list_ = 1..Len(cache_list_)
    BY LenProperties DEF CacheInv, Cached
  <2>2. ASSUME NEW j \in 1..Len(cache_list_), cache_list_[j].key = cache_list_[i].key
        PROVE  cache_list_[j].place = cache_list_[i].place
    BY <2>2 DEF CacheInv, Cached
  <2> QED BY <2>1, <2>2 DEF Entries
<1> HIDE DEF evicted
<1>8. ASSUME NEW j \in 2..Len(list)
      PROVE  /\ list[j] = cache_list_[j - 1] /\ j - 1 \in 1..Len(cache_list_)
             /\ list[j].key \in DOMAIN cache_map_ \ evicted
             /\ cache_map_[list[j].key] = list[j].place /\ list[j].value = list[j].key
             /\ list[j].place \in Places(Kept)
  <2>1. /\ list[j] = cache_list_[j - 1] /\ j - 1 \in 1..Len(cache_list_)
        /\ list[j].place \in Places(Kept)
    BY <1>5, <1>6
  <2>2. list[j].key \notin evicted
    BY <1>7, <2>1
  <2> QED BY <2>1, <2>2 DEF CacheInv, Cached
<1>9. \A j \in 1..Len(list) : j = 1 \/ j \in 2..Len(list)
  BY <1>5
<1>10. ASSUME NEW j \in 1..Len(list)
       PROVE  /\ list[j].key \in DOMAIN map /\ list[j].value = list[j].key
              /\ map[list[j].key] = list[j].place
  <2>1. CASE j = 1
    BY <1>3, <1>4, <1>5, <2>1
  <2>2. CASE j \in 2..Len(list)
    BY <1>4, <1>8, <2>2
  <2> QED BY <1>9, <2>1, <2>2
<1>11. ASSUME NEW t \in DOMAIN map PROVE \E j \in 1..Len(list) : list[j].key = t
  <2>1. CASE t = text
    BY <1>3, <1>5, <2>1
  <2>2. CASE t \in DOMAIN cache_map_ \ evicted
    <3>1. PICK i \in 1..Len(cache_list_) : cache_list_[i].key = t
      BY <2>2 DEF CacheInv, Cached
    <3>2. cache_list_[i].place \in Places(Kept)
      BY <1>7, <2>2, <3>1
    <3>3. PICK k \in 1..Len(Kept) : Kept[k].place = cache_list_[i].place
      BY <3>2, KeptProperties DEF Places
    <3>4. k = i
      BY <1>6, <3>3 DEF CacheInv, Cached
    <3>5. i + 1 \in 2..Len(list) /\ (i + 1) - 1 = i
      BY <1>5, <3>3, <3>4
    <3>6. list[i + 1].key = t
      BY <1>8, <3>1, <3>5
    <3> QED BY <1>5, <3>5, <3>6
  <2> QED BY <1>4, <2>1, <2>2
<1>12. ASSUME NEW j \in 1..Len(list), NEW k \in 1..Len(list), list[j].place = list[k].place
       PROVE  j = k
  <2>1. list[1].place \notin Places(Kept)
    BY <1>2, <1>3, <1>5
  <2>2. CASE j = 1 \/ k = 1
    BY <1>8, <1>9, <1>12, <2>1, <2>2
  <2>3. CASE j \in 2..Len(list) /\ k \in 2..Len(list)
    <3>1. /\ cache_list_[j - 1].place = cache_list_[k - 1].place
          /\ j - 1 \in 1..Len(cache_list_) /\ k - 1 \in 1..Len(cache_list_)
      BY <1>8, <1>12, <2>3
    <3>2. j - 1 = k - 1
      BY <3>1 DEF CacheInv, Cached
    <3> QED BY <1>5, <3>2
  <2> QED BY <1>9, <2>2, <2>3
<1>13. Cached(list, map)
  BY <1>5, <1>10, <1>11, <1>12 DEF Cached
<1>15. Len(list) <= Room
  BY <1>5, KeptProperties
<1> QED BY <1>13, <1>15 DEF CacheInv, Cached, Places, list, map

LEMMA PutKeeps ==
  ASSUME CacheInv, NEW text \in Texts, put(text, text)
  PROVE  CacheInv'
<1>1. CASE text \notin DOMAIN cache_map_
  BY <1>1, InsertKeeps
<1>2. CASE text \in DOMAIN cache_map_
  <2> DEFINE entry == New(cache_map_[text], text, text)
  <2>1. moveToFront(text, entry) /\ cache_map_' = cache_map_
    BY <1>2 DEF put
  <2>2. cache_map_[text] \in Nat
    BY <1>2, IndexOfText DEF EntryType
  <2>3. /\ entry \in EntryType /\ entry.key = text /\ entry.value = text
        /\ entry.place = cache_map_[text]
    BY <2>2 DEF EntryType, New
  <2> HIDE DEF entry
  <2>4. /\ Cached(cache_list_, cache_map_)' /\ Places(cache_list_)' = Places(cache_list_)
        /\ Len(cache_list_') = Len(cache_list_)
    BY <1>2, <2>1, <2>3, MoveToFrontKeeps
  <2> QED BY <2>1, <2>4 DEF CacheInv
<1> QED BY <1>1, <1>2

LEMMA GetKeeps ==
  ASSUME CacheInv, NEW text, get(text)
  PROVE  CacheInv'
<1>1. CASE text \notin DOMAIN cache_map_
  BY <1>1 DEF get, cache, CacheInv
<1>2. CASE text \in DOMAIN cache_map_ /\ Hit(text)
  <2>1. moveToFront(text, Entry(text)) /\ UNCHANGED cache_map_
    BY <1>2 DEF get
  <2>2. /\ Entry(text) \in EntryType /\ Entry(text).key = text /\ Entry(text).value = text
        /\ Entry(text).place = cache_map_[text]
    BY <1>2, IndexOfText
  <2>3. /\ Cached(cache_list_, cache_map_)' /\ Places(cache_list_)' = Places(cache_list_)
        /\ Len(cache_list_') = Len(cache_list_)
    BY <1>2, <2>1, <2>2, MoveToFrontKeeps
  <2> QED BY <2>1, <2>3 DEF CacheInv
<1>3. CASE text \in DOMAIN cache_map_ /\ ~Hit(text)
  BY <1>3, EraseKeeps DEF get
<1> QED BY <1>1, <1>2, <1>3

LEMMA ClearKeeps ==
  ASSUME clear
  PROVE  CacheInv'
<1>1. cache_list_' = <<>> /\ cache_map_' = <<>>
  BY DEF clear
<1>2. Len(<<>>) = 0 /\ DOMAIN <<>> = {} /\ <<>> \in Seq(EntryType)
  OBVIOUS
<1>3. 0 <= Room
  BY CacheAssumption DEF Room
<1> QED BY <1>1, <1>2, <1>3 DEF CacheInv, Cached

-----------------------------------------------------------------------------
(* The index and the threads                                               *)

Slots == [version : 0..Versions, vector : Texts \cup {<<>>}]

\* An index, in memory or saved, holds the embeddings of its descriptions.
Matching(index) ==
  /\ index \in [Tools -> Slots]
  /\ \A x \in Tools : index[x].version # 0 => index[x].vector = Text(x, index[x].version)

Locations == {"idle", "clearing", "next", "asking", "putting", "adding"}

\* A vector that a thread holds is that of the text it asked for.
ThreadsInv ==
  /\ at \in [Threads -> Locations] /\ jobs \in [Threads -> SUBSET Texts]
  /\ DOMAIN vector = Threads
  /\ \A t \in Threads :
       /\ at[t] = "idle" => jobs[t] = {}
       /\ at[t] \in {"asking", "putting", "adding"} => vector[t][1] \in Texts
       /\ at[t] \in {"putting", "adding"} => vector[t][2] = vector[t][1]

IndexInv ==
  /\ tool_cache_ \in [Tools -> 0..Versions]
  /\ Matching(tools_) /\ Matching(file)

\* A listed tool is in the index, excused, or still to be embedded by a thread.
Pending == {x \in Tools : \E t \in Threads : \E v \in 1..Versions : Text(x, v) \in jobs[t]}

ListedInv == \A x \in Tools : tool_cache_[x] # 0 => x \in Indexed \cup excused \cup Pending

Inv == CacheInv /\ ThreadsInv /\ IndexInv /\ ListedInv

LEMMA TextProperties ==
  /\ \A text \in Texts :
       /\ text[1] \in Tools => text[2] \in 1..Versions /\ text = Text(text[1], text[2])
       /\ text[1] \notin Tools => text = Text(Query, 0)
  /\ \A x, v : Text(x, v)[1] = x /\ Text(x, v)[2] = v
  /\ \A x \in Tools : \A v \in 1..Versions : Text(x, v) \in Texts
  /\ Text(Query, 0) \in Texts
<1>1. \A x, v : Text(x, v)[1] = x /\ Text(x, v)[2] = v
  BY DEF Text
<1>2. ASSUME NEW text \in Texts
      PROVE  /\ text[1] \in Tools => text[2] \in 1..Versions /\ text = Text(text[1], text[2])
             /\ text[1] \notin Tools => text = Text(Query, 0)
  <2>1. CASE text = Text(Query, 0)
    BY <1>1, <2>1, RetrieverAssumption
  <2>2. ASSUME NEW x \in Tools, NEW v \in 1..Versions, text = Text(x, v)
        PROVE  text[1] \in Tools /\ text[2] \in 1..Versions /\ text = Text(text[1], text[2])
    BY <1>1, <2>2
  <2> QED BY <2>1, <2>2 DEF Texts
<1> QED BY <1>1, <1>2 DEF Texts

LEMMA ListedTexts ==
  ASSUME NEW list \in [Tools -> 0..Versions]
  PROVE  /\ Listed(list) \subseteq Texts
         /\ \A x \in Tools : list[x] # 0 =>
              list[x] \in 1..Versions /\ Text(x, list[x]) \in Listed(list)
<1>1. \A x \in Tools : list[x] # 0 => list[x] \in 1..Versions
  BY RetrieverAssumption
<1> QED BY <1>1, TextProperties DEF Listed

\* A thread that takes on texts, and has none left undone.
LEMMA StartKeepsThreads ==
  ASSUME ThreadsInv, NEW t \in Threads, NEW texts \in SUBSET Texts, StartJobs(t, texts)
  PROVE  ThreadsInv' /\ jobs'[t] = texts /\ \A u \in Threads : u # t => jobs'[u] = jobs[u]
BY DEF ThreadsInv, StartJobs, Locations

LEMMA DoneKeepsThreads ==
  ASSUME ThreadsInv, NEW t \in Threads, NEW rest \in SUBSET Texts, Done(t, rest)
  PROVE  ThreadsInv' /\ jobs'[t] = rest /\ \A u \in Threads : u # t => jobs'[u] = jobs[u]
<1>1. /\ jobs' = [jobs EXCEPT ![t] = rest]
      /\ at' = [at EXCEPT ![t] = IF rest = {} THEN "idle" ELSE "next"]
      /\ vector' = [vector EXCEPT ![t] = <<>>]
  BY DEF Done
<1> QED BY <1>1 DEF ThreadsInv, Locations

\* Where a thread goes on with the jobs it has.
LEMMA MoveKeepsThreads ==
  ASSUME ThreadsInv, NEW t \in Threads, at[t] # "idle",
         NEW l \in {"asking", "putting", "adding"}, NEW text \in Texts, NEW v,
         at' = [at EXCEPT ![t] = l], vector' = [vector EXCEPT ![t] = v], jobs' = jobs,
         v[1] = text, l # "asking" => v[2] = text
  PROVE  ThreadsInv'
BY DEF ThreadsInv, Locations

-----------------------------------------------------------------------------
(* Every step preserves the invariant                                      *)

LEMMA LifeStep ==
  ASSUME Inv, (\E t \in Threads : initialize(t)) \/ shutdown \/ Killed
  PROVE  Inv'
<1>1. ASSUME NEW t \in Threads, initialize(t) PROVE Inv'
  <2>1. /\ tool_cache_' \in [Tools -> 0..Versions] /\ tools_' = file /\ UNCHANGED <<cache, file>>
        /\ StartJobs(t, Listed(tool_cache_'))
    BY <1>1 DEF initialize
  <2>2. /\ Listed(tool_cache_') \subseteq Texts
        /\ \A x \in Tools : tool_cache_'[x] # 0 =>
             tool_cache_'[x] \in 1..Versions /\ Text(x, tool_cache_'[x]) \in Listed(tool_cache_')
    BY <2>1, ListedTexts
  <2>3. ThreadsInv' /\ jobs'[t] = Listed(tool_cache_')
    BY <2>1, <2>2, StartKeepsThreads DEF Inv
  <2>4. ListedInv'
    BY <2>2, <2>3 DEF ListedInv, Pending
  <2>5. CacheInv'
    BY <2>1 DEF cache, CacheInv, Cached, Inv, Places
  <2> QED BY <2>1, <2>3, <2>4, <2>5 DEF Inv, IndexInv
<1>2. ASSUME Stopped, file' \in {file, tools_, Empty} PROVE Inv'
  <2>1. CacheInv'
    BY <1>2, ClearKeeps DEF Stopped
  <2>2. ThreadsInv'
    BY <1>2 DEF Stopped, ThreadsInv, Locations
  <2>3. Matching(Empty)
    BY RetrieverAssumption DEF Matching, Empty, None, Slots
  <2>4. tool_cache_' = [x \in Tools |-> 0] /\ tools_' = Empty
    BY <1>2 DEF Stopped
  <2>5. IndexInv'
    BY <1>2, <2>3, <2>4, RetrieverAssumption DEF Inv, IndexInv
  <2> QED BY <2>1, <2>2, <2>4, <2>5 DEF Inv, ListedInv
<1>3. CASE shutdown
  BY <1>2, <1>3 DEF shutdown
<1>4. CASE Killed
  BY <1>2, <1>4 DEF Killed
<1> QED BY <1>1, <1>3, <1>4

LEMMA OlderEntry ==
  ASSUME NEW e \in EntryType
  PROVE  /\ Older(e) \in EntryType
         /\ Older(e).place = e.place /\ Older(e).key = e.key /\ Older(e).value = e.value
         /\ Older(e).age = IF e.age < ttl_seconds THEN e.age + 1 ELSE e.age
BY DEF Older, EntryType

LEMMA OlderList ==
  ASSUME NEW list \in Seq(EntryType)
  PROVE  LET old == [i \in DOMAIN list |-> Older(list[i])]
         IN  /\ old \in Seq(EntryType) /\ Len(old) = Len(list)
             /\ \A i \in 1..Len(list) : old[i] = Older(list[i]) /\ list[i] \in EntryType
<1>1. DOMAIN list = 1..Len(list) /\ Len(list) \in Nat
  BY LenProperties
<1>2. \A i \in 1..Len(list) : list[i] \in EntryType /\ Older(list[i]) \in EntryType
  BY ElementOfSeq, OlderEntry
<1> DEFINE old == [i \in DOMAIN list |-> Older(list[i])]
<1>3. old \in [1..Len(list) -> EntryType] /\ \A i \in 1..Len(list) : old[i] = Older(list[i])
  BY <1>1, <1>2
<1> HIDE DEF old
<1>4. old \in Seq(EntryType) /\ Len(old) = Len(list)
  BY <1>1, <1>3, SeqDef, LenProperties
<1> QED BY <1>2, <1>3, <1>4 DEF old

\* What is older is still where it was.
LEMMA AgesKeep ==
  ASSUME CacheInv, SecondPasses
  PROVE  CacheInv'
<1> DEFINE list == cache_list_'
<1>1. cache_list_ \in Seq(EntryType) /\ cache_map_' = cache_map_
  BY DEF CacheInv, Cached, SecondPasses
<1>2. /\ list \in Seq(EntryType) /\ Len(list) = Len(cache_list_)
      /\ \A i \in 1..Len(cache_list_) :
           list[i] = Older(cache_list_[i]) /\ cache_list_[i] \in EntryType
  BY <1>1, OlderList DEF SecondPasses
<1>3. \A i \in 1..Len(cache_list_) : /\ list[i].place = cache_list_[i].place
                                     /\ list[i].key = cache_list_[i].key
                                     /\ list[i].value = cache_list_[i].value
  BY <1>2, OlderEntry
<1> HIDE DEF list
<1>4. Cached(list, cache_map_)
  <2>1. \A i \in 1..Len(list) : /\ list[i].key \in DOMAIN cache_map_
                               /\ cache_map_[list[i].key] = list[i].place
                               /\ list[i].value = list[i].key
    BY <1>2, <1>3 DEF CacheInv, Cached
  <2>2. ASSUME NEW t \in DOMAIN cache_map_
        PROVE  \E i \in 1..Len(list) : list[i].key = t
    <3>1. PICK i \in 1..Len(cache_list_) : cache_list_[i].key = t
      BY DEF CacheInv, Cached
    <3> QED BY <3>1, <1>2, <1>3
  <2>3. \A i, j \in 1..Len(list) : list[i].place = list[j].place => i = j
    BY <1>2, <1>3 DEF CacheInv, Cached
  <2> QED BY <1>2, <2>1, <2>2, <2>3 DEF Cached
<1> QED BY <1>1, <1>2, <1>4 DEF CacheInv, Cached, list

LEMMA SameCache ==
  ASSUME CacheInv, UNCHANGED cache
  PROVE  CacheInv'
BY DEF cache, CacheInv, Cached, Places

LEMMA OperationStep ==
  ASSUME Inv, NEW t \in Threads,
         \/ refreshTools(t) \/ addTool(t) \/ removeTool(t)
         \/ CopyIndex(t) \/ ClearIndex(t) \/ retrieve(t)
  PROVE  Inv'
<1> USE DEF Inv
<1>1. ASSUME NEW texts \in SUBSET Texts, at[t] = "idle", StartJobs(t, texts),
             UNCHANGED <<cache, tool_cache_, tools_, file, excused>>
      PROVE  Inv'
  <2>1. ThreadsInv' /\ jobs'[t] = texts /\ \A u \in Threads : u # t => jobs'[u] = jobs[u]
    BY <1>1, StartKeepsThreads
  <2>2. jobs[t] = {}
    BY <1>1 DEF ThreadsInv
  <2>3. ListedInv'
    BY <1>1, <2>1, <2>2 DEF ListedInv, Pending, Indexed
  <2> QED BY <1>1, <2>1, <2>3, SameCache DEF IndexInv
<1>2. CASE refreshTools(t)
  <2>1. Listed(tool_cache_) \subseteq Texts
    BY ListedTexts DEF IndexInv
  <2> QED BY <1>1, <1>2, <2>1 DEF refreshTools
<1>3. CASE addTool(t)
  <2>1. \A x \in Tools : \A v \in 1..Versions : {Text(x, v)} \subseteq Texts
    BY TextProperties
  <2> QED BY <1>1, <1>3, <2>1 DEF addTool, integration
<1>4. CASE retrieve(t)
  <2>1. {Text(Query, 0)} \subseteq Texts
    BY TextProperties
  <2> QED BY <1>1, <1>4, <2>1 DEF retrieve, integration
<1>5. CASE removeTool(t)
  <2>1. PICK x \in Indexed : tools_' = [tools_ EXCEPT ![x] = None] /\ Excuse({x})
    BY <1>5 DEF removeTool
  <2>2. UNCHANGED <<cache, integration, file, threads>>
    BY <1>5 DEF removeTool
  <2>3. ThreadsInv'
    BY <2>2 DEF ThreadsInv, threads
  <2>4. Matching(tools_')
    BY <2>1, RetrieverAssumption DEF IndexInv, Matching, None, Slots, Indexed
  <2>5. \A y \in Tools : y # x => tools_'[y] = tools_[y]
    BY <2>1 DEF IndexInv, Matching
  <2>6. excused \subseteq excused' /\ (x \in Tools /\ tool_cache_[x] # 0 => x \in excused')
    BY <2>1 DEF Excuse
  <2>7. ListedInv'
    BY <2>2, <2>5, <2>6 DEF ListedInv, Pending, Indexed, integration, threads
  <2> QED BY <2>2, <2>3, <2>4, <2>7, SameCache DEF IndexInv, integration
<1>6. CASE CopyIndex(t)
  <2>1. /\ at[t] = "idle"
        /\ at' = [at EXCEPT ![t] = "clearing"]
        /\ jobs' = [jobs EXCEPT ![t] = {Text(x, tools_[x].version) : x \in Indexed}]
        /\ UNCHANGED <<cache, integration, tools_, file, vector, excused>>
    BY <1>6 DEF CopyIndex
  <2>2. ASSUME NEW x \in Indexed PROVE Text(x, tools_[x].version) \in Texts
    <3>1. x \in Tools /\ tools_[x] \in Slots /\ tools_[x].version # 0
      BY DEF Indexed, IndexInv, Matching
    <3>2. tools_[x].version \in 1..Versions
      BY <3>1, RetrieverAssumption DEF Slots
    <3> QED BY <3>1, <3>2, TextProperties
  <2>3. {Text(x, tools_[x].version) : x \in Indexed} \subseteq Texts
    BY <2>2
  <2>4. ThreadsInv'
    BY <2>1, <2>3 DEF ThreadsInv, Locations
  <2>5. ListedInv'
    BY <2>1 DEF ListedInv, Pending, Indexed, integration, ThreadsInv
  <2> QED BY <2>1, <2>4, <2>5, SameCache DEF IndexInv, integration
<1>7. CASE ClearIndex(t)
  <2>1. /\ StartJobs(t, jobs[t]) /\ tools_' = Empty
        /\ Excuse({x \in Indexed : \A v \in 1..Versions : Text(x, v) \notin jobs[t]})
        /\ UNCHANGED <<cache, integration, file>>
    BY <1>7 DEF ClearIndex
  <2>2. jobs[t] \in SUBSET Texts
    BY DEF ThreadsInv
  <2>3. ThreadsInv' /\ jobs'[t] = jobs[t] /\ \A u \in Threads : u # t => jobs'[u] = jobs[u]
    BY <2>1, <2>2, StartKeepsThreads
  <2>4. Matching(Empty)
    BY RetrieverAssumption DEF Matching, Empty, None, Slots
  <2>5. /\ excused \subseteq excused'
        /\ \A x \in Indexed : tool_cache_[x] # 0 /\ x \notin Pending => x \in excused'
    <3>1. \A x \in Indexed : x \in Tools
      BY DEF Indexed
    <3> QED BY <2>1, <3>1 DEF Excuse, Pending
  <2>6. Pending \subseteq Pending'
    BY <2>3 DEF Pending
  <2>7. ListedInv'
    BY <2>1, <2>5, <2>6 DEF ListedInv, integration
  <2> QED BY <2>1, <2>3, <2>4, <2>7, SameCache DEF IndexInv, integration
<1> QED BY <1>2, <1>3, <1>4, <1>5, <1>6, <1>7

LEMMA EmbeddingStep ==
  ASSUME Inv, NEW t \in Threads,
         LookUp(t) \/ Embedded(t) \/ EmbeddingFails(t) \/ PutInCache(t) \/ AddToIndex(t)
  PROVE  Inv'
<1> USE DEF Inv
<1>1. ASSUME UNCHANGED <<tool_cache_, tools_, file, jobs, excused>>, ThreadsInv', CacheInv' PROVE Inv'
  BY <1>1 DEF IndexInv, ListedInv, Pending, Indexed
<1>2. CASE LookUp(t)
  <2>1. PICK text \in jobs[t] :
          /\ get(text)
          /\ IF Hit(text)
             THEN /\ at' = [at EXCEPT ![t] = "adding"]
                  /\ vector' = [vector EXCEPT ![t] = <<text, Entry(text).value>>]
             ELSE /\ at' = [at EXCEPT ![t] = "asking"]
                  /\ vector' = [vector EXCEPT ![t] = <<text>>]
    BY <1>2 DEF LookUp
  <2>2. at[t] = "next" /\ UNCHANGED <<tool_cache_, tools_, file, jobs, excused>>
    BY <1>2 DEF LookUp, integration
  <2>3. text \in Texts
    BY DEF ThreadsInv
  <2>4. CASE Hit(text)
    <3>1. Entry(text).value = text
      BY <2>4, IndexOfText DEF Hit
    <3>2. ThreadsInv'
      <4> DEFINE v == <<text, text>>
      <4>1. v[1] = text /\ v[2] = text
        OBVIOUS
      <4>2. vector' = [vector EXCEPT ![t] = v] /\ at' = [at EXCEPT ![t] = "adding"]
        BY <2>1, <2>4, <3>1
      <4> HIDE DEF v
      <4> QED BY <2>2, <2>3, <4>1, <4>2, MoveKeepsThreads
    <3> QED BY <1>1, <2>1, <2>2, <3>2, GetKeeps
  <2>5. CASE ~Hit(text)
    <3>2. ThreadsInv'
      <4> DEFINE v == <<text>>
      <4>1. v[1] = text
        OBVIOUS
      <4>2. vector' = [vector EXCEPT ![t] = v] /\ at' = [at EXCEPT ![t] = "asking"]
        BY <2>1, <2>5
      <4> HIDE DEF v
      <4> QED BY <2>2, <2>3, <4>1, <4>2, MoveKeepsThreads
    <3> QED BY <1>1, <2>1, <2>2, <3>2, GetKeeps
  <2> QED BY <2>4, <2>5
<1>3. CASE Embedded(t)
  <2> DEFINE text == vector[t][1]
             v    == <<text, text>>
  <2>1. /\ at[t] = "asking" /\ at' = [at EXCEPT ![t] = "putting"]
        /\ vector' = [vector EXCEPT ![t] = v]
        /\ UNCHANGED <<cache, tool_cache_, tools_, file, jobs, excused>>
    BY <1>3 DEF Embedded, integration
  <2>2. text \in Texts
    BY <2>1 DEF ThreadsInv
  <2>3. v[1] = text /\ v[2] = text
    OBVIOUS
  <2> HIDE DEF text, v
  <2>4. ThreadsInv'
    BY <2>1, <2>2, <2>3, MoveKeepsThreads
  <2> QED BY <1>1, <2>1, <2>4, SameCache
<1>4. CASE EmbeddingFails(t)
  <2> DEFINE text == vector[t][1]
  <2>1. /\ at[t] = "asking" /\ Done(t, jobs[t] \ {text}) /\ Excuse({text[1]})
        /\ UNCHANGED <<cache, tool_cache_, tools_, file>>
    BY <1>4 DEF EmbeddingFails
  <2>2. text \in Texts /\ jobs[t] \ {text} \in SUBSET Texts
    BY <2>1 DEF ThreadsInv
  <2> HIDE DEF text
  <2>3. /\ ThreadsInv' /\ jobs'[t] = jobs[t] \ {text}
        /\ \A u \in Threads : u # t => jobs'[u] = jobs[u]
    BY <2>1, <2>2, DoneKeepsThreads
  <2>4. /\ excused \subseteq excused'
        /\ \A x \in Tools : \A v : text = Text(x, v) /\ tool_cache_[x] # 0 => x \in excused'
    BY <2>1, TextProperties DEF Excuse
  <2>5. ListedInv'
    BY <2>1, <2>3, <2>4 DEF ListedInv, Pending, Indexed
  <2> QED BY <2>1, <2>3, <2>5, SameCache DEF IndexInv
<1>5. CASE PutInCache(t)
  <2>1. /\ at[t] = "putting" /\ put(vector[t][1], vector[t][2])
        /\ at' = [at EXCEPT ![t] = "adding"]
        /\ UNCHANGED <<tool_cache_, tools_, file, jobs, vector, excused>>
    BY <1>5 DEF PutInCache, integration
  <2>2. vector[t][1] \in Texts /\ vector[t][2] = vector[t][1]
    BY <2>1 DEF ThreadsInv
  <2>3. ThreadsInv'
    BY <2>1, <2>2 DEF ThreadsInv, Locations
  <2>4. CacheInv'
    BY <2>1, <2>2, PutKeeps
  <2> QED BY <1>1, <2>1, <2>3, <2>4
<1>6. CASE AddToIndex(t)
  <2> DEFINE text == vector[t][1]
  <2>1. /\ at[t] = "adding"
        /\ tools_' = IF text[1] \notin Tools THEN tools_
                     ELSE [tools_ EXCEPT ![text[1]] = [version |-> text[2], vector |-> vector[t][2]]]
        /\ Done(t, jobs[t] \ {text})
        /\ excused' = excused \ {text[1]}
        /\ UNCHANGED <<cache, tool_cache_, file>>
    BY <1>6 DEF AddToIndex
  <2>2. text \in Texts /\ vector[t][2] = text /\ jobs[t] \ {text} \in SUBSET Texts
    BY <2>1 DEF ThreadsInv
  <2> HIDE DEF text
  <2>3. /\ ThreadsInv' /\ jobs'[t] = jobs[t] \ {text}
        /\ \A u \in Threads : u # t => jobs'[u] = jobs[u]
    BY <2>1, <2>2, DoneKeepsThreads
  <2>4. CASE text[1] \notin Tools
    <3>1. tools_' = tools_ /\ \A x \in Tools : \A v : Text(x, v) # text
      BY <2>1, <2>4, TextProperties
    <3>2. Pending \subseteq Pending'
      BY <2>3, <3>1 DEF Pending
    <3>3. \A x \in Tools : x \in excused => x \in excused'
      BY <2>1, <2>4
    <3>4. ListedInv'
      BY <2>1, <3>1, <3>2, <3>3 DEF ListedInv, Indexed
    <3> QED BY <2>1, <2>3, <3>1, <3>4, SameCache DEF IndexInv
  <2>5. CASE text[1] \in Tools
    <3> DEFINE x == text[1]
               slot == [version |-> text[2], vector |-> text]
    <3>1. x \in Tools /\ text[2] \in 1..Versions /\ text = Text(x, text[2])
      BY <2>2, <2>5, TextProperties
    <3>2. tools_' = [tools_ EXCEPT ![x] = slot] /\ excused' = excused \ {x}
      BY <2>1, <2>2, <2>5
    <3>3. slot \in Slots /\ slot.version # 0 /\ slot.version = text[2] /\ slot.vector = text
      BY <2>2, <3>1, RetrieverAssumption DEF Slots
    <3> HIDE DEF x, slot
    <3>4. tools_'[x] = slot /\ \A y \in Tools : y # x => tools_'[y] = tools_[y]
      BY <3>1, <3>2 DEF IndexInv, Matching
    <3>5. Matching(tools_')
      BY <3>1, <3>2, <3>3, <3>4 DEF IndexInv, Matching
    <3>6. \A y \in Tools : \A v : y # x => Text(y, v) # text
      BY <3>1, TextProperties
    <3>7. \A y \in Pending : y # x => y \in Pending'
      BY <2>3, <3>6 DEF Pending
    <3>8. x \in Indexed' /\ \A y \in Indexed : y # x => y \in Indexed'
      BY <3>1, <3>3, <3>4 DEF Indexed
    <3>9. ListedInv'
      BY <2>1, <3>2, <3>7, <3>8 DEF ListedInv
    <3> QED BY <2>1, <2>3, <3>5, <3>9, SameCache DEF IndexInv
  <2> QED BY <2>4, <2>5
<1> QED BY <1>2, <1>3, <1>4, <1>5, <1>6

-----------------------------------------------------------------------------
(* The invariants as theorems                                              *)

LEMMA InvInit ==
  ASSUME Init
  PROVE  Inv
<1>1. /\ CacheInit
      /\ tool_cache_ = [x \in Tools |-> 0] /\ tools_ = Empty /\ file = Empty
      /\ at = [t \in Threads |-> "idle"]
      /\ jobs = [t \in Threads |-> {}] /\ vector = [t \in Threads |-> <<>>]
  BY DEF Init
<1>2. CacheInv
  <2>1. Len(<<>>) = 0 /\ DOMAIN <<>> = {} /\ <<>> \in Seq(EntryType) /\ 0 <= Room
    BY CacheAssumption DEF Room
  <2> QED BY <1>1, <2>1 DEF CacheInit, CacheInv, Cached
<1>3. ThreadsInv
  BY <1>1 DEF ThreadsInv, Locations
<1>4. Matching(Empty)
  BY RetrieverAssumption DEF Matching, Empty, None, Slots
<1>5. IndexInv
  BY <1>1, <1>4, RetrieverAssumption DEF IndexInv
<1> QED BY <1>1, <1>2, <1>3, <1>5 DEF Inv, ListedInv

LEMMA InvStep ==
  ASSUME Inv, [Next]_vars
  PROVE  Inv'
<1>1. ASSUME UNCHANGED <<tool_cache_, tools_, file, threads, excused>>, CacheInv'
      PROVE  Inv'
  BY <1>1 DEF Inv, ThreadsInv, IndexInv, ListedInv, Pending, Indexed, threads
<1>2. CASE UNCHANGED vars
  BY <1>1, <1>2, SameCache DEF vars, integration, Inv
<1>3. CASE SecondPasses /\ UNCHANGED <<integration, tools_, file, threads, undefined, excused>>
  BY <1>1, <1>3, AgesKeep DEF integration, Inv
<1>4. CASE (\E t \in Threads : initialize(t)) \/ shutdown \/ Killed
  BY <1>4, LifeStep
<1>5. ASSUME NEW t \in Threads,
             \/ refreshTools(t) \/ addTool(t) \/ removeTool(t)
             \/ CopyIndex(t) \/ ClearIndex(t) \/ retrieve(t)
      PROVE  Inv'
  BY <1>5, OperationStep
<1>6. ASSUME NEW t \in Threads,
             LookUp(t) \/ Embedded(t) \/ EmbeddingFails(t) \/ PutInCache(t) \/ AddToIndex(t)
      PROVE  Inv'
  BY <1>6, EmbeddingStep
<1> QED BY <1>2, <1>3, <1>4, <1>5, <1>6 DEF Next

THEOREM InvHolds == Spec => []Inv
<1>1. Init => Inv
  BY InvInit
<1>2. Inv /\ [Next]_vars => Inv'
  BY InvStep
<1> QED BY <1>1, <1>2, PTL DEF Spec

\* The list and the map of the cache (embedding_cache.cpp) never disagree, for
\* any number of threads; and it holds max_size_ entries at most, or one when
\* that is 0: put evicts before it adds, and there is nothing to evict then.
THEOREM InStepHolds == Spec => []InStep
<1>1. Inv => InStep
  BY CacheInStep DEF Inv
<1> QED BY <1>1, InvHolds, PTL

\* Every vector of the index is the embedding of the description beside it:
\* what a thread carries from the cache or the API to the index
\* (tool_retriever.cpp) is that of the text it asked for.
THEOREM VectorsMatchHolds == Spec => []VectorsMatch
<1>1. Inv => VectorsMatch
  BY DEF Inv, IndexInv, Matching, VectorsMatch, Indexed
<1> QED BY <1>1, InvHolds, PTL

\* When nobody indexes, a listed tool is in the index or excused.
THEOREM ListedIsIndexedHolds == Spec => []ListedIsIndexed
<1>1. ASSUME Inv PROVE ListedIsIndexed
  <2>1. (\A t \in Threads : at[t] = "idle") => Pending = {}
    BY <1>1 DEF Inv, ThreadsInv, Pending
  <2> QED BY <1>1, <2>1 DEF Inv, ListedInv, ListedIsIndexed
<1> QED BY <1>1, InvHolds, PTL

-----------------------------------------------------------------------------
(* The cache is a least-recently-used cache                                *)

ShownType   == [key : Texts, value : Texts, age : Nat]
Shown(list) == [i \in DOMAIN list |-> Visible(list[i])]

LEMMA ShownProperties ==
  ASSUME NEW list \in Seq(EntryType)
  PROVE  /\ Shown(list) \in Seq(ShownType) /\ Len(Shown(list)) = Len(list) /\ Len(list) \in Nat
         /\ DOMAIN Shown(list) = 1..Len(list) /\ DOMAIN list = 1..Len(list)
         /\ \A i \in 1..Len(list) :
              /\ list[i] \in EntryType
              /\ Shown(list)[i] = Visible(list[i])
              /\ Shown(list)[i] \in ShownType
              /\ Shown(list)[i].key = list[i].key
<1>1. DOMAIN list = 1..Len(list) /\ Len(list) \in Nat
  BY LenProperties
<1>2. ASSUME NEW i \in 1..Len(list)
      PROVE  /\ list[i] \in EntryType
             /\ Shown(list)[i] = Visible(list[i])
             /\ Shown(list)[i] \in ShownType
             /\ Shown(list)[i].key = list[i].key
  <2>1. list[i] \in EntryType
    BY <1>1, ElementOfSeq
  <2>2. Shown(list)[i] = Visible(list[i])
    BY <1>1 DEF Shown
  <2>3. list[i].key \in Texts /\ list[i].value \in Texts /\ list[i].age \in Nat
    BY <2>1 DEF EntryType
  <2> QED BY <2>1, <2>2, <2>3 DEF ShownType, Visible
<1>3. Shown(list) \in [1..Len(list) -> ShownType]
  BY <1>1, <1>2 DEF Shown
<1>4. Shown(list) \in Seq(ShownType) /\ Len(Shown(list)) = Len(list)
  BY <1>1, <1>3, SeqDef, LenProperties
<1> QED BY <1>1, <1>2, <1>3, <1>4

LEMMA ShownRemoveAt ==
  ASSUME NEW list \in Seq(EntryType), NEW i \in 1..Len(list)
  PROVE  Shown(RemoveAt(list, i)) = RemoveAt(Shown(list), i)
<1> DEFINE rest == RemoveAt(list, i)
           shown == RemoveAt(Shown(list), i)
<1>1. /\ rest \in Seq(EntryType) /\ Len(rest) = Len(list) - 1
      /\ \A j \in 1..Len(list)-1 : rest[j] = IF j < i THEN list[j] ELSE list[j + 1]
  BY RemoveAtProperties
<1>2. Shown(list) \in Seq(ShownType) /\ Len(Shown(list)) = Len(list) /\ Len(list) \in Nat
  BY ShownProperties
<1>3. /\ shown \in Seq(ShownType) /\ Len(shown) = Len(list) - 1
      /\ \A j \in 1..Len(list)-1 : shown[j] = IF j < i THEN Shown(list)[j] ELSE Shown(list)[j + 1]
  BY <1>2, RemoveAtProperties
<1> HIDE DEF rest, shown
<1>4. Shown(rest) \in Seq(ShownType) /\ Len(Shown(rest)) = Len(rest)
  BY <1>1, ShownProperties
<1>5. ASSUME NEW j \in 1..Len(list)-1 PROVE Shown(rest)[j] = shown[j]
  <2>1. Shown(rest)[j] = Visible(rest[j])
    BY <1>1, ShownProperties
  <2>2. j \in 1..Len(list) /\ j + 1 \in 1..Len(list)
    BY <1>2
  <2>3. /\ Shown(list)[j] = Visible(list[j])
        /\ Shown(list)[j + 1] = Visible(list[j + 1])
    BY <2>2, ShownProperties
  <2>4. CASE j < i
    BY <1>1, <1>3, <2>1, <2>3, <2>4
  <2>5. CASE ~(j < i)
    BY <1>1, <1>3, <2>1, <2>3, <2>5
  <2> QED BY <2>4, <2>5
<1>6. Shown(rest) = shown
  BY <1>1, <1>3, <1>4, <1>5, SeqEqual
<1> QED BY <1>6 DEF rest, shown

LEMMA ShownCons ==
  ASSUME NEW list \in Seq(EntryType), NEW e \in EntryType
  PROVE  Shown(<<e>> \o list) = <<Visible(e)>> \o Shown(list)
<1> DEFINE all == <<e>> \o list
           one == Visible(e)
           shown == <<one>> \o Shown(list)
<1>1. /\ all \in Seq(EntryType) /\ Len(all) = Len(list) + 1 /\ all[1] = e
      /\ \A j \in 2..Len(list)+1 : all[j] = list[j - 1]
  BY ConsProperties
<1>2. Shown(list) \in Seq(ShownType) /\ Len(Shown(list)) = Len(list) /\ Len(list) \in Nat
  BY ShownProperties
<1>3. one \in ShownType
  BY DEF ShownType, EntryType, Visible
<1>4. one = Visible(e)
  OBVIOUS
<1> HIDE DEF one
<1>5. /\ shown \in Seq(ShownType) /\ Len(shown) = Len(list) + 1 /\ shown[1] = one
      /\ \A j \in 2..Len(list)+1 : shown[j] = Shown(list)[j - 1]
  BY <1>2, <1>3, ConsProperties
<1> HIDE DEF all, shown
<1>6. Shown(all) \in Seq(ShownType) /\ Len(Shown(all)) = Len(list) + 1
  BY <1>1, ShownProperties
<1>7. ASSUME NEW j \in 1..Len(list)+1 PROVE Shown(all)[j] = shown[j]
  <2>1. Shown(all)[j] = Visible(all[j])
    BY <1>1, ShownProperties
  <2>2. CASE j = 1
    BY <1>1, <1>4, <1>5, <2>1, <2>2
  <2>3. CASE j # 1
    <3>1. j \in 2..Len(list)+1 /\ j - 1 \in 1..Len(list)
      BY <1>2, <2>3
    <3>2. Shown(list)[j - 1] = Visible(list[j - 1])
      BY <3>1, ShownProperties
    <3> QED BY <1>1, <1>5, <2>1, <3>1, <3>2
  <2> QED BY <2>2, <2>3
<1>8. Shown(all) = shown
  BY <1>5, <1>6, <1>7, SeqEqual
<1> QED BY <1>8 DEF all, shown, one

LEMMA ShownSubSeq ==
  ASSUME NEW list \in Seq(EntryType), NEW n \in Nat, n <= Len(list)
  PROVE  Shown(SubSeq(list, 1, n)) = SubSeq(Shown(list), 1, n)
<1> DEFINE part == SubSeq(list, 1, n)
           shown == SubSeq(Shown(list), 1, n)
<1>1. Len(list) \in Nat /\ \A j \in 1..Len(list) : list[j] \in EntryType
  BY ShownProperties
<1>2. part \in Seq(EntryType) /\ Len(part) = n /\ \A j \in 1..n : part[j] = list[j]
  BY <1>1, SubSeqProperties
<1>3. /\ Shown(list) \in Seq(ShownType) /\ Len(Shown(list)) = Len(list)
      /\ \A j \in 1..Len(list) : Shown(list)[j] \in ShownType
  BY ShownProperties
<1>4. shown \in Seq(ShownType) /\ Len(shown) = n /\ \A j \in 1..n : shown[j] = Shown(list)[j]
  BY <1>1, <1>3, SubSeqProperties
<1> HIDE DEF part, shown
<1>5. Shown(part) \in Seq(ShownType) /\ Len(Shown(part)) = n
  BY <1>2, ShownProperties
<1>6. ASSUME NEW j \in 1..n PROVE Shown(part)[j] = shown[j]
  <2>1. Shown(part)[j] = Visible(part[j])
    BY <1>2, ShownProperties
  <2>2. Shown(list)[j] = Visible(list[j])
    BY <1>1, ShownProperties
  <2> QED BY <1>2, <1>4, <2>1, <2>2
<1>7. Shown(part) = shown
  BY <1>4, <1>5, <1>6, SeqEqual
<1> QED BY <1>7 DEF part, shown

\* The texts in the map are the keys of the list, each at its own place.
LEMMA HeldIsMapped ==
  ASSUME NEW list, NEW map, Cached(list, map)
  PROVE  {Shown(list)[i].key : i \in DOMAIN Shown(list)} = DOMAIN map
<1> DEFINE shown == Shown(list)
<1>1. /\ list \in Seq(EntryType)
      /\ \A i \in 1..Len(list) : list[i].key \in DOMAIN map
      /\ \A t \in DOMAIN map : \E i \in 1..Len(list) : list[i].key = t
  BY DEF Cached
<1>2. /\ DOMAIN shown = 1..Len(list)
      /\ \A i \in 1..Len(list) : shown[i].key = list[i].key
  BY <1>1, ShownProperties
<1> HIDE DEF shown
<1>3. \A k : k \in DOMAIN map <=> \E i \in DOMAIN shown : shown[i].key = k
  BY <1>1, <1>2
<1>4. {shown[i].key : i \in DOMAIN shown} = DOMAIN map
  BY <1>3
<1> QED BY <1>4 DEF shown

\* The operations of the least-recently-used cache, in the terms of this module.
LEMMA LruGet ==
  ASSUME NEW i \in DOMAIN Shown(cache_list_),
         Shown(cache_list_)' =
           (IF isExpired(Shown(cache_list_)[i]) THEN <<>> ELSE <<Shown(cache_list_)[i]>>)
             \o RemoveAt(Shown(cache_list_), i)
  PROVE  LRU!Next
<1>1. LRU!RemoveAt(Shown(cache_list_), i) = RemoveAt(Shown(cache_list_), i)
  BY DEF LRU!RemoveAt, RemoveAt
<1>2. LRU!Stale(Shown(cache_list_)[i]) <=> isExpired(Shown(cache_list_)[i])
  BY DEF LRU!Stale, isExpired
<1>3. LRU!Get(i)
  BY <1>1, <1>2 DEF LRU!Get, Shown
<1> QED BY <1>3 DEF LRU!Next, Shown

\* get moves the entry of the text to the front, or drops it if it is too old.
LEMMA GetRefines ==
  ASSUME CacheInv, NEW text \in Texts, get(text)
  PROVE  LRU!Next \/ UNCHANGED Shown(cache_list_)
<1> DEFINE i == Index(text)
           recent == Shown(cache_list_)
<1>1. CASE text \notin DOMAIN cache_map_
  BY <1>1 DEF get, cache, Shown
<1>2. ASSUME text \in DOMAIN cache_map_
      PROVE  /\ cache_list_ \in Seq(EntryType) /\ i \in 1..Len(cache_list_)
             /\ i \in DOMAIN recent
             /\ Entry(text) = cache_list_[i] /\ Entry(text) \in EntryType
             /\ recent[i] = Visible(Entry(text))
             /\ isExpired(recent[i]) <=> isExpired(Entry(text))
             /\ Erase(text) = RemoveAt(cache_list_, i)
             /\ RemoveAt(cache_list_, i) \in Seq(EntryType)
             /\ Shown(RemoveAt(cache_list_, i)) = RemoveAt(recent, i)
  <2>1. /\ i \in 1..Len(cache_list_) /\ Entry(text) = cache_list_[i] /\ Entry(text) \in EntryType
        /\ Entry(text).key = text
    BY <1>2, IndexOfText
  <2>2. cache_list_ \in Seq(EntryType)
    BY DEF CacheInv, Cached
  <2>3. i \in DOMAIN recent /\ recent[i] = Visible(Entry(text))
    BY <2>1, <2>2, ShownProperties
  <2>4. RemoveAt(cache_list_, i) \in Seq(EntryType)
    BY <2>1, <2>2, RemoveAtProperties
  <2>5. Shown(RemoveAt(cache_list_, i)) = RemoveAt(recent, i)
    BY <2>1, <2>2, ShownRemoveAt
  <2>6. isExpired(recent[i]) <=> isExpired(Entry(text))
    <3> HIDE DEF recent
    <3> QED BY <2>3 DEF isExpired, Visible
  <2> QED BY <2>1, <2>2, <2>3, <2>4, <2>5, <2>6 DEF Erase
<1>3. CASE text \in DOMAIN cache_map_ /\ Hit(text)
  <2>1. cache_list_' = <<Entry(text)>> \o Erase(text) /\ ~isExpired(Entry(text))
    BY <1>3 DEF get, moveToFront, Hit
  <2>2. Shown(cache_list_)' = <<recent[i]>> \o RemoveAt(recent, i)
    <3>1. Shown(cache_list_') = <<recent[i]>> \o RemoveAt(recent, i)
      BY <1>2, <1>3, <2>1, ShownCons
    <3> QED BY <3>1 DEF Shown
  <2> HIDE DEF i
  <2> QED BY <1>2, <1>3, <2>1, <2>2, LruGet
<1>4. CASE text \in DOMAIN cache_map_ /\ ~Hit(text)
  <2>1. cache_list_' = Erase(text) /\ isExpired(Entry(text))
    BY <1>4 DEF get, Hit
  <2>2. RemoveAt(recent, i) = <<>> \o RemoveAt(recent, i)
    <3>1. recent \in Seq(ShownType) /\ i \in 1..Len(recent)
      BY <1>2, <1>4, ShownProperties
    <3>2. RemoveAt(recent, i) \in Seq(ShownType)
      BY <3>1, RemoveAtProperties
    <3> QED BY <3>2, EmptySeq, ConcatEmptySeq
  <2>3. Shown(cache_list_)' = <<>> \o RemoveAt(recent, i)
    <3>1. Shown(cache_list_') = <<>> \o RemoveAt(recent, i)
      BY <1>2, <1>4, <2>1, <2>2
    <3> QED BY <3>1 DEF Shown
  <2> HIDE DEF i
  <2> QED BY <1>2, <1>4, <2>1, <2>3, LruGet
<1> QED BY <1>1, <1>3, <1>4

\* What a write shows: the entry, then the others.
Written(text) == [key |-> text, value |-> text, age |-> 0]

LEMMA LruPut ==
  ASSUME NEW text \in Texts, NEW rest \in Seq(ShownType),
         Shown(cache_list_)' = <<Written(text)>> \o rest,
         \/ \E i \in DOMAIN Shown(cache_list_) :
              Shown(cache_list_)[i].key = text /\ rest = RemoveAt(Shown(cache_list_), i)
         \/ /\ ~\E i \in DOMAIN Shown(cache_list_) : Shown(cache_list_)[i].key = text
            /\ rest = LRU!Most(Shown(cache_list_), IF max_size = 0 THEN 0 ELSE max_size - 1)
  PROVE  LRU!Next
<1> DEFINE new == Shown(cache_list_)'
<1>1. Written(text) \in ShownType /\ Written(text) \in [key : Texts, value : Texts, age : {0}]
      /\ Written(text).key = text
  BY DEF Written, ShownType
<1>2. /\ new \in Seq(ShownType) /\ Len(new) = Len(rest) + 1 /\ new[1] = Written(text)
      /\ \A j \in 1..Len(rest) : new[j + 1] = rest[j]
  BY <1>1, ConsProperties
<1>3. Len(rest) \in Nat
  BY LenProperties
<1> HIDE DEF new
<1>4. new # <<>> /\ Head(new) = Written(text)
  BY <1>2, <1>3
<1>5. Tail(new) = rest
  <2>1. /\ Tail(new) \in Seq(ShownType) /\ Len(Tail(new)) = Len(rest)
        /\ \A j \in 1..Len(rest) : Tail(new)[j] = new[j + 1]
    BY <1>2, <1>3, <1>4, HeadTailProperties
  <2> QED BY <1>2, <2>1, SeqEqual
<1>6. \A i : LRU!RemoveAt(Shown(cache_list_), i) = RemoveAt(Shown(cache_list_), i)
  BY DEF LRU!RemoveAt, RemoveAt
<1>7. text \in LRU!Held <=> \E i \in DOMAIN Shown(cache_list_) : Shown(cache_list_)[i].key = text
  BY DEF LRU!Held, Shown
<1>8. LRU!Put
  BY <1>1, <1>4, <1>5, <1>6, <1>7 DEF LRU!Put, Shown, new
<1> QED BY <1>8 DEF LRU!Next

\* What eviction keeps is what the least-recently-used cache keeps.
LEMMA KeptIsMost ==
  ASSUME CacheInv
  PROVE  Shown(Kept) = LRU!Most(Shown(cache_list_), IF max_size = 0 THEN 0 ELSE max_size - 1)
<1> DEFINE n == IF max_size = 0 THEN 0 ELSE max_size - 1
           m == IF Len(cache_list_) < n THEN Len(cache_list_) ELSE n
<1>1. cache_list_ \in Seq(EntryType)
  BY DEF CacheInv, Cached
<1>2. Len(cache_list_) \in Nat /\ Len(Shown(cache_list_)) = Len(cache_list_)
  BY <1>1, ShownProperties
<1>3. LRU!Most(Shown(cache_list_), n) = SubSeq(Shown(cache_list_), 1, m)
  BY <1>2 DEF LRU!Most
<1>4. n \in Nat /\ m \in Nat /\ m <= Len(cache_list_)
  BY <1>2, CacheAssumption
<1>5. CASE Len(cache_list_) < max_size
  <2>1. m = Len(cache_list_) /\ Kept = cache_list_
    BY <1>2, <1>5, CacheAssumption DEF Kept
  <2>2. SubSeq(Shown(cache_list_), 1, Len(cache_list_)) = Shown(cache_list_)
    <3>1. Shown(cache_list_) \in Seq(ShownType)
      BY <1>1, ShownProperties
    <3> DEFINE shown == Shown(cache_list_)
    <3> HIDE DEF shown
    <3>2. shown \in Seq(ShownType) /\ Len(shown) = Len(cache_list_) /\ Len(shown) \in Nat
      BY <1>2, <3>1 DEF shown
    <3>3. \A j \in 1..Len(shown) : shown[j] \in ShownType
      BY <3>2, ElementOfSeq
    <3>4. /\ SubSeq(shown, 1, Len(shown)) \in Seq(ShownType)
          /\ Len(SubSeq(shown, 1, Len(shown))) = Len(shown)
          /\ \A j \in 1..Len(shown) : SubSeq(shown, 1, Len(shown))[j] = shown[j]
      BY <3>2, <3>3, SubSeqProperties
    <3>5. SubSeq(shown, 1, Len(shown)) = shown
      BY <3>2, <3>4, SeqEqual
    <3> QED BY <3>2, <3>5 DEF shown
  <2> QED BY <1>3, <2>1, <2>2
<1>6. CASE ~(Len(cache_list_) < max_size)
  <2>1. m = n /\ Kept = SubSeq(cache_list_, 1, n)
    BY <1>2, <1>6, CacheAssumption DEF Kept
  <2> QED BY <1>1, <1>3, <1>4, <2>1, ShownSubSeq
<1> QED BY <1>5, <1>6

\* put of a text that is cached moves its entry to the front with the new
\* value; put of one that is not makes room for it.
LEMMA PutRefines ==
  ASSUME CacheInv, NEW text \in Texts, put(text, text)
  PROVE  LRU!Next
<1> DEFINE recent == Shown(cache_list_)
<1>1. cache_list_ \in Seq(EntryType)
  BY DEF CacheInv, Cached
<1>2. ASSUME NEW place \in Nat
      PROVE  New(place, text, text) \in EntryType /\ Visible(New(place, text, text)) = Written(text)
  BY DEF New, EntryType, Visible, Written
<1>3. CASE text \in DOMAIN cache_map_
  <2> DEFINE i == Index(text)
             entry == New(cache_map_[text], text, text)
  <2>1. cache_list_' = <<entry>> \o RemoveAt(cache_list_, i)
    BY <1>3 DEF put, moveToFront, Erase
  <2>2. i \in 1..Len(cache_list_) /\ cache_list_[i].key = text /\ cache_map_[text] \in Nat
    BY <1>3, IndexOfText DEF EntryType
  <2>3. entry \in EntryType /\ Visible(entry) = Written(text)
    BY <1>2, <2>2
  <2> HIDE DEF entry
  <2>4. RemoveAt(cache_list_, i) \in Seq(EntryType)
    BY <1>1, <2>2, RemoveAtProperties
  <2>5. /\ i \in DOMAIN recent /\ recent[i].key = text /\ i \in 1..Len(recent)
        /\ recent \in Seq(ShownType)
    BY <1>1, <2>2, ShownProperties
  <2> HIDE DEF i
  <2>6. RemoveAt(recent, i) \in Seq(ShownType)
    BY <2>5, RemoveAtProperties
  <2>7. Shown(cache_list_') = <<Written(text)>> \o RemoveAt(recent, i)
    <3>1. Shown(cache_list_') = <<Visible(entry)>> \o Shown(RemoveAt(cache_list_, i))
      BY <2>1, <2>3, <2>4, ShownCons
    <3>2. Shown(RemoveAt(cache_list_, i)) = RemoveAt(recent, i)
      BY <1>1, <2>2, ShownRemoveAt
    <3> QED BY <2>3, <3>1, <3>2
  <2>8. Shown(cache_list_)' = <<Written(text)>> \o RemoveAt(recent, i)
    BY <2>7 DEF Shown
  <2> QED BY <2>5, <2>6, <2>8, LruPut
<1>4. CASE text \notin DOMAIN cache_map_
  <2> DEFINE place == CHOOSE p \in 1..(max_size + 1) : p \notin Places(Kept)
             entry == New(place, text, text)
  <2>1. cache_list_' = <<entry>> \o Kept
    BY <1>4 DEF put
  <2>2. place \in Nat
    <3>1. place \in 1..(max_size + 1)
      BY PlaceExists
    <3> QED BY <3>1
  <2>3. entry \in EntryType /\ Visible(entry) = Written(text)
    BY <1>2, <2>2
  <2> HIDE DEF place, entry
  <2>4. Kept \in Seq(EntryType)
    BY KeptProperties
  <2>5. Shown(Kept) \in Seq(ShownType)
    BY <2>4, ShownProperties
  <2>6. Shown(cache_list_') = <<Written(text)>> \o Shown(Kept)
    BY <2>1, <2>3, <2>4, ShownCons
  <2>7. Shown(cache_list_)' = <<Written(text)>> \o Shown(Kept)
    BY <2>6 DEF Shown
  <2>8. ~\E i \in DOMAIN recent : recent[i].key = text
    <3>1. {recent[i].key : i \in DOMAIN recent} = DOMAIN cache_map_
      BY HeldIsMapped DEF CacheInv
    <3> QED BY <1>4, <3>1
  <2>9. Shown(Kept) = LRU!Most(recent, IF max_size = 0 THEN 0 ELSE max_size - 1)
    BY KeptIsMost
  <2> HIDE DEF recent
  <2> QED BY <2>5, <2>7, <2>8, <2>9, LruPut DEF recent
<1> QED BY <1>3, <1>4

\* A second makes every entry older.
LEMMA AgeRefines ==
  ASSUME CacheInv, SecondPasses
  PROVE  LRU!Next
<1> DEFINE older(e) == [e EXCEPT !.age = IF @ < ttl_seconds THEN @ + 1 ELSE @]
           list == cache_list_'
<1>1. cache_list_ \in Seq(EntryType)
  BY DEF CacheInv, Cached
<1>2. /\ list \in Seq(EntryType) /\ Len(list) = Len(cache_list_)
      /\ \A i \in 1..Len(cache_list_) :
           list[i] = Older(cache_list_[i]) /\ cache_list_[i] \in EntryType
  BY <1>1, OlderList DEF SecondPasses
<1>3. ASSUME NEW e \in EntryType
      PROVE  Visible(Older(e)) = older(Visible(e))
  BY <1>3, OlderEntry DEF Visible, EntryType
<1> HIDE DEF list
<1>4. DOMAIN list = DOMAIN cache_list_ /\ DOMAIN cache_list_ = 1..Len(cache_list_)
  BY <1>1, <1>2, LenProperties
<1>5. [i \in DOMAIN list |-> Visible(list[i])]
        = [i \in DOMAIN cache_list_ |-> older(Visible(cache_list_[i]))]
  BY <1>2, <1>3, <1>4
<1>6. [i \in DOMAIN cache_list_ |-> older(Visible(cache_list_[i]))]
        = [i \in DOMAIN Shown(cache_list_) |-> older(Shown(cache_list_)[i])]
  BY DEF Shown
<1>7. LRU!Age
  BY <1>5, <1>6 DEF LRU!Age, Shown, list
<1> QED BY <1>7 DEF LRU!Next

\* Every step of the retriever is a step of the cache it uses, or none.
LEMMA StepRefines ==
  ASSUME Inv, [Next]_vars
  PROVE  [LRU!Next]_(Shown(cache_list_))
<1> USE DEF Inv
<1>1. ASSUME UNCHANGED cache PROVE UNCHANGED Shown(cache_list_)
  BY <1>1 DEF cache, Shown
<1>2. CASE UNCHANGED vars
  BY <1>1, <1>2 DEF vars
<1>3. ASSUME clear PROVE LRU!Next
  <2>1. DOMAIN cache_list_' = {}
    BY <1>3 DEF clear
  <2>2. Shown(cache_list_)' = <<>>
    BY <2>1 DEF Shown
  <2>3. LRU!Clear
    BY <2>2 DEF LRU!Clear, Shown
  <2> QED BY <2>3 DEF LRU!Next
<1>4. CASE shutdown \/ Killed
  BY <1>3, <1>4 DEF shutdown, Killed, Stopped
<1>5. CASE SecondPasses
  BY <1>5, AgeRefines
<1>6. ASSUME NEW t \in Threads, LookUp(t) PROVE [LRU!Next]_(Shown(cache_list_))
  <2>1. PICK text \in jobs[t] : get(text)
    BY <1>6 DEF LookUp
  <2>2. text \in Texts
    BY DEF ThreadsInv
  <2> QED BY <2>1, <2>2, GetRefines
<1>7. ASSUME NEW t \in Threads, PutInCache(t) PROVE LRU!Next
  <2>1. vector[t][1] \in Texts /\ vector[t][2] = vector[t][1] /\ put(vector[t][1], vector[t][2])
    BY <1>7 DEF PutInCache, ThreadsInv
  <2> QED BY <2>1, PutRefines
<1>8. ASSUME NEW t \in Threads,
             \/ initialize(t) \/ refreshTools(t) \/ addTool(t) \/ removeTool(t)
             \/ CopyIndex(t) \/ ClearIndex(t) \/ retrieve(t)
             \/ Embedded(t) \/ EmbeddingFails(t) \/ AddToIndex(t)
      PROVE  UNCHANGED cache
  BY <1>8 DEF initialize, refreshTools, addTool, removeTool, CopyIndex, ClearIndex, retrieve,
              Embedded, EmbeddingFails, AddToIndex
<1> QED BY <1>1, <1>2, <1>4, <1>5, <1>6, <1>7, <1>8 DEF Next

\* The cache of embeddings is a least-recently-used cache that forgets each
\* entry when it is asked for after its own time has passed
\* (embedding_cache.cpp), under all the threads that use it and for any maximum
\* size, which holds one entry when it is zero, and any ttl_seconds.
THEOREM LruRefined == Spec => LruSpec
<1>1. Init => LRU!Init
  <2>1. ASSUME CacheInit PROVE Shown(cache_list_) = <<>>
    <3>1. DOMAIN cache_list_ = {}
      BY <2>1 DEF CacheInit
    <3> QED BY <3>1 DEF Shown
  <2> QED BY <2>1 DEF Init, LRU!Init, Shown
<1>2. Inv /\ [Next]_vars => [LRU!Next]_(Shown(cache_list_))
  BY StepRefines
<1> QED BY <1>1, <1>2, InvHolds, PTL DEF Spec, LruSpec, LRU!Spec, Shown

=============================================================================
