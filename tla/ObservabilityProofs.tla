------------------------- MODULE ObservabilityProofs -------------------------
(***************************************************************************)
(* What TLAPS proves of the logger and the metrics, for any threads, file  *)
(* sizes, numbers of files and starts:                                     *)
(* - FilesKeepTail: what the loop has taken is followed by what the queue  *)
(*   holds, up to the last entry pushed (Queue), so that what it writes    *)
(*   next (Due) is later than everything in the files (Ordered, Sorted);   *)
(*   in the middle of a rotation the place to rename to is free (Turning)  *)
(*   and the files have moved down to slot (Shifting);                     *)
(* - no counter loses anything (Tallied): what the threads in the middle   *)
(*   of an observation have still to do is what the bucket and the sum     *)
(*   lack (Lacks), and a reset that no observation meets has the histogram *)
(*   to itself (Alone).                                                    *)
(***************************************************************************)
EXTENDS Parts, FiniteSetTheorems, SequenceTheorems, TLAPS

-----------------------------------------------------------------------------
(* Quotients                                                               *)

LEMMA Quotient ==
  ASSUME NEW n \in Nat, NEW d \in Nat \ {0}
  PROVE  /\ n \div d \in Nat /\ n % d \in 0..(d - 1)
         /\ n = d * (n \div d) + (n % d)
<1>1. n % d \in 0..(d - 1)
  OBVIOUS
<1>2. n = d * (n \div d) + (n % d)
  OBVIOUS
<1>3. n \div d \in Nat
  OBVIOUS
<1> QED BY <1>1, <1>2, <1>3

LEMMA Products ==
  ASSUME NEW d \in Nat \ {0}, NEW q \in Int, NEW r \in Int, q < r
  PROVE  d * q + d <= d * r
<1>1. PICK k \in Nat : r = q + 1 + k
  <2>1. r - q - 1 \in Nat /\ r = q + 1 + (r - q - 1)
    OBVIOUS
  <2> QED BY <2>1
<1>2. d * r = d * q + d + d * k
  BY <1>1
<1>3. d * k \in Nat
  OBVIOUS
<1>4. d * q \in Int /\ d * r \in Int
  OBVIOUS
<1> QED BY <1>2, <1>3, <1>4

LEMMA QuotientUnique ==
  ASSUME NEW d \in Nat \ {0}, NEW q \in Nat, NEW r \in 0..(d - 1)
  PROVE  (d * q + r) \div d = q /\ (d * q + r) % d = r
<1> DEFINE n == d * q + r
<1>1. n \in Nat
  <2>1. d * q \in Nat
    OBVIOUS
  <2> QED BY <2>1
<1>2. n \div d \in Nat /\ n % d \in 0..(d - 1) /\ n = d * (n \div d) + (n % d)
  BY <1>1, Quotient
<1> DEFINE p == n \div d
           s == n % d
<1>3. d * q + r = d * p + s /\ p \in Nat /\ s \in 0..(d - 1)
  BY <1>2
<1> HIDE DEF n, p, s
<1>4. d * q \in Int /\ d * p \in Int
  BY <1>3
<1>5. ~(p < q)
  <2>1. p < q => d * p + d <= d * q
    BY <1>3, Products
  <2> QED BY <1>3, <1>4, <2>1
<1>6. ~(q < p)
  <2>1. q < p => d * q + d <= d * p
    BY <1>3, Products
  <2> QED BY <1>3, <1>4, <2>1
<1>7. p = q
  BY <1>3, <1>5, <1>6
<1>8. s = r
  BY <1>3, <1>4, <1>7
<1> QED BY <1>7, <1>8 DEF p, s, n

\* Counting one more.
LEMMA QuotientNext ==
  ASSUME NEW n \in Nat, NEW d \in Nat \ {0}
  PROVE  /\ (n % d) + 1 < d => (n + 1) \div d = n \div d /\ (n + 1) % d = (n % d) + 1
         /\ ~((n % d) + 1 < d) =>
              (n + 1) \div d = n \div d + 1 /\ (n + 1) % d = 0 /\ (n % d) + 1 = d
<1> DEFINE q == n \div d
           r == n % d
<1>1. q \in Nat /\ r \in 0..(d - 1) /\ n = d * q + r
  BY Quotient
<1> HIDE DEF q, r
<1>2. d * q \in Nat
  BY <1>1
<1>3. CASE r + 1 < d
  <2>1. n + 1 = d * q + (r + 1) /\ r + 1 \in 0..(d - 1)
    BY <1>1, <1>2, <1>3
  <2>2. (d * q + (r + 1)) \div d = q /\ (d * q + (r + 1)) % d = r + 1
    BY <1>1, <2>1, QuotientUnique
  <2> QED BY <1>3, <2>1, <2>2 DEF q, r
<1>4. CASE ~(r + 1 < d)
  <2>1. r + 1 = d
    BY <1>1, <1>4
  <2>2. d * (q + 1) = d * q + d
    BY <1>1
  <2>3. n + 1 = d * (q + 1) + 0 /\ q + 1 \in Nat /\ 0 \in 0..(d - 1)
    BY <1>1, <1>2, <2>1, <2>2
  <2>4. (d * (q + 1) + 0) \div d = q + 1 /\ (d * (q + 1) + 0) % d = 0
    BY <2>3, QuotientUnique
  <2> QED BY <1>4, <2>1, <2>3, <2>4 DEF q, r
<1> QED BY <1>3, <1>4 DEF q, r

\* A count with a remainder goes on as the count does.
LEMMA RemainderNext ==
  ASSUME NEW n \in Nat, NEW d \in Nat \ {0}
  PROVE  (n + 1) % d = ((n % d) + 1) % d
<1> DEFINE r == n % d
<1>1. r \in 0..(d - 1)
  BY Quotient
<1>2. (n + 1) % d = IF r + 1 < d THEN r + 1 ELSE 0
  BY QuotientNext, <1>1
<1> HIDE DEF r
<1>3. r \in Nat /\ r < d
  BY <1>1
<1>4. r % d = r
  <2>1. d * 0 = 0 /\ 0 + r = r
    BY <1>3
  <2>2. (d * 0 + r) % d = r
    BY <1>1, QuotientUnique
  <2> QED BY <2>1, <2>2
<1>5. (r + 1) % d = IF r + 1 < d THEN r + 1 ELSE 0
  <2>1. (r % d) + 1 < d => (r + 1) % d = (r % d) + 1
    BY <1>3, QuotientNext
  <2>2. ~((r % d) + 1 < d) => (r + 1) % d = 0
    BY <1>3, QuotientNext
  <2> QED BY <1>4, <2>1, <2>2
<1> QED BY <1>2, <1>5 DEF r

-----------------------------------------------------------------------------
(* Pieces of what was written                                              *)

LEMMA PieceExtends ==
  ASSUME NEW S, NEW s \in Seq(S), NEW e \in S, NEW m \in 1..(Len(s) + 1)
  PROVE  SubSeq(Append(s, e), m, Len(s) + 1) = Append(SubSeq(s, m, Len(s)), e)
<1> DEFINE t == Append(s, e)
           a == SubSeq(t, m, Len(s) + 1)
           b == SubSeq(s, m, Len(s))
           c == Append(b, e)
           n == Len(s) + 1 - m
<1>1. /\ t \in Seq(S) /\ Len(s) \in Nat /\ Len(t) = Len(s) + 1 /\ t[Len(s) + 1] = e
      /\ \A i \in 1..Len(s) : t[i] = s[i] /\ s[i] \in S
  OBVIOUS
<1>2. n \in Nat
  BY <1>1
<1>3. a \in Seq(S) /\ Len(a) = n + 1 /\ \A i \in 1..(n + 1) : a[i] = t[m + i - 1]
  <2>1. \A i \in m..(Len(s) + 1) : t[i] \in S
    <3> HIDE DEF t
    <3> QED BY <1>1
  <2> HIDE DEF t
  <2> QED BY <1>1, <2>1, SubSeqProperties
<1>4. b \in Seq(S) /\ Len(b) = n /\ \A i \in 1..n : b[i] = s[m + i - 1]
  <2>1. \A i \in m..Len(s) : s[i] \in S
    BY <1>1
  <2> QED BY <1>1, <2>1, SubSeqProperties
<1> HIDE DEF a, b, t
<1>5. c \in Seq(S) /\ Len(c) = n + 1 /\ c[n + 1] = e /\ \A i \in 1..n : c[i] = b[i]
  BY <1>4
<1> HIDE DEF c
<1>6. ASSUME NEW i \in 1..(n + 1) PROVE a[i] = c[i]
  <2>1. CASE i = n + 1
    <3>1. m + i - 1 = Len(s) + 1
      BY <1>1, <2>1
    <3> QED BY <1>1, <1>3, <1>5, <2>1, <3>1
  <2>2. CASE i # n + 1
    <3>1. i \in 1..n /\ m + i - 1 \in 1..Len(s)
      BY <1>1, <1>2, <2>2
    <3> QED BY <1>1, <1>3, <1>4, <1>5, <3>1
  <2> QED BY <2>1, <2>2
<1>7. a = c
  BY <1>3, <1>5, <1>6, SeqEqual
<1> QED BY <1>7 DEF a, c, t, b

LEMMA PieceStays ==
  ASSUME NEW S, NEW s \in Seq(S), NEW e \in S, NEW m \in Nat \ {0}, NEW k \in Nat, k <= Len(s)
  PROVE  SubSeq(Append(s, e), m, k) = SubSeq(s, m, k)
<1> DEFINE t == Append(s, e)
           a == SubSeq(t, m, k)
           b == SubSeq(s, m, k)
<1>1. /\ t \in Seq(S) /\ Len(s) \in Nat
      /\ \A i \in 1..Len(s) : t[i] = s[i] /\ s[i] \in S
  OBVIOUS
<1> HIDE DEF t
<1>2. \A i \in m..k : t[i] = s[i] /\ s[i] \in S
  BY <1>1
<1>3. /\ a \in Seq(S) /\ Len(a) = IF m <= k THEN k - m + 1 ELSE 0
      /\ \A i \in 1..(k - m + 1) : a[i] = t[m + i - 1]
  BY <1>2, SubSeqProperties
<1>4. /\ b \in Seq(S) /\ Len(b) = IF m <= k THEN k - m + 1 ELSE 0
      /\ \A i \in 1..(k - m + 1) : b[i] = s[m + i - 1]
  BY <1>2, SubSeqProperties
<1> HIDE DEF a, b
<1>5. ASSUME NEW i \in 1..Len(a) PROVE a[i] = b[i]
  <2>1. i \in 1..(k - m + 1) /\ m + i - 1 \in m..k
    BY <1>3
  <2> QED BY <1>2, <1>3, <1>4, <2>1
<1>6. a = b
  BY <1>3, <1>4, <1>5, SeqEqual
<1> QED BY <1>6 DEF a, b, t

-----------------------------------------------------------------------------
(* AsyncLogger                                                             *)

LoggerType ==
  /\ pushed \in Nat /\ entry \in Nat
  /\ log_queue_ \in Seq(Nat) /\ appended \in Seq(Nat)
  /\ files \in [0..max_files_ -> Seq(Nat)]
  /\ slot \in 0..(max_files_ - 1)

\* The queue holds the last entries pushed, and the loop has the one before.
Queue ==
  /\ process = "down" => log_thread_ = "none" /\ log_queue_ = <<>>
  /\ Len(log_queue_) <= pushed
  /\ \A k \in 1..Len(log_queue_) : log_queue_[k] = (pushed - Len(log_queue_)) + k
  /\ log_thread_ = "appending" => entry = pushed - Len(log_queue_)

\* What is written next, or pushed next if nothing is left.
Due == IF log_thread_ = "appending" THEN entry ELSE (pushed - Len(log_queue_)) + 1

Follows(e, d) == e < d /\ \A x \in (e + 1)..(d - 1) : x \in lost

Ordered ==
  /\ \A i \in 1..Len(appended) - 1 : Follows(appended[i], appended[i + 1])
  /\ Len(appended) > 0 => Follows(appended[Len(appended)], Due)
  /\ \A i \in 1..Len(appended) : appended[i] < Due

\* Nothing in the files is still to be written.
Sorted ==
  /\ FilesInOrder
  /\ \A i \in 0..max_files_ : \A k \in DOMAIN files[i] : files[i][k] < Due

\* Who rotates has closed the file, and until the size is lost it is that of the file.
Stream ==
  /\ process \in {"down", "starting"} => file_stream_ = "none"
  /\ log_thread_ \in {"rotating", "reopening"} => file_stream_ = "closed"
  /\ ~faulty /\ file_stream_ = "open" => current_file_size_ = Len(files[0])

\* A rotation keeps the last entry, and moves a file to where there is none.
Turning ==
  /\ log_thread_ = "rotating" =>
       appended # <<>> /\ \E k \in DOMAIN files[0] : files[0][k] = appended[Len(appended)]
  /\ ~faulty /\ log_thread_ = "rotating" /\ slot < max_files_ - 1 => files[slot + 1] = <<>>
  /\ ~faulty /\ log_thread_ = "reopening" => files[0] = <<>>

\* In the middle of a rotation: up to slot each file is where it was, and those
\* above have moved.
Shifting ==
  /\ Filled * max_file_size_ = Len(appended)
  /\ \A j \in 0..slot : files[j] = Block(Filled - j)
  /\ slot = max_files_ - 1 => files[max_files_] = Block(Filled - max_files_)
  /\ \A j \in (slot + 2)..max_files_ : files[j] = Block((Filled + 1) - j)

Gapless == ~faulty => NoGap
Exact == ~faulty /\ ~torn => IF log_thread_ = "rotating" THEN Shifting ELSE InBlocks

LoggerInv ==
  LoggerType /\ Queue /\ Ordered /\ Sorted /\ Stream /\ Turning /\ Gapless /\ Exact

Sizes ==
  /\ max_file_size_ \in Nat \ {0} /\ max_files_ \in Nat \ {0}
  /\ 0 \in 0..max_files_ /\ max_files_ \in 0..max_files_

LEMMA TheSizes == Sizes
BY LoggerAssumption DEF LoggerAssumption, Sizes

-----------------------------------------------------------------------------
LEMMA InitLoggerInv == LoggerInit => LoggerInv
<1> SUFFICES ASSUME LoggerInit PROVE LoggerInv
  OBVIOUS
<1>1. LoggerType
  BY TheSizes DEF LoggerInit, LoggerType, Sizes
<1>2. Queue
  BY DEF LoggerInit, Queue
<1>3. Ordered
  BY DEF LoggerInit, Ordered
<1>4. Filled = 0
  BY TheSizes DEF LoggerInit, Filled, Sizes
<1>5. Filled * max_file_size_ + 1 = 1 /\ Len(appended) = 0
  BY TheSizes, <1>4 DEF LoggerInit, Sizes
<1>6. SubSeq(appended, 1, 0) = <<>>
  BY SubSeqEmpty
<1>7. \A i \in 1..max_files_ : Block((Filled + 1) - i) = <<>>
  BY TheSizes, <1>4 DEF Block, Sizes
<1>8. InBlocks
  BY TheSizes, <1>5, <1>6, <1>7 DEF LoggerInit, InBlocks, Sizes
<1>9. Sorted /\ Stream /\ Turning
  BY TheSizes DEF LoggerInit, Sorted, FilesInOrder, Stream, Turning, Sizes
<1>10. NoGap
  BY DEF LoggerInit, NoGap
<1>11. log_thread_ # "rotating"
  BY DEF LoggerInit
<1> QED BY <1>1, <1>2, <1>3, <1>8, <1>9, <1>10, <1>11 DEF LoggerInv, Gapless, Exact

\* Steps that write nothing keep the files, and only look at what is due next.
LEMMA NothingWritten ==
  ASSUME LoggerInv, UNCHANGED appender, lost \subseteq lost', LoggerType', Queue',
         process' \in {"down", "starting"} => process \in {"down", "starting"},
         log_thread_' = log_thread_ \/
           (log_thread_ \notin {"rotating", "reopening"} /\ log_thread_' \notin {"rotating", "reopening"}),
         Due \in Int, Due' \in Int, Due <= Due', \A x \in Due..(Due' - 1) : x \in lost'
  PROVE  LoggerInv'
<1>1. /\ files' = files /\ appended' = appended /\ file_stream_' = file_stream_ /\ slot' = slot
      /\ current_file_size_' = current_file_size_ /\ torn' = torn /\ faulty' = faulty
  BY DEF appender
<1>2. Stream' /\ Turning'
  BY <1>1 DEF LoggerInv, Stream, Turning
<1>3. Gapless' /\ Exact'
  <2>1. NoGap' = NoGap /\ Shifting' = Shifting /\ InBlocks' = InBlocks
    BY <1>1 DEF NoGap, InFiles, Shifting, InBlocks, Filled, Block
  <2> QED BY <1>1, <2>1 DEF LoggerInv, Gapless, Exact
<1>4. /\ appended \in Seq(Nat) /\ files \in [0..max_files_ -> Seq(Nat)]
  BY DEF LoggerInv, LoggerType
<1>5. Sorted'
  <2>1. FilesInOrder'
    BY <1>1 DEF LoggerInv, Sorted, FilesInOrder
  <2>2. ASSUME NEW i \in 0..max_files_, NEW k \in DOMAIN files[i]
        PROVE  files[i][k] < Due'
    <3>1. files[i][k] \in Nat /\ files[i][k] < Due
      BY <1>4, <2>2 DEF LoggerInv, Sorted
    <3> QED BY <3>1
  <2> QED BY <1>1, <2>1, <2>2 DEF Sorted
<1>6. \A i \in 1..Len(appended) - 1 : Follows(appended[i], appended[i + 1])'
  BY <1>1 DEF LoggerInv, Ordered, Follows
<1>7. ASSUME Len(appended) > 0 PROVE Follows(appended[Len(appended)], Due)'
  <2> DEFINE e == appended[Len(appended)]
  <2>1. e \in Nat /\ Follows(e, Due)
    BY <1>4, <1>7 DEF LoggerInv, Ordered
  <2> HIDE DEF e
  <2>2. e < Due'
    BY <2>1 DEF Follows
  <2>3. ASSUME NEW x \in (e + 1)..(Due' - 1) PROVE x \in lost'
    <3>1. CASE x < Due
      BY <2>1, <2>3, <3>1 DEF Follows
    <3>2. CASE ~(x < Due)
      <4> DEFINE d == Due
                 f == Due'
      <4>1. d \in Int
        OBVIOUS
      <4>2. f \in Int
        OBVIOUS
      <4>3. \A y \in d..(f - 1) : y \in lost'
        OBVIOUS
      <4>4. x \in (e + 1)..(f - 1)
        BY <2>3
      <4>5. ~(x < d)
        BY <3>2
      <4> HIDE DEF d, f
      <4>6. x \in d..(f - 1)
        BY <2>1, <4>1, <4>2, <4>4, <4>5
      <4> QED BY <4>3, <4>6
    <3> QED BY <3>1, <3>2
  <2>4. e < Due' /\ \A x \in (e + 1)..(Due' - 1) : x \in lost'
    BY <2>2, <2>3
  <2> QED BY <1>1, <2>4 DEF Follows, e
<1>8. ASSUME NEW i \in 1..Len(appended) PROVE appended[i] < Due'
  <2>1. appended[i] \in Nat /\ appended[i] < Due
    BY <1>4 DEF LoggerInv, Ordered
  <2> QED BY <2>1
<1>9. Ordered'
  BY <1>1, <1>6, <1>7, <1>8 DEF Ordered
<1> QED BY <1>2, <1>3, <1>5, <1>9 DEF LoggerInv

LEMMA DueType == LoggerInv => Due \in Int /\ Len(log_queue_) \in Nat /\ (pushed - Len(log_queue_)) \in Nat
BY DEF LoggerInv, LoggerType, Queue, Due

\* The same, when nothing becomes due either.
LEMMA NothingTaken ==
  ASSUME LoggerInv, UNCHANGED appender, lost' = lost, LoggerType', Queue', Due' = Due,
         process' \in {"down", "starting"} => process \in {"down", "starting"},
         log_thread_' = log_thread_ \/
           (log_thread_ \notin {"rotating", "reopening"} /\ log_thread_' \notin {"rotating", "reopening"})
  PROVE  LoggerInv'
<1>1. Due \in Int /\ Due' \in Int /\ Due <= Due' /\ \A x \in Due..(Due' - 1) : x \in lost'
  BY DueType
<1>2. lost \subseteq lost'
  OBVIOUS
<1> QED BY <1>1, <1>2, NothingWritten

LEMMA ProcessKeeps ==
  ASSUME LoggerInv, initialize \/ Stop \/ StopNotifies
  PROVE  LoggerInv'
<1>1. /\ UNCHANGED <<log_queue_, entry, pushed, lost, appender>>
      /\ log_thread_' = "appending" <=> log_thread_ = "appending"
      /\ process' # "down"
      /\ process' \in {"down", "starting"} => process \in {"down", "starting"}
      /\ log_thread_' = log_thread_ \/
           (log_thread_ \notin {"rotating", "reopening"} /\ log_thread_' \notin {"rotating", "reopening"})
  BY DEF initialize, Stop, StopNotifies, LoggerInv, Queue
<1>2. LoggerType' /\ Queue' /\ Due' = Due
  BY <1>1 DEF LoggerInv, LoggerType, Queue, Due, appender
<1> QED BY <1>1, <1>2, NothingTaken

\* Steps of the loop, and of those who wake it, that look at no entry.
LEMMA WaitingKeeps ==
  ASSUME LoggerInv,
         \/ TestRunning \/ TestQueue \/ Park \/ WakesSpuriously
         \/ \E t \in Loggers : Notify(t)
  PROVE  LoggerInv'
<1>1. /\ UNCHANGED <<life, log_queue_, entry, pushed, lost, appender>>
      /\ log_thread_' = log_thread_ \/ (/\ log_thread_ \notin {"rotating", "reopening", "appending", "none"}
                                        /\ log_thread_' \notin {"rotating", "reopening", "appending"})
  BY DEF TestRunning, TestQueue, Park, WakesSpuriously, Notify
<1>2. LoggerType' /\ Queue' /\ Due' = Due
  BY <1>1 DEF LoggerInv, LoggerType, Queue, Due, appender, life
<1> QED BY <1>1, <1>2, NothingTaken DEF life

LEMMA PushKeeps ==
  ASSUME LoggerInv, NEW t, Push(t)
  PROVE  LoggerInv'
<1>1. /\ UNCHANGED <<process, log_thread_, entry, lost, appender>> /\ process # "down"
      /\ pushed' = pushed + 1 /\ log_queue_' = Append(log_queue_, pushed + 1)
  BY DEF Push, life
<1>2. pushed \in Nat /\ log_queue_ \in Seq(Nat) /\ Len(log_queue_) \in Nat
  BY DEF LoggerInv, LoggerType
<1>3. /\ log_queue_' \in Seq(Nat) /\ Len(log_queue_') = Len(log_queue_) + 1
      /\ log_queue_'[Len(log_queue_) + 1] = pushed + 1
      /\ \A k \in 1..Len(log_queue_) : log_queue_'[k] = log_queue_[k]
  BY <1>1, <1>2
<1>4. LoggerType'
  BY <1>1, <1>2, <1>3 DEF LoggerInv, LoggerType, appender
<1>5. pushed' - Len(log_queue_') = pushed - Len(log_queue_)
  BY <1>1, <1>2, <1>3
<1>6. Queue'
  <2>1. ASSUME NEW k \in 1..Len(log_queue_')
        PROVE  log_queue_'[k] = (pushed' - Len(log_queue_')) + k
    <3>1. CASE k = Len(log_queue_) + 1
      BY <1>2, <1>3, <1>5, <3>1
    <3>2. CASE k # Len(log_queue_) + 1
      <4>1. k \in 1..Len(log_queue_)
        BY <1>2, <1>3, <3>2
      <4> QED BY <1>3, <1>5, <4>1 DEF LoggerInv, Queue
    <3> QED BY <3>1, <3>2
  <2> QED BY <1>1, <1>2, <1>3, <1>5, <2>1 DEF LoggerInv, Queue
<1>7. Due' = Due
  BY <1>1, <1>2, <1>5, <1>3 DEF Due
<1> QED BY <1>1, <1>4, <1>6, <1>7, NothingTaken

LEMMA PopKeeps ==
  ASSUME LoggerInv, Pop
  PROVE  LoggerInv'
<1>1. /\ UNCHANGED <<process, pushed, lost, appender>> /\ log_thread_ = "popping" /\ process # "down"
  BY DEF Pop, life, LoggerInv, Queue
<1>2. CASE log_queue_ = <<>>
  <2>1. log_thread_' = "testing" /\ UNCHANGED <<log_queue_, entry>>
    BY <1>2 DEF Pop
  <2>2. LoggerType' /\ Queue'
    BY <1>1, <2>1 DEF LoggerInv, LoggerType, Queue, appender
  <2>3. Due' = Due
    BY <1>1, <2>1 DEF Due
  <2> QED BY <1>1, <2>1, <2>2, <2>3, NothingTaken
<1>3. CASE log_queue_ # <<>>
  <2>1. log_thread_' = "appending" /\ entry' = Head(log_queue_) /\ log_queue_' = Tail(log_queue_)
    BY <1>3 DEF Pop
  <2>2. log_queue_ \in Seq(Nat) /\ pushed \in Nat
    BY DEF LoggerInv, LoggerType
  <2>3. /\ entry' = log_queue_[1] /\ entry' \in Nat /\ log_queue_' \in Seq(Nat)
        /\ Len(log_queue_) \in Nat \ {0} /\ Len(log_queue_') = Len(log_queue_) - 1
        /\ \A k \in 1..Len(log_queue_') : log_queue_'[k] = log_queue_[k + 1]
    BY <1>3, <2>1, <2>2
  <2>4. entry' = (pushed - Len(log_queue_)) + 1
    BY <2>3 DEF LoggerInv, Queue
  <2>5. LoggerType'
    BY <1>1, <2>3 DEF LoggerInv, LoggerType, appender
  <2>6. Queue'
    <3>1. ASSUME NEW k \in 1..Len(log_queue_')
          PROVE  log_queue_'[k] = (pushed' - Len(log_queue_')) + k
      <4>1. k + 1 \in 1..Len(log_queue_) /\ k \in Nat
        BY <2>3
      <4>2. log_queue_[k + 1] = (pushed - Len(log_queue_)) + (k + 1)
        BY <4>1 DEF LoggerInv, Queue
      <4> QED BY <1>1, <2>2, <2>3, <4>1, <4>2
    <3>2. Len(log_queue_) <= pushed
      BY DEF LoggerInv, Queue
    <3> QED BY <1>1, <2>1, <2>2, <2>3, <2>4, <3>1, <3>2 DEF Queue
  <2>7. Due' = Due
    BY <1>1, <2>1, <2>4 DEF Due
  <2> QED BY <1>1, <2>1, <2>5, <2>6, <2>7, NothingTaken
<1> QED BY <1>2, <1>3

\* An entry that is dropped is lost, and the next one is due.
LEMMA DropKeeps ==
  ASSUME LoggerInv, DropEntry
  PROVE  LoggerInv'
<1>1. /\ UNCHANGED <<process, log_queue_, entry, pushed, appender>> /\ lost' = lost \cup {entry}
      /\ log_thread_ = "appending" /\ log_thread_' = "popping"
  BY DEF DropEntry, loopOnly, life
<1>2. LoggerType' /\ Queue'
  BY <1>1 DEF LoggerInv, LoggerType, Queue, appender
<1>3. Due = entry /\ Due' = entry + 1 /\ entry \in Nat
  BY <1>1 DEF Due, LoggerInv, LoggerType, Queue
<1>4. \A x \in Due..(Due' - 1) : x \in lost'
  BY <1>1, <1>3
<1> QED BY <1>1, <1>2, <1>3, <1>4, NothingWritten

\* A process that ends loses what is pending, and leaves the files as they are.
LEMMA EndsKeeps ==
  ASSUME LoggerInv, Ends
  PROVE  LoggerInv'
<1>1. /\ UNCHANGED <<pushed, files, appended, faulty>> /\ process' = "down"
      /\ log_thread_' = "none" /\ log_queue_' = <<>> /\ entry' = 0 /\ slot' = 0
      /\ file_stream_' = "none" /\ lost' = lost \cup Pending
      /\ torn' = (torn \/ log_thread_ = "rotating")
  BY DEF Ends
<1>2. /\ pushed \in Nat /\ log_queue_ \in Seq(Nat) /\ Len(log_queue_) \in Nat
      /\ appended \in Seq(Nat) /\ files \in [0..max_files_ -> Seq(Nat)]
  BY DEF LoggerInv, LoggerType
<1>3. LoggerType' /\ Queue'
  BY <1>1, <1>2, TheSizes DEF LoggerInv, LoggerType, Queue, Sizes
<1>4. Stream' /\ Turning'
  BY <1>1 DEF Stream, Turning
<1>5. Gapless'
  BY <1>1 DEF LoggerInv, Gapless, NoGap, InFiles
<1>6. Exact'
  <2> SUFFICES ASSUME ~faulty, ~torn' PROVE InBlocks'
    BY <1>1 DEF Exact
  <2>1. ~torn /\ log_thread_ # "rotating"
    BY <1>1, Zenon
  <2>2. InBlocks
    BY <2>1 DEF LoggerInv, Exact
  <2> QED BY <1>1, <2>2 DEF InBlocks, Filled, Block
<1>7. Due \in Int /\ Due <= pushed + 1 /\ Due' = pushed + 1
  BY <1>1, <1>2, DueType DEF Due, LoggerInv, Queue
<1>8. ASSUME NEW x \in Due..pushed PROVE x \in Pending
  <2>1. CASE log_thread_ = "appending" /\ x = entry
    BY <2>1 DEF Pending
  <2>2. CASE ~(log_thread_ = "appending" /\ x = entry)
    <3> DEFINE k == x - (pushed - Len(log_queue_))
    <3>1. x \in Int /\ x > pushed - Len(log_queue_) /\ x <= pushed
      BY <1>2, <1>7, <2>2 DEF Due, LoggerInv, Queue
    <3>2. k \in 1..Len(log_queue_) /\ (pushed - Len(log_queue_)) + k = x
      BY <1>2, <3>1
    <3> HIDE DEF k
    <3>3. log_queue_[k] = x
      BY <1>2, <3>1, <3>2 DEF LoggerInv, Queue
    <3>4. x \in ToSet(log_queue_)
      BY <1>2, <3>2, <3>3 DEF ToSet
    <3> QED BY <3>4 DEF Pending
  <2> QED BY <2>1, <2>2
<1>9. Sorted'
  <2>1. FilesInOrder'
    BY <1>1 DEF LoggerInv, Sorted, FilesInOrder
  <2>2. ASSUME NEW i \in 0..max_files_, NEW k \in DOMAIN files[i]
        PROVE  files[i][k] < Due'
    <3>1. files[i][k] \in Nat /\ files[i][k] < Due
      BY <1>2, <2>2 DEF LoggerInv, Sorted
    <3> QED BY <1>2, <1>7, <3>1
  <2> QED BY <1>1, <2>1, <2>2 DEF Sorted
<1>10. \A i \in 1..Len(appended) - 1 : Follows(appended[i], appended[i + 1])'
  BY <1>1 DEF LoggerInv, Ordered, Follows
<1>11. ASSUME Len(appended) > 0 PROVE Follows(appended[Len(appended)], Due)'
  <2> DEFINE e == appended[Len(appended)]
  <2>1. e \in Nat /\ Follows(e, Due)
    BY <1>2, <1>11 DEF LoggerInv, Ordered
  <2> HIDE DEF e
  <2>2. e < Due'
    BY <1>2, <1>7, <2>1 DEF Follows
  <2>3. ASSUME NEW x \in (e + 1)..(Due' - 1) PROVE x \in lost'
    <3>1. CASE x < Due
      BY <1>1, <1>2, <1>7, <2>1, <2>3, <3>1 DEF Follows
    <3>2. CASE ~(x < Due)
      <4>1. x \in Due..pushed
        BY <1>2, <1>7, <2>1, <2>3, <3>2
      <4> QED BY <1>1, <1>8, <4>1
    <3> QED BY <3>1, <3>2
  <2>4. e < Due' /\ \A x \in (e + 1)..(Due' - 1) : x \in lost'
    BY <2>2, <2>3
  <2> QED BY <1>1, <2>4 DEF Follows, e
<1>12. ASSUME NEW i \in 1..Len(appended) PROVE appended[i] < Due'
  <2>1. appended[i] \in Nat /\ appended[i] < Due
    BY <1>2 DEF LoggerInv, Ordered
  <2> QED BY <1>2, <1>7, <2>1
<1>13. Ordered'
  BY <1>1, <1>10, <1>11, <1>12 DEF Ordered
<1> QED BY <1>3, <1>4, <1>5, <1>6, <1>9, <1>13 DEF LoggerInv

\* What leaves the files, the log and what is due alone.
LEMMA FilesStay ==
  ASSUME LoggerInv, UNCHANGED <<process, log_queue_, entry, pushed, lost, files, appended>>,
         slot' \in 0..(max_files_ - 1),
         log_thread_ # "appending", log_thread_' # "appending", process # "down" \/ log_thread_' = log_thread_
  PROVE  LoggerType' /\ Queue' /\ Ordered' /\ Sorted' /\ NoGap' = NoGap /\ InBlocks' = InBlocks
<1>1. LoggerType' /\ Queue' /\ Due' = Due
  BY DEF LoggerInv, LoggerType, Queue, Due
<1>2. Ordered' /\ Sorted'
  BY <1>1 DEF LoggerInv, Ordered, Follows, Sorted, FilesInOrder
<1>3. NoGap' = NoGap /\ InBlocks' = InBlocks
  BY DEF NoGap, InFiles, InBlocks, Filled, Block
<1> QED BY <1>1, <1>2, <1>3

LEMMA OpenKeeps ==
  ASSUME LoggerInv, addAppender \/ Reopen
  PROVE  LoggerInv'
<1>1. /\ UNCHANGED <<log_queue_, entry, pushed, lost, files, appended, slot, torn>>
      /\ faulty' = (faulty \/ file_stream_' = "closed")
  BY DEF addAppender, Reopen, Open, loopOnly, life
<1>2. ~faulty' => ~faulty
  BY <1>1, Zenon
<1>3. CASE addAppender
  <2>1. /\ process = "starting" /\ process' = "up" /\ log_thread_' = log_thread_
        /\ current_file_size_' = IF file_stream_' = "open" THEN Len(files[0]) ELSE 0
    BY <1>3 DEF addAppender
  <2>2. log_thread_ \notin {"rotating", "reopening"}
    BY <2>1 DEF LoggerInv, Stream
  <2>3. Stream' /\ Turning'
    BY <1>1, <2>1, <2>2 DEF Stream, Turning
  <2>4. LoggerType' /\ Queue' /\ Due' = Due
    BY <1>1, <2>1 DEF LoggerInv, LoggerType, Queue, Due
  <2>5. Ordered' /\ Sorted'
    BY <1>1, <2>4 DEF LoggerInv, Ordered, Follows, Sorted, FilesInOrder
  <2>6. NoGap' = NoGap /\ InBlocks' = InBlocks
    BY <1>1 DEF NoGap, InFiles, InBlocks, Filled, Block
  <2>7. Gapless' /\ Exact'
    BY <1>1, <1>2, <2>1, <2>2, <2>6 DEF LoggerInv, Gapless, Exact
  <2> QED BY <2>3, <2>4, <2>5, <2>7 DEF LoggerInv
<1>4. CASE Reopen
  <2>1. /\ log_thread_ = "reopening" /\ log_thread_' = "popping" /\ process' = process
        /\ current_file_size_' = 0
    BY <1>4 DEF Reopen, loopOnly, life
  <2>2. process \notin {"down", "starting"}
    BY <2>1 DEF LoggerInv, Stream
  <2>3. LoggerType' /\ Queue' /\ Ordered' /\ Sorted' /\ NoGap' = NoGap /\ InBlocks' = InBlocks
    BY <1>1, <2>1, <2>2, FilesStay DEF LoggerInv, LoggerType
  <2>4. Stream' /\ Turning'
    BY <1>1, <1>2, <2>1, <2>2 DEF LoggerInv, Stream, Turning
  <2>5. Gapless' /\ Exact'
    BY <1>1, <1>2, <2>1, <2>3 DEF LoggerInv, Gapless, Exact
  <2> QED BY <2>3, <2>4, <2>5 DEF LoggerInv
<1> QED BY <1>3, <1>4

-----------------------------------------------------------------------------
(* An entry is written                                                     *)

LEMMA InSome == \A e : InFiles(e) <=> \E i \in 0..max_files_ : \E k \in DOMAIN files[i] : files[i][k] = e
BY DEF InFiles, ToSet

LEMMA InSomeNext ==
  \A e : InFiles(e)' <=> \E i \in 0..max_files_ : \E k \in DOMAIN files'[i] : files'[i][k] = e
BY DEF InFiles, ToSet

LEMMA AppendKeepsOrder ==
  ASSUME LoggerInv, append
  PROVE  LoggerType' /\ Queue' /\ Ordered' /\ Sorted' /\ Stream' /\ Turning' /\ Gapless'
<1> DEFINE n == Len(appended)
           m == Len(files[0])
<1>1. /\ UNCHANGED <<process, log_queue_, entry, pushed, lost, torn, faulty>>
      /\ log_thread_ = "appending" /\ file_stream_ = "open"
      /\ appended' = Append(appended, entry) /\ files' = [files EXCEPT ![0] = Append(@, entry)]
      /\ current_file_size_' = current_file_size_ + 1
  BY DEF append, loopOnly, life
<1>2. \/ log_thread_' = "rotating" /\ file_stream_' = "closed" /\ slot' = max_files_ - 1
      \/ log_thread_' = "popping" /\ file_stream_' = file_stream_ /\ slot' = slot
  BY DEF append
<1>3. /\ pushed \in Nat /\ log_queue_ \in Seq(Nat) /\ appended \in Seq(Nat) /\ entry \in Nat
      /\ files \in [0..max_files_ -> Seq(Nat)] /\ slot \in 0..(max_files_ - 1)
      /\ max_files_ \in Nat \ {0} /\ 0 \in 0..max_files_
  BY TheSizes DEF LoggerInv, LoggerType, Sizes
<1>4. /\ appended' \in Seq(Nat) /\ n \in Nat /\ Len(appended') = n + 1
      /\ appended'[n + 1] = entry
      /\ \A i \in 1..n : appended'[i] = appended[i] /\ appended[i] \in Nat
  BY <1>1, <1>3
<1>5. /\ files' \in [0..max_files_ -> Seq(Nat)] /\ m \in Nat
      /\ \A i \in 0..max_files_ : i # 0 => files'[i] = files[i]
      /\ DOMAIN files'[0] = 1..(m + 1) /\ DOMAIN files[0] = 1..m
      /\ Len(files'[0]) = m + 1 /\ files'[0][m + 1] = entry
      /\ \A k \in 1..m : files'[0][k] = files[0][k]
  <2>1. files[0] \in Seq(Nat) /\ Append(files[0], entry) \in Seq(Nat)
    BY <1>3
  <2>2. files' \in [0..max_files_ -> Seq(Nat)] /\ files'[0] = Append(files[0], entry)
    BY <1>1, <1>3, <2>1
  <2>3. \A i \in 0..max_files_ : i # 0 => files'[i] = files[i]
    BY <1>1, <1>3
  <2> QED BY <1>3, <2>1, <2>2, <2>3
<1>6. LoggerType'
  <2>1. slot' \in 0..(max_files_ - 1)
    BY <1>2, <1>3
  <2> QED BY <1>1, <1>3, <1>4, <1>5, <2>1 DEF LoggerType
<1>7. process \notin {"down", "starting"}
  BY <1>1 DEF LoggerInv, Stream
<1>8. Queue'
  BY <1>1, <1>2, <1>7 DEF LoggerInv, Queue
<1>9. Due = entry /\ Due' = entry + 1
  BY <1>1, <1>2, <1>3 DEF Due, LoggerInv, Queue
<1> HIDE DEF n, m
<1>10. Ordered'
  <2>1. ASSUME NEW i \in 1..Len(appended') - 1
        PROVE  Follows(appended'[i], appended'[i + 1])
    <3>1. CASE i = n
      <4>1. Follows(appended[n], entry)
        BY <1>4, <1>9, <3>1, <2>1 DEF LoggerInv, Ordered, n
      <4> QED BY <1>4, <2>1, <3>1, <4>1
    <3>2. CASE i # n
      <4>1. i \in 1..n - 1 /\ i \in 1..n /\ i + 1 \in 1..n
        BY <1>4, <3>2
      <4> QED BY <1>4, <4>1 DEF LoggerInv, Ordered, n
    <3> QED BY <3>1, <3>2
  <2>2. \A i \in 1..Len(appended') - 1 : Follows(appended[i], appended[i + 1])'
    BY <1>1, <2>1 DEF Follows
  <2>3. Follows(appended[Len(appended)], Due)'
    <3>1. entry < entry + 1 /\ \A x \in (entry + 1)..((entry + 1) - 1) : x \in lost'
      BY <1>3
    <3> QED BY <1>4, <1>9, <3>1 DEF Follows
  <2>4. ASSUME NEW i \in 1..Len(appended') PROVE appended'[i] < Due'
    <3>1. CASE i = n + 1
      BY <1>3, <1>4, <1>9, <3>1
    <3>2. CASE i # n + 1
      <4>1. i \in 1..n
        BY <1>4, <3>2
      <4>2. appended[i] < Due
        BY <4>1 DEF LoggerInv, Ordered, n
      <4> QED BY <1>3, <1>4, <1>9, <4>1, <4>2
    <3> QED BY <3>1, <3>2
  <2> QED BY <2>2, <2>3, <2>4 DEF Ordered
\* Each entry of the files is an old one, or the one that is written.
<1>11. ASSUME NEW i \in 0..max_files_, NEW k \in DOMAIN files'[i]
       PROVE  \/ k \in DOMAIN files[i] /\ files'[i][k] = files[i][k] /\ files[i][k] \in Nat /\ files[i][k] < entry
              \/ i = 0 /\ k = m + 1 /\ files'[i][k] = entry
  <2>1. CASE i = 0 /\ k = m + 1
    BY <1>5, <2>1
  <2>2. CASE ~(i = 0 /\ k = m + 1)
    <3>1. k \in DOMAIN files[i] /\ files'[i][k] = files[i][k]
      BY <1>5, <1>11, <2>2
    <3>2. files[i][k] < Due
      BY <3>1 DEF LoggerInv, Sorted
    <3>3. files[i][k] \in Nat
      BY <1>3, <3>1
    <3> QED BY <1>9, <3>1, <3>2, <3>3
  <2> QED BY <2>1, <2>2
<1>12. Sorted'
  <2>1. ASSUME NEW i \in 0..max_files_, NEW j \in 0..max_files_,
               NEW k \in DOMAIN files'[i], NEW l \in DOMAIN files'[j],
               j < i \/ (j = i /\ k < l)
        PROVE  files'[i][k] < files'[j][l]
    <3>1. k \in DOMAIN files[i] /\ files'[i][k] = files[i][k] /\ files[i][k] < entry
      <4>1. ~(i = 0 /\ k = m + 1)
        <5>1. SUFFICES ASSUME i = 0, k = m + 1 PROVE FALSE
          OBVIOUS
        <5>2. j = 0 /\ k < l
          BY <2>1, <5>1
        <5>3. l \in 1..(m + 1)
          BY <1>5, <5>2
        <5> QED BY <1>5, <5>1, <5>2, <5>3
      <4> QED BY <1>11, <4>1
    <3>2. CASE j = 0 /\ l = m + 1 /\ files'[j][l] = entry
      BY <3>1, <3>2
    <3>3. CASE l \in DOMAIN files[j] /\ files'[j][l] = files[j][l]
      <4>1. files[i][k] < files[j][l]
        BY <2>1, <3>1, <3>3 DEF LoggerInv, Sorted, FilesInOrder
      <4> QED BY <3>1, <3>3, <4>1
    <3>4. \/ l \in DOMAIN files[j] /\ files'[j][l] = files[j][l]
          \/ j = 0 /\ l = m + 1 /\ files'[j][l] = entry
      BY <1>11
    <3> QED BY <3>2, <3>3, <3>4
  <2>2. FilesInOrder'
    BY <2>1 DEF FilesInOrder
  <2>3. ASSUME NEW i \in 0..max_files_, NEW k \in DOMAIN files'[i] PROVE files'[i][k] < Due'
    <3>1. \/ files'[i][k] = files[i][k] /\ files[i][k] \in Nat /\ files[i][k] < entry
          \/ files'[i][k] = entry
      BY <1>11
    <3>2. \A x \in Nat : x < entry \/ x = entry => x < entry + 1
      BY <1>3
    <3> QED BY <1>3, <1>9, <3>1, <3>2
  <2> QED BY <2>2, <2>3 DEF Sorted
<1>13. Stream'
  <2>1. ASSUME ~faulty PROVE current_file_size_' = Len(files'[0])
    <3>1. current_file_size_ = m
      BY <1>1, <2>1 DEF LoggerInv, Stream, m
    <3> QED BY <1>1, <1>5, <3>1
  <2> QED BY <1>1, <1>2, <1>7, <2>1 DEF Stream
<1>14. Turning'
  <2>1. appended' # <<>> /\ appended'[Len(appended')] = entry
    BY <1>4
  <2>2. m + 1 \in DOMAIN files'[0] /\ files'[0][m + 1] = entry
    BY <1>5
  <2>3. log_thread_' = "rotating" => ~(slot' < max_files_ - 1)
    BY <1>2, <1>3
  <2>4. log_thread_' # "reopening"
    BY <1>2
  <2> QED BY <2>1, <2>2, <2>3, <2>4 DEF Turning
<1>15. Gapless'
  <2> SUFFICES ASSUME ~faulty PROVE NoGap'
    BY <1>1 DEF Gapless
  <2>1. InFiles(entry)'
    <3>1. 0 \in 0..max_files_ /\ m + 1 \in DOMAIN files'[0] /\ files'[0][m + 1] = entry
      BY <1>3, <1>5
    <3>2. \A e : (\E i \in 0..max_files_ : \E k \in DOMAIN files'[i] : files'[i][k] = e) => InFiles(e)'
      BY InSomeNext
    <3>3. \E i \in 0..max_files_ : \E k \in DOMAIN files'[i] : files'[i][k] = entry
      BY <3>1
    <3>4. entry' = entry
      BY <1>1
    <3> QED BY <3>2, <3>3, <3>4 DEF InFiles
  <2>2. ASSUME NEW k \in 1..Len(appended') - 1, NEW e, e = appended'[k], InFiles(e)',
               NEW d, d = appended'[k + 1]
        PROVE  InFiles(d)'
    <3>1. CASE k = n
      <4>1. d = entry
        BY <1>4, <2>2, <3>1
      <4>2. \E i \in 0..max_files_ : \E l \in DOMAIN files'[i] : files'[i][l] = d
        <5>1. 0 \in 0..max_files_ /\ m + 1 \in DOMAIN files'[0] /\ files'[0][m + 1] = d
          BY <1>3, <1>5, <4>1
        <5> QED BY <5>1
      <4> QED BY <4>2, InSomeNext
    <3>2. CASE k # n
      <4>1. k \in 1..n - 1 /\ k \in 1..n /\ k + 1 \in 1..n
        BY <1>4, <2>2, <3>2
      <4>2. e = appended[k] /\ d = appended[k + 1] /\ e \in Nat /\ e < entry
        BY <1>4, <1>9, <2>2, <4>1 DEF LoggerInv, Ordered, n
      <4>3. PICK i \in 0..max_files_ : \E l \in DOMAIN files'[i] : files'[i][l] = e
        BY <2>2, InSomeNext
      <4>4. PICK l \in DOMAIN files'[i] : files'[i][l] = e
        BY <4>3
      <4>5. l \in DOMAIN files[i] /\ files[i][l] = e
        <5>1. \/ l \in DOMAIN files[i] /\ files'[i][l] = files[i][l]
              \/ files'[i][l] = entry
          BY <1>11, <4>4
        <5>2. e # entry
          BY <1>3, <4>2
        <5> QED BY <4>4, <5>1, <5>2
      <4>6. InFiles(e)
        BY <4>5, InSome
      <4>7. InFiles(d)
        BY <4>1, <4>2, <4>6 DEF LoggerInv, Gapless, NoGap, n
      <4>8. PICK j \in 0..max_files_ : \E p \in DOMAIN files[j] : files[j][p] = d
        BY <4>7, InSome
      <4>9. PICK p \in DOMAIN files[j] : files[j][p] = d
        BY <4>8
      <4>10. p \in DOMAIN files'[j] /\ files'[j][p] = d
        <5>1. CASE j = 0
          <6>1. p \in 1..m /\ p \in 1..(m + 1)
            BY <1>5, <4>9, <5>1
          <6> QED BY <1>5, <4>9, <5>1, <6>1
        <5>2. CASE j # 0
          BY <1>5, <4>9, <5>2
        <5> QED BY <5>1, <5>2
      <4> QED BY <4>10, InSomeNext
    <3> QED BY <3>1, <3>2
  <2>3. InFiles(appended[Len(appended)])'
    BY <1>1, <1>4, <2>1 DEF InFiles
  <2>4. \A k \in 1..Len(appended') - 1 : InFiles(appended[k])' => InFiles(appended[k + 1])'
    BY <2>2 DEF InFiles
  <2> QED BY <2>3, <2>4 DEF NoGap
<1> QED BY <1>6, <1>8, <1>10, <1>12, <1>13, <1>14, <1>15

\* The k-th full file of a log.
Piece(s, k) == SubSeq(s, (k - 1) * max_file_size_ + 1, k * max_file_size_)

LEMMA PieceBounds ==
  ASSUME NEW k \in Nat \ {0}, NEW d \in Nat \ {0}
  PROVE  k * d \in Nat /\ (k - 1) * d \in Nat /\ k * d = (k - 1) * d + d
<1> DEFINE j == k - 1
<1>1. j \in Nat /\ k = j + 1
  OBVIOUS
<1> HIDE DEF j
<1>2. j * d \in Nat /\ (j + 1) * d = j * d + d
  BY <1>1
<1>3. k * d = j * d + d /\ j * d + d \in Nat
  BY <1>1, <1>2
<1> QED BY <1>2, <1>3 DEF j

\* What has been filled stays, and is not empty.
LEMMA PieceHolds ==
  ASSUME NEW s \in Seq(Nat), NEW e \in Nat, NEW q \in Nat, NEW k \in 1..q,
         q * max_file_size_ <= Len(s)
  PROVE  Piece(Append(s, e), k) = Piece(s, k) /\ Piece(s, k) # <<>>
<1> DEFINE size == max_file_size_
           a == (k - 1) * size + 1
           b == k * size
<1>1. size \in Nat \ {0} /\ Len(s) \in Nat
  BY TheSizes DEF Sizes
<1>2. Piece(s, k) = SubSeq(s, a, b) /\ Piece(Append(s, e), k) = SubSeq(Append(s, e), a, b)
  BY DEF Piece
<1>3. q * size <= Len(s)
  OBVIOUS
<1> HIDE DEF size
<1>4. b \in Nat /\ a \in Nat \ {0} /\ b = a + size - 1
  <2>1. k * size \in Nat /\ (k - 1) * size \in Nat /\ k * size = (k - 1) * size + size
    BY <1>1, PieceBounds
  <2> DEFINE c == (k - 1) * size
  <2>2. a = c + 1 /\ b = c + size /\ c \in Nat /\ b \in Nat
    BY <2>1
  <2> HIDE DEF c, a, b
  <2> QED BY <1>1, <2>2
<1>5. b <= q * size
  <2>1. k < q => size * k + size <= size * q
    BY <1>1, Products
  <2>2. size * k = b /\ size * q = q * size /\ size * k \in Nat /\ size * q \in Nat
    BY <1>1
  <2>3. CASE k < q
    BY <1>1, <2>1, <2>2, <2>3
  <2>4. CASE k = q
    BY <2>2, <2>4
  <2> QED BY <2>3, <2>4
<1>6. q * size \in Int
  BY <1>1
<1> HIDE DEF a, b
<1>7. b <= Len(s)
  BY <1>1, <1>3, <1>4, <1>5, <1>6
<1>8. SubSeq(Append(s, e), a, b) = SubSeq(s, a, b)
  BY <1>4, <1>7, PieceStays
<1>9. SubSeq(s, a, b) # <<>>
  <2>1. \A i \in a..b : s[i] \in Nat
    BY <1>1, <1>4, <1>7
  <2>2. Len(SubSeq(s, a, b)) = IF a <= b THEN b - a + 1 ELSE 0
    BY <1>4, <2>1, SubSeqProperties
  <2>3. Len(SubSeq(s, a, b)) = size
    BY <1>1, <1>4, <2>2
  <2> QED BY <1>1, <2>3
<1> QED BY <1>2, <1>8, <1>9

LEMMA AppendKeepsBlocks ==
  ASSUME LoggerInv, append
  PROVE  Exact'
<1> DEFINE size == max_file_size_
           n == Len(appended)
           q == n \div size
           r == n % size
<1>1. /\ appended' = Append(appended, entry) /\ files' = [files EXCEPT ![0] = Append(@, entry)]
      /\ appended \in Seq(Nat) /\ entry \in Nat
      /\ files \in [0..max_files_ -> Seq(Nat)]
      /\ max_files_ \in Nat \ {0} /\ size \in Nat \ {0}
      /\ UNCHANGED <<torn, faulty>> /\ log_thread_ = "appending" /\ file_stream_ = "open"
  BY TheSizes DEF append, LoggerInv, LoggerType, Sizes
<1> SUFFICES ASSUME ~faulty, ~torn
             PROVE  IF log_thread_' = "rotating" THEN Shifting' ELSE InBlocks'
  BY <1>1 DEF Exact
<1>2. n \in Nat /\ Len(appended') = n + 1
  BY <1>1
<1>3. q \in Nat /\ r \in 0..(size - 1) /\ n = size * q + r
  BY <1>1, <1>2, Quotient
<1>4. Filled = q /\ Filled' = (n + 1) \div size
  BY <1>2 DEF Filled
<1>5. /\ r + 1 < size => (n + 1) \div size = q
      /\ ~(r + 1 < size) => (n + 1) \div size = q + 1 /\ r + 1 = size
  BY <1>1, <1>2, QuotientNext
<1>6. /\ files[0] = SubSeq(appended, q * size + 1, n)
      /\ \A i \in 1..max_files_ : files[i] = Block((q + 1) - i)
  BY <1>1, <1>4 DEF LoggerInv, Exact, InBlocks
<1> HIDE DEF q, r, size
<1>7. q * size \in Nat /\ q * size + r = n /\ q * size + 1 \in 1..(n + 1)
  <2>1. q * size = size * q /\ size * q \in Nat
    BY <1>1, <1>3
  <2> QED BY <1>2, <1>3, <2>1
<1>8. ASSUME NEW k \in Int, k <= q PROVE Block(k)' = Block(k)
  <2>1. CASE k < 1
    BY <2>1 DEF Block
  <2>2. CASE ~(k < 1)
    <3>1. k \in 1..q /\ q * size <= n
      BY <1>2, <1>3, <1>7, <1>8, <2>2
    <3>2. Piece(appended', k) = Piece(appended, k)
      BY <1>1, <1>3, <3>1, PieceHolds DEF size
    <3> QED BY <2>2, <3>2 DEF Block, Piece
  <2> QED BY <2>1, <2>2
\* The current file and the entry.
<1>9. /\ files'[0] = SubSeq(appended', q * size + 1, n + 1)
      /\ Len(files[0]) = r
      /\ \A i \in 1..max_files_ : files'[i] = files[i]
  <2>1. 0 \in 0..max_files_ /\ files'[0] = Append(files[0], entry)
    BY <1>1
  <2>2. Append(SubSeq(appended, q * size + 1, n), entry)
          = SubSeq(Append(appended, entry), q * size + 1, n + 1)
    BY <1>1, <1>7, PieceExtends
  <2>3. \A i \in (q * size + 1)..n : appended[i] \in Nat
    BY <1>1, <1>2, <1>7
  <2>4. Len(files[0]) = IF q * size + 1 <= n THEN n - (q * size + 1) + 1 ELSE 0
    BY <1>2, <1>6, <1>7, <2>3, SubSeqProperties
  <2>5. r \in Nat
    BY <1>1, <1>3
  <2> DEFINE a == q * size
  <2>6. a \in Nat /\ a + r = n /\ Len(files[0]) = IF a + 1 <= n THEN n - (a + 1) + 1 ELSE 0
    BY <1>7, <2>4
  <2> HIDE DEF a
  <2>7. Len(files[0]) = r
    BY <1>2, <2>5, <2>6
  <2>8. \A i \in 1..max_files_ : files'[i] = files[i]
    BY <1>1
  <2> QED BY <1>1, <1>6, <2>1, <2>2, <2>7, <2>8
<1>10. IF r + 1 >= size THEN log_thread_' = "rotating" /\ slot' = max_files_ - 1
       ELSE log_thread_' = "popping"
  <2>1. current_file_size_ = r
    BY <1>1, <1>9 DEF LoggerInv, Stream
  <2> QED BY <2>1 DEF append, size
<1>11. CASE r + 1 < size
  <2>1. log_thread_' = "popping" /\ Filled' = q
    BY <1>1, <1>3, <1>4, <1>5, <1>10, <1>11
  <2>2. files'[0] = SubSeq(appended', Filled' * max_file_size_ + 1, Len(appended'))
    BY <1>2, <1>9, <2>1 DEF size
  <2>3. ASSUME NEW i \in 1..max_files_, NEW k, k = (q + 1) - i
        PROVE  files'[i] = Block(k)'
    <3>1. k \in Int /\ k <= q
      BY <1>1, <1>3, <2>3
    <3> QED BY <1>6, <1>8, <1>9, <2>3, <3>1
  <2>4. \A i \in 1..max_files_ : files'[i] = Block((Filled + 1) - i)'
    BY <2>1, <2>3 DEF Block
  <2> QED BY <2>1, <2>2, <2>4 DEF InBlocks
<1>12. CASE ~(r + 1 < size)
  <2>1. log_thread_' = "rotating" /\ slot' = max_files_ - 1 /\ Filled' = q + 1 /\ r + 1 = size
    BY <1>1, <1>3, <1>4, <1>5, <1>10, <1>12
  <2>2. q * size + size = n + 1 /\ (q + 1) * size = n + 1
    <3>1. (q + 1) * size = q * size + size
      BY <1>1, <1>3
    <3> QED BY <1>1, <1>2, <1>3, <1>7, <2>1, <3>1
  <2>3. Filled' * max_file_size_ = Len(appended')
    BY <1>2, <2>1, <2>2 DEF size
  <2>4. ASSUME NEW k, k = q + 1 PROVE files'[0] = Block(k)'
    <3>1. k - 1 = q /\ k * size = n + 1 /\ ~(k < 1)
      BY <1>3, <2>2, <2>4
    <3>2. Block(k)' = SubSeq(appended', (k - 1) * size + 1, k * size)
      BY <3>1 DEF Block, size
    <3> QED BY <1>9, <3>1, <3>2
  <2>5. ASSUME NEW j \in 1..max_files_, NEW k, k = (q + 1) - j
        PROVE  files'[j] = Block(k)'
    <3>1. k \in Int /\ k <= q
      BY <1>1, <1>3, <2>5
    <3> QED BY <1>6, <1>8, <1>9, <2>5, <3>1
  <2>6. ASSUME NEW j \in 0..max_files_, NEW k, k = (q + 1) - j
        PROVE  files'[j] = Block(k)'
    <3>1. CASE j = 0
      <4>1. k = q + 1
        BY <1>3, <2>6, <3>1
      <4> QED BY <2>4, <3>1, <4>1
    <3>2. CASE j # 0
      <4>1. j \in 1..max_files_
        BY <3>2
      <4> QED BY <2>5, <2>6, <4>1
    <3> QED BY <3>1, <3>2
  <2>7. \A j \in 0..max_files_ : files'[j] = Block(Filled - j)'
    BY <2>1, <2>6 DEF Block
  <2>8. 0..slot' \subseteq 0..max_files_ /\ max_files_ \in 0..max_files_ /\ (slot' + 2)..max_files_ = {}
    BY <1>1, <2>1
  <2>9. \A j \in 0..slot' : files'[j] = Block(Filled - j)'
    BY <2>7, <2>8
  <2>10. files'[max_files_] = Block(Filled - max_files_)'
    BY <2>7, <2>8
  <2>11. Shifting'
    BY <2>3, <2>8, <2>9, <2>10 DEF Shifting
  <2> QED BY <2>1, <2>11
<1> QED BY <1>11, <1>12

-----------------------------------------------------------------------------
(* Files are renamed                                                       *)

\* What leaves the files and the log alone but for a file that is not renamed.
LEMMA RenameFailsKeeps ==
  ASSUME LoggerInv, RenameFails
  PROVE  LoggerInv'
<1>1. /\ UNCHANGED <<process, log_queue_, entry, pushed, lost, files, appended, file_stream_>>
      /\ log_thread_ = "rotating" /\ faulty' = TRUE
  BY DEF RenameFails, loopOnly, life
<1>2. log_thread_' \in {"rotating", "reopening"} /\ slot' \in 0..(max_files_ - 1)
  <2>1. slot \in 0..(max_files_ - 1) /\ max_files_ \in Nat
    BY TheSizes DEF LoggerInv, LoggerType, Sizes
  <2>2. \/ slot = 0 /\ log_thread_' = "reopening" /\ slot' = slot
        \/ slot # 0 /\ slot' = slot - 1 /\ log_thread_' = log_thread_
    BY DEF RenameFails, NextSlot
  <2> QED BY <1>1, <2>1, <2>2
<1>3. process \notin {"down", "starting"} /\ file_stream_ = "closed"
  BY <1>1 DEF LoggerInv, Stream
<1>4. LoggerType' /\ Queue' /\ Ordered' /\ Sorted'
  BY <1>1, <1>2, <1>3, FilesStay
<1>5. Stream'
  BY <1>1, <1>3 DEF Stream
<1>6. Turning'
  BY <1>1 DEF LoggerInv, Turning
<1>7. Gapless' /\ Exact'
  BY <1>1 DEF Gapless, Exact
<1> QED BY <1>4, <1>5, <1>6, <1>7 DEF LoggerInv

\* What is at slot is at the next place, and there is nothing at slot.
LEMMA Renamed ==
  ASSUME LoggerInv, Rename
  PROVE  /\ files' \in [0..max_files_ -> Seq(Nat)]
         /\ slot \in 0..max_files_ /\ slot + 1 \in 0..max_files_
         /\ files'[slot] = <<>>
         /\ files[slot] # <<>> => files'[slot + 1] = files[slot]
         /\ files[slot] = <<>> => files' = files
         /\ \A i \in 0..max_files_ : i # slot /\ i # slot + 1 => files'[i] = files[i]
<1>1. /\ files \in [0..max_files_ -> Seq(Nat)] /\ slot \in 0..(max_files_ - 1)
      /\ max_files_ \in Nat \ {0}
  BY TheSizes DEF LoggerInv, LoggerType, Sizes
<1>2. slot \in 0..max_files_ /\ slot + 1 \in 0..max_files_ /\ slot # slot + 1
  BY <1>1
<1>3. CASE files[slot] = <<>>
  <2>1. files' = files
    BY <1>3 DEF Rename
  <2> QED BY <1>1, <1>2, <1>3, <2>1
<1>4. CASE files[slot] # <<>>
  <2>1. files' = [files EXCEPT ![slot + 1] = files[slot], ![slot] = <<>>]
    BY <1>4 DEF Rename
  <2>2. files[slot] \in Seq(Nat) /\ <<>> \in Seq(Nat)
    BY <1>1, <1>2
  <2>3. files' \in [0..max_files_ -> Seq(Nat)]
    BY <1>1, <1>2, <2>1, <2>2
  <2> QED BY <1>1, <1>2, <1>4, <2>1, <2>3
<1> QED BY <1>3, <1>4

LEMMA RenameKeepsOrder ==
  ASSUME LoggerInv, Rename
  PROVE  LoggerType' /\ Queue' /\ Ordered' /\ Sorted' /\ Stream' /\ Turning' /\ Gapless'
<1>1. /\ UNCHANGED <<process, log_queue_, entry, pushed, lost, appended, file_stream_>>
      /\ UNCHANGED <<torn, faulty, current_file_size_>>
      /\ log_thread_ = "rotating"
  BY DEF Rename, loopOnly, life
<1>2. /\ files \in [0..max_files_ -> Seq(Nat)] /\ appended \in Seq(Nat)
      /\ slot \in 0..(max_files_ - 1) /\ max_files_ \in Nat \ {0}
  BY TheSizes DEF LoggerInv, LoggerType, Sizes
<1>3. \/ slot = 0 /\ log_thread_' = "reopening" /\ slot' = slot
      \/ slot # 0 /\ slot' = slot - 1 /\ log_thread_' = "rotating"
  BY <1>1 DEF Rename, NextSlot
<1>4. process \notin {"down", "starting"} /\ file_stream_ = "closed"
  BY <1>1 DEF LoggerInv, Stream
<1>5. LoggerType' /\ Queue' /\ Due' = Due
  <2>1. slot' \in 0..(max_files_ - 1)
    BY <1>2, <1>3
  <2>2. files' \in [0..max_files_ -> Seq(Nat)]
    BY Renamed
  <2>3. LoggerType'
    BY <1>1, <2>1, <2>2 DEF LoggerInv, LoggerType
  <2>4. log_thread_' \in {"rotating", "reopening"}
    BY <1>3
  <2>5. Queue' /\ Due' = Due
    BY <1>1, <1>4, <2>4 DEF LoggerInv, Queue, Due
  <2> QED BY <2>3, <2>5
<1>6. Ordered'
  BY <1>1, <1>5 DEF LoggerInv, Ordered, Follows
\* Where a file that is there has come from.
<1> DEFINE from(i) == IF files[slot] # <<>> /\ i = slot + 1 THEN slot ELSE i
<1>7. ASSUME NEW i \in 0..max_files_, files'[i] # <<>>
      PROVE  from(i) \in 0..max_files_ /\ files'[i] = files[from(i)]
             /\ (files[slot] # <<>> => i # slot /\ from(i) # slot + 1)
  BY <1>2, <1>7, Renamed
<1>8. ASSUME NEW i \in 0..max_files_, NEW j \in 0..max_files_, files'[i] # <<>>, files'[j] # <<>>,
             j < i
      PROVE  from(j) < from(i)
  BY <1>2, <1>7, <1>8
<1> HIDE DEF from
<1>9. Sorted'
  <2>1. ASSUME NEW i \in 0..max_files_, NEW k \in DOMAIN files'[i] PROVE files'[i] # <<>>
    BY <2>1
  <2>2. ASSUME NEW i \in 0..max_files_, NEW j \in 0..max_files_,
               NEW k \in DOMAIN files'[i], NEW l \in DOMAIN files'[j],
               j < i \/ (j = i /\ k < l)
        PROVE  files'[i][k] < files'[j][l]
    <3>1. /\ from(i) \in 0..max_files_ /\ k \in DOMAIN files[from(i)] /\ files'[i] = files[from(i)]
          /\ from(j) \in 0..max_files_ /\ l \in DOMAIN files[from(j)] /\ files'[j] = files[from(j)]
      BY <1>7, <2>1
    <3>2. from(j) < from(i) \/ (from(j) = from(i) /\ k < l)
      BY <1>8, <2>1, <2>2
    <3> QED BY <3>1, <3>2 DEF LoggerInv, Sorted, FilesInOrder
  <2>3. FilesInOrder'
    BY <2>2 DEF FilesInOrder
  <2>4. ASSUME NEW i \in 0..max_files_, NEW k \in DOMAIN files'[i] PROVE files'[i][k] < Due'
    <3>1. from(i) \in 0..max_files_ /\ k \in DOMAIN files[from(i)] /\ files'[i] = files[from(i)]
      BY <1>7, <2>1
    <3> QED BY <1>5, <3>1 DEF LoggerInv, Sorted
  <2> QED BY <2>3, <2>4 DEF Sorted
<1>10. Stream'
  BY <1>1, <1>4 DEF Stream
<1>11. Turning'
  <2>1. CASE slot = 0 /\ log_thread_' = "reopening" /\ slot' = slot
    BY <2>1, Renamed DEF Turning
  <2>2. CASE slot # 0 /\ slot' = slot - 1 /\ log_thread_' = "rotating"
    <3>1. files'[0] = files[0]
      <4>1. 0 \in 0..max_files_ /\ 0 # slot /\ 0 # slot + 1
        BY <1>2, <2>2
      <4> QED BY <4>1, Renamed
    <3>2. slot' + 1 = slot
      BY <1>2, <2>2
    <3>3. files'[slot' + 1] = <<>>
      BY <3>2, Renamed
    <3> QED BY <1>1, <2>2, <3>1, <3>3 DEF LoggerInv, Turning
  <2> QED BY <1>3, <2>1, <2>2
\* Only what was in the last file of all can be gone.
<1>12. ASSUME ~faulty, NEW i \in 0..max_files_, NEW k \in DOMAIN files[i], NEW e, files[i][k] = e
       PROVE  InFiles(e)' \/ (i = max_files_ /\ files[slot] # <<>> /\ slot + 1 = max_files_)
  <2>1. CASE files[slot] = <<>>
    <3>1. files' = files
      BY <2>1, Renamed
    <3> QED BY <1>12, <3>1, InSomeNext
  <2>2. CASE files[slot] # <<>>
    <3>1. CASE i = slot
      <4>1. slot + 1 \in 0..max_files_ /\ files'[slot + 1] = files[i]
        BY <2>2, <3>1, Renamed
      <4>2. \E j \in 0..max_files_ : \E l \in DOMAIN files'[j] : files'[j][l] = e
        BY <1>12, <4>1
      <4> QED BY <4>2, InSomeNext
    <3>2. CASE i # slot /\ i # slot + 1
      <4>1. files'[i] = files[i]
        BY <3>2, Renamed
      <4>2. \E j \in 0..max_files_ : \E l \in DOMAIN files'[j] : files'[j][l] = e
        BY <1>12, <4>1
      <4> QED BY <4>2, InSomeNext
    <3>3. CASE i = slot + 1
      <4>1. files[slot + 1] # <<>>
        BY <1>12, <3>3
      <4>2. ~(slot < max_files_ - 1)
        BY <1>1, <1>12, <4>1 DEF LoggerInv, Turning
      <4> QED BY <1>2, <2>2, <3>3, <4>2
    <3> QED BY <3>1, <3>2, <3>3
  <2> QED BY <2>1, <2>2
<1>13. Gapless'
  <2> SUFFICES ASSUME ~faulty PROVE NoGap'
    BY <1>1 DEF Gapless
  <2>1. InFiles(appended[Len(appended)])'
    <3>1. PICK k \in DOMAIN files[0] : files[0][k] = appended[Len(appended)]
      BY <1>1 DEF LoggerInv, Turning
    <3>2. 0 \in 0..max_files_ /\ 0 # max_files_
      BY <1>2
    <3>3. ASSUME NEW e, e = appended[Len(appended)] PROVE InFiles(e)'
      <4>1. files[0][k] = e
        BY <3>1, <3>3
      <4> QED BY <1>12, <3>2, <4>1
    <3> QED BY <1>1, <3>3 DEF InFiles
  <2>2. ASSUME NEW k \in 1..Len(appended) - 1, NEW e, e = appended[k], InFiles(e)',
               NEW d, d = appended[k + 1]
        PROVE  InFiles(d)'
    <3>1. PICK i \in 0..max_files_ : \E l \in DOMAIN files'[i] : files'[i][l] = e
      BY <2>2, InSomeNext
    <3>2. PICK l \in DOMAIN files'[i] : files'[i][l] = e
      BY <3>1
    <3>3. /\ from(i) \in 0..max_files_ /\ l \in DOMAIN files[from(i)] /\ files[from(i)][l] = e
          /\ files[slot] # <<>> => from(i) # slot + 1
      <4>1. files'[i] # <<>>
        BY <3>2
      <4> QED BY <1>7, <3>2, <4>1
    <3>4. InFiles(e)
      BY <3>3, InSome
    <3>5. InFiles(d)
      BY <2>2, <3>4 DEF LoggerInv, Gapless, NoGap
    <3>6. PICK j \in 0..max_files_ : \E p \in DOMAIN files[j] : files[j][p] = d
      BY <3>5, InSome
    <3>7. PICK p \in DOMAIN files[j] : files[j][p] = d
      BY <3>6
    <3>8. SUFFICES ASSUME j = max_files_, files[slot] # <<>>, slot + 1 = max_files_ PROVE FALSE
      BY <1>12, <3>7
    <3>9. from(i) < j
      <4> DEFINE f == from(i)
      <4>1. f \in 0..max_files_ /\ f # max_files_ /\ j = max_files_
        BY <3>3, <3>8
      <4> HIDE DEF f
      <4>2. f < j
        BY <1>2, <4>1
      <4> QED BY <4>2 DEF f
    <3>10. d < e
      BY <3>3, <3>7, <3>9 DEF LoggerInv, Sorted, FilesInOrder
    <3>11. e < d
      BY <2>2 DEF LoggerInv, Ordered, Follows
    <3>12. e \in Nat /\ d \in Nat
      <4>1. appended \in Seq(Nat)
        BY DEF LoggerInv, LoggerType
      <4> QED BY <2>2, <4>1
    <3> QED BY <3>10, <3>11, <3>12
  <2>3. \A k \in 1..Len(appended') - 1 : InFiles(appended[k])' => InFiles(appended[k + 1])'
    BY <1>1, <2>2 DEF InFiles
  <2> QED BY <2>1, <2>3 DEF NoGap
<1> QED BY <1>5, <1>6, <1>9, <1>10, <1>11, <1>13

LEMMA RenameKeepsBlocks ==
  ASSUME LoggerInv, Rename
  PROVE  Exact'
<1>1. /\ UNCHANGED <<torn, faulty, appended>> /\ log_thread_ = "rotating"
  BY DEF Rename
<1> SUFFICES ASSUME ~faulty, ~torn
             PROVE  IF log_thread_' = "rotating" THEN Shifting' ELSE InBlocks'
  BY <1>1 DEF Exact
<1>2. /\ appended \in Seq(Nat) /\ slot \in 0..(max_files_ - 1)
      /\ max_files_ \in Nat \ {0} /\ max_file_size_ \in Nat \ {0}
  BY TheSizes DEF LoggerInv, LoggerType, Sizes
<1>3. \/ slot = 0 /\ log_thread_' = "reopening" /\ slot' = slot
      \/ slot # 0 /\ slot' = slot - 1 /\ log_thread_' = "rotating"
  BY <1>1 DEF Rename, NextSlot
<1>4. Shifting
  BY <1>1 DEF LoggerInv, Exact
<1>5. Filled \in Nat /\ Filled * max_file_size_ = Len(appended) /\ Len(appended) \in Nat
  <2>1. Len(appended) \in Nat
    BY <1>2
  <2>2. Filled \in Nat
    BY <1>2, <2>1, Quotient DEF Filled
  <2> QED BY <1>4, <2>1, <2>2 DEF Shifting
<1>6. Filled' = Filled /\ \A k : Block(k)' = Block(k)
  BY <1>1 DEF Filled, Block
<1>7. files'[slot + 1] = Block(Filled - slot)
  <2>1. files[slot] = Block(Filled - slot)
    BY <1>2, <1>4 DEF Shifting
  <2>2. CASE files[slot] # <<>>
    BY <2>1, <2>2, Renamed
  <2>3. CASE files[slot] = <<>>
    <3>1. Filled - slot < 1
      <4>1. SUFFICES ASSUME ~(Filled - slot < 1) PROVE FALSE
        OBVIOUS
      <4> DEFINE k == Filled - slot
      <4>2. k \in 1..Filled /\ ~(k < 1)
        BY <1>2, <1>5, <4>1
      <4>3. Block(k) = Piece(appended, k)
        BY <4>2 DEF Block, Piece
      <4>4. Filled * max_file_size_ <= Len(appended)
        BY <1>5
      <4> HIDE DEF k
      <4>5. Piece(appended, k) # <<>>
        BY <1>2, <1>5, <4>2, <4>4, PieceHolds
      <4> QED BY <2>1, <2>3, <4>3, <4>5 DEF k
    <3>2. files[slot + 1] = <<>>
      <4>1. CASE slot = max_files_ - 1
        <5>1. slot + 1 = max_files_ /\ Filled - max_files_ < 1
          BY <1>2, <1>5, <3>1, <4>1
        <5>2. files[max_files_] = Block(Filled - max_files_)
          BY <1>4, <4>1 DEF Shifting
        <5> QED BY <5>1, <5>2 DEF Block
      <4>2. CASE slot # max_files_ - 1
        <5>1. slot < max_files_ - 1
          BY <1>2, <4>2
        <5> QED BY <1>1, <5>1 DEF LoggerInv, Turning
      <4> QED BY <4>1, <4>2
    <3> QED BY <2>1, <2>3, <3>2, Renamed
  <2> QED BY <2>2, <2>3
<1>8. ASSUME NEW j \in (slot + 1)..max_files_
      PROVE  files'[j] = Block((Filled + 1) - j)
  <2>1. CASE j = slot + 1
    <3>1. (Filled + 1) - j = Filled - slot
      BY <1>2, <1>5, <2>1
    <3> QED BY <1>7, <2>1, <3>1
  <2>2. CASE j # slot + 1
    <3>1. j \in (slot + 2)..max_files_ /\ j \in 0..max_files_ /\ j # slot
      BY <1>2, <2>2
    <3> QED BY <1>4, <2>2, <3>1, Renamed DEF Shifting
  <2> QED BY <2>1, <2>2
<1>9. CASE slot # 0 /\ slot' = slot - 1 /\ log_thread_' = "rotating"
  <2>1. Filled' * max_file_size_ = Len(appended')
    BY <1>1, <1>5, <1>6
  <2>2. ASSUME NEW j \in 0..slot' PROVE files'[j] = Block(Filled - j)
    <3>1. j \in 0..slot /\ j \in 0..max_files_ /\ j # slot /\ j # slot + 1
      BY <1>2, <1>9
    <3> QED BY <1>4, <3>1, Renamed DEF Shifting
  <2>3. slot' # max_files_ - 1 /\ slot' + 2 = slot + 1
    BY <1>2, <1>9
  <2>4. \A j \in 0..slot' : files'[j] = Block(Filled - j)'
    BY <1>1, <2>2 DEF Block, Filled
  <2>5. \A j \in (slot' + 2)..max_files_ : files'[j] = Block((Filled + 1) - j)'
    BY <1>1, <1>8, <2>3 DEF Block, Filled
  <2>6. Shifting'
    BY <2>1, <2>3, <2>4, <2>5 DEF Shifting
  <2> QED BY <1>9, <2>6
<1>10. CASE slot = 0 /\ log_thread_' = "reopening" /\ slot' = slot
  <2>1. SubSeq(appended, Len(appended) + 1, Len(appended)) = <<>>
    BY <1>5, SubSeqEmpty
  <2>2. files'[0] = <<>>
    BY <1>10, Renamed
  <2>3. files'[0] = SubSeq(appended', Filled' * max_file_size_ + 1, Len(appended'))
    BY <1>1, <1>5, <1>6, <2>1, <2>2
  <2>4. slot + 1 = 1
    BY <1>10
  <2>5. \A i \in 1..max_files_ : files'[i] = Block((Filled + 1) - i)'
    BY <1>1, <1>8, <2>4 DEF Block, Filled
  <2>6. InBlocks'
    BY <2>3, <2>5 DEF InBlocks
  <2> QED BY <1>10, <2>6
<1> QED BY <1>3, <1>9, <1>10

-----------------------------------------------------------------------------
LEMMA LoggerKeeps == LoggerInv /\ [LoggerNext]_loggerVars => LoggerInv'
<1> SUFFICES ASSUME LoggerInv, [LoggerNext]_loggerVars PROVE LoggerInv'
  OBVIOUS
<1>1. CASE initialize \/ Stop \/ StopNotifies
  BY <1>1, ProcessKeeps
<1>2. CASE addAppender \/ Reopen
  BY <1>2, OpenKeeps
<1>3. CASE Ends
  BY <1>3, EndsKeeps
<1>4. CASE \E t \in Loggers : Push(t)
  BY <1>4, PushKeeps
<1>5. CASE Pop
  BY <1>5, PopKeeps
<1>6. CASE DropEntry
  BY <1>6, DropKeeps
<1>7. CASE append
  BY <1>7, AppendKeepsOrder, AppendKeepsBlocks DEF LoggerInv
<1>8. CASE Rename
  BY <1>8, RenameKeepsOrder, RenameKeepsBlocks DEF LoggerInv
<1>9. CASE RenameFails
  BY <1>9, RenameFailsKeeps
<1>10. CASE \/ TestRunning \/ TestQueue \/ Park \/ WakesSpuriously
            \/ \E t \in Loggers : Notify(t)
  BY <1>10, WaitingKeeps
<1>11. CASE UNCHANGED loggerVars
  <2>1. UNCHANGED <<process, log_queue_, entry, appender, pushed, lost, log_thread_>>
    BY <1>11 DEF loggerVars, life
  <2>2. LoggerType' /\ Queue' /\ Due' = Due
    BY <2>1 DEF LoggerInv, LoggerType, Queue, Due, appender
  <2> QED BY <2>1, <2>2, NothingTaken
<1> QED BY <1>1, <1>2, <1>3, <1>4, <1>5, <1>6, <1>7, <1>8, <1>9, <1>10, <1>11
        DEF LoggerNext, LoopStep

\* Whatever rotations, stops and kills there are, and whatever cannot be renamed
\* or opened, the files are in order; without a failure they are the end of the
\* log, and unless a rotation was torn its last full files and the current one.
THEOREM FilesKeepTailHolds == Spec => []FilesKeepTail
<1>1. Init => LoggerInv
  BY InitLoggerInv DEF Init
<1>2. LoggerInv /\ [Next]_vars => LoggerInv'
  BY LoggerKeeps DEF Next, Only, vars
<1>3. ASSUME LoggerInv PROVE FilesKeepTail
  <2>1. InPushOrder
    BY <1>3 DEF LoggerInv, Ordered, Follows, InPushOrder
  <2> QED BY <1>3, <2>1, Zenon DEF LoggerInv, Sorted, Gapless, Exact, FilesKeepTail
<1> QED BY <1>1, <1>2, <1>3, PTL DEF Spec

-----------------------------------------------------------------------------
(* The metrics                                                             *)

\* Threads that have counted an observation and not filled its bucket yet, or
\* not even added it to the sum.
Unfilled == {"read sum", "store sum", "fill bucket"}
Unsummed == {"read sum", "store sum"}

Inside(o, stages) == {t \in Recorders : o[t] \in stages}

MetricsType ==
  /\ requests_ \in Int /\ connections_ \in Int
  /\ count_ \in Nat /\ sum_ \in Int /\ bucket_ \in Nat
  /\ op \in [Recorders -> {"idle", "request", "connect", "disconnect"} \cup Observing \cup Resetting]
  /\ current \in [Recorders -> Int]
  /\ recorded \in [requests : Int, connections : Int, observed : Nat]
  /\ disturbed \in BOOLEAN

Added ==
  /\ requests_ = recorded.requests /\ connections_ = recorded.connections
  /\ count_ = recorded.observed

Finite == IsFiniteSet(Inside(op, Unfilled)) /\ IsFiniteSet(Inside(op, Unsummed))

\* A reset that no observation meets has the histogram to itself.
Sole(t) ==
  /\ \A u \in Recorders : op[u] \notin Unfilled /\ (op[u] \in Resetting => u = t)
  /\ sum_ = 0
  /\ op[t] = "reset bucket" => count_ = 0

Alone ==
  ~disturbed =>
    \A t \in Recorders : op[t] \in Resetting => Sole(t)

\* The bucket and the sum lack what the threads have still to do.  Two that add
\* to the sum may have read the same, which is not more than was counted.
Lacks(unfilled, unsummed) ==
  /\ unfilled <= count_
  /\ bucket_ = (count_ - unfilled) % BucketLimit
  /\ unsummed <= count_
  /\ sum_ \in Nat /\ sum_ <= count_ - unsummed
  /\ (unsummed < count_) => (sum_ > 0)
  /\ \A t \in Recorders :
       (op[t] = "store sum") => (current[t] \in Nat /\ current[t] <= count_ - unsummed)

Observed == Lacks(Cardinality(Inside(op, Unfilled)), Cardinality(Inside(op, Unsummed)))

MetricsInv ==
  /\ MetricsType /\ Added /\ Finite /\ Alone
  /\ (~disturbed /\ ~Some(Resetting)) => Observed

-----------------------------------------------------------------------------
LEMMA Moves ==
  ASSUME NEW t \in Recorders, NEW S, IsFiniteSet(Inside(op, S)),
         \A u \in Recorders : u # t => op'[u] = op[u]
  PROVE  /\ IsFiniteSet(Inside(op', S))
         /\ Cardinality(Inside(op, S)) \in Nat /\ Cardinality(Inside(op', S)) \in Nat
         /\ (op'[t] \in S /\ op[t] \notin S) =>
              Cardinality(Inside(op', S)) = Cardinality(Inside(op, S)) + 1
         /\ (op'[t] \notin S /\ op[t] \in S) =>
              Cardinality(Inside(op, S)) = Cardinality(Inside(op', S)) + 1
         /\ (op'[t] \in S <=> op[t] \in S) =>
              Cardinality(Inside(op', S)) = Cardinality(Inside(op, S))
<1> DEFINE a == Inside(op, S)
           b == Inside(op', S)
<1>2. (t \in a <=> op[t] \in S) /\ (t \in b <=> op'[t] \in S)
  BY DEF Inside
<1>3. \A u : u # t => (u \in a <=> u \in b)
  BY DEF Inside
<1> HIDE DEF a, b
<1>4. IsFiniteSet(a) /\ Cardinality(a) \in Nat
  BY FS_CardinalityType DEF a
<1>5. CASE op'[t] \in S /\ op[t] \notin S
  <2>1. b = a \cup {t} /\ t \notin a
    BY <1>2, <1>3, <1>5
  <2>2. IsFiniteSet(b) /\ Cardinality(b) = Cardinality(a) + 1
    BY <1>4, <2>1, FS_AddElement
  <2> QED BY <1>4, <1>5, <2>2 DEF a, b
<1>6. CASE op'[t] \notin S /\ op[t] \in S
  <2>1. b = a \ {t} /\ t \in a
    BY <1>2, <1>3, <1>6
  <2>2. IsFiniteSet(b) /\ Cardinality(b) = Cardinality(a) - 1
    BY <1>4, <2>1, FS_RemoveElement
  <2>3. Cardinality(b) \in Nat
    BY <2>2, FS_CardinalityType
  <2>4. Cardinality(a) = Cardinality(b) + 1
    BY <1>4, <2>2, <2>3
  <2> QED BY <1>4, <1>6, <2>2, <2>3, <2>4 DEF a, b
<1>7. CASE op'[t] \in S <=> op[t] \in S
  <2>1. b = a
    BY <1>2, <1>3, <1>7
  <2> QED BY <1>4, <1>7, <2>1 DEF a, b
<1> QED BY <1>5, <1>6, <1>7

LEMMA InitMetricsInv == MetricsInit => MetricsInv
<1> SUFFICES ASSUME MetricsInit PROVE MetricsInv
  OBVIOUS
<1>1. MetricsType /\ Added
  <2>1. recorded \in [requests : Int, connections : Int, observed : Nat]
    BY DEF MetricsInit
  <2>2. disturbed \in BOOLEAN
    BY Zenon DEF MetricsInit
  <2>3. Added
    BY DEF MetricsInit, Added
  <2>4. /\ op \in [Recorders -> {"idle", "request", "connect", "disconnect"} \cup Observing \cup Resetting]
        /\ current \in [Recorders -> Int]
    BY DEF MetricsInit
  <2> QED BY <2>1, <2>2, <2>3, <2>4 DEF MetricsInit, MetricsType
<1>2. Inside(op, Unfilled) = {} /\ Inside(op, Unsummed) = {}
  BY DEF MetricsInit, Inside, Unfilled, Unsummed
<1>3. Finite
  BY <1>2, FS_EmptySet DEF Finite
<1>4. Alone
  BY DEF MetricsInit, Alone, Resetting
<1>5. Observed
  <2>1. 0 % BucketLimit = 0
    BY MetricsAssumption DEF MetricsAssumption
  <2>2. \A t \in Recorders : op[t] # "store sum"
    BY DEF MetricsInit
  <2>3. count_ = 0 /\ sum_ = 0 /\ bucket_ = 0
    BY DEF MetricsInit
  <2>4. Cardinality(Inside(op, Unfilled)) = 0 /\ Cardinality(Inside(op, Unsummed)) = 0
    BY <1>2, FS_EmptySet
  <2>5. (0 - 0) % BucketLimit = 0
    BY <2>1
  <2>6. Lacks(0, 0)
    <3>1. bucket_ = (count_ - 0) % BucketLimit
      BY <2>3, <2>5
    <3>2. 0 <= count_ /\ sum_ \in Nat /\ sum_ <= count_ - 0 /\ ~(0 < count_)
      BY <2>3
    <3> QED BY <2>2, <3>1, <3>2 DEF Lacks
  <2> QED BY <2>4, <2>6 DEF Observed
<1> QED BY <1>1, <1>3, <1>4, <1>5 DEF MetricsInv

\* A thread that moves outside of observations and resets.
LEMMA OtherMoves ==
  ASSUME MetricsInv, NEW t \in Recorders, NEW v, op' = [op EXCEPT ![t] = v],
         op[t] \notin Unfilled \cup Resetting, v \notin Unfilled \cup Resetting,
         UNCHANGED <<histogram, disturbed>>, \A u \in Recorders : u # t => current'[u] = current[u]
  PROVE  Finite' /\ Alone' /\ ((~disturbed' /\ ~Some(Resetting)') => Observed')
<1>1. DOMAIN op = Recorders /\ op'[t] = v /\ \A u \in Recorders : u # t => op'[u] = op[u]
  BY DEF MetricsInv, MetricsType
<1>2. /\ Finite'
      /\ Cardinality(Inside(op', Unfilled)) = Cardinality(Inside(op, Unfilled))
      /\ Cardinality(Inside(op', Unsummed)) = Cardinality(Inside(op, Unsummed))
  <2>1. v \notin Unfilled /\ op[t] \notin Unfilled /\ v \notin Unsummed /\ op[t] \notin Unsummed
    BY DEF Unfilled, Unsummed
  <2>2. IsFiniteSet(Inside(op, Unfilled)) /\ IsFiniteSet(Inside(op, Unsummed))
    BY DEF MetricsInv, Finite
  <2>3. /\ IsFiniteSet(Inside(op', Unfilled))
        /\ Cardinality(Inside(op', Unfilled)) = Cardinality(Inside(op, Unfilled))
    BY <1>1, <2>1, <2>2, Moves
  <2>4. /\ IsFiniteSet(Inside(op', Unsummed))
        /\ Cardinality(Inside(op', Unsummed)) = Cardinality(Inside(op, Unsummed))
    BY <1>1, <2>1, <2>2, Moves
  <2> QED BY <2>3, <2>4 DEF Finite
<1>3. count_' = count_ /\ sum_' = sum_ /\ bucket_' = bucket_ /\ disturbed' = disturbed
  BY DEF histogram
<1>4. \A u \in Recorders : /\ op'[u] \in Unfilled <=> op[u] \in Unfilled
                           /\ op'[u] \in Resetting <=> op[u] \in Resetting
                           /\ op[u] \in Unfilled \cup Resetting => op'[u] = op[u]
  BY <1>1
<1>5. Alone'
  <2>1. ASSUME NEW u \in Recorders, op'[u] \in Resetting, Sole(u) PROVE Sole(u)'
    BY <1>3, <1>4, <2>1 DEF Sole
  <2>2. ASSUME ~disturbed PROVE \A u \in Recorders : op[u] \in Resetting => Sole(u)
    BY <2>2, Zenon DEF MetricsInv, Alone
  <2>3. ASSUME ~disturbed PROVE \A u \in Recorders : op'[u] \in Resetting => Sole(u)'
    BY <1>4, <2>1, <2>2, <2>3
  <2>4. ASSUME ~disturbed' PROVE ~disturbed
    BY <1>3, <2>4 DEF MetricsInv, MetricsType
  <2> QED BY <2>3, <2>4, Zenon DEF Alone
<1>6. Some(Resetting)' <=> Some(Resetting)
  BY <1>4 DEF Some
<1>7. \A u \in Recorders : op'[u] = "store sum" => op[u] = "store sum" /\ current'[u] = current[u]
  BY <1>1 DEF Unfilled
<1>8. ASSUME Observed PROVE Observed'
  BY <1>2, <1>3, <1>7, <1>8 DEF Observed, Lacks
<1> QED BY <1>2, <1>3, <1>5, <1>6, <1>8 DEF MetricsInv

LEMMA AddingKeeps ==
  ASSUME MetricsInv, NEW t \in Recorders,
         \/ \E what \in {"request", "connect", "disconnect"} : Begin(t, what)
         \/ Exchange(t) \/ ReadAgain(t)
  PROVE  MetricsInv'
<1>1. /\ requests_ \in Int /\ connections_ \in Int /\ current \in [Recorders -> Int]
      /\ op \in [Recorders -> {"idle", "request", "connect", "disconnect"} \cup Observing \cup Resetting]
      /\ recorded \in [requests : Int, connections : Int, observed : Nat]
  BY DEF MetricsInv, MetricsType
<1>2. UNCHANGED <<histogram, disturbed>> /\ \A u \in Recorders : u # t => current'[u] = current[u]
  BY <1>1 DEF Begin, Exchange, ReadAgain, Read, values, history
<1>3. PICK v \in {"idle", "request", "connect", "disconnect", "count"} :
        op' = [op EXCEPT ![t] = v] /\ op[t] \in {"idle", "request", "connect", "disconnect"}
  <2>1. CASE \E what \in {"request", "connect", "disconnect"} : Begin(t, what)
    BY <2>1 DEF Begin, Then
  <2>2. CASE Exchange(t)
    BY <2>2 DEF Exchange, Then
  <2>3. CASE ReadAgain(t)
    <3>1. op' = [op EXCEPT ![t] = op[t]] /\ op[t] \in {"request", "connect", "disconnect"}
      BY <1>1, <2>3 DEF ReadAgain
    <3> QED BY <3>1
  <2> QED BY <2>1, <2>2, <2>3
<1>4. op[t] \notin Unfilled \cup Resetting /\ v \notin Unfilled \cup Resetting
  BY <1>3 DEF Unfilled, Resetting
<1>5. Finite' /\ Alone' /\ ((~disturbed' /\ ~Some(Resetting)') => Observed')
  BY <1>2, <1>3, <1>4, OtherMoves
<1>6. /\ current' \in [Recorders -> Int]
      /\ recorded' \in [requests : Int, connections : Int, observed : Nat]
      /\ requests_' = recorded'.requests /\ connections_' = recorded'.connections
      /\ recorded'.observed = recorded.observed
  <2>1. CASE \E what \in {"request", "connect", "disconnect"} : Begin(t, what)
    BY <1>1, <2>1 DEF Begin, Read, values, MetricsInv, Added
  <2>2. CASE Exchange(t)
    <3>1. requests_ = recorded.requests /\ connections_ = recorded.connections
      BY DEF MetricsInv, Added
    <3>2. CASE op[t] = "request"
      <4>1. /\ requests_' = requests_ + 1 /\ connections_' = connections_ /\ current' = current
            /\ recorded' = [recorded EXCEPT !.requests = @ + 1]
        BY <2>2, <3>2 DEF Exchange
      <4> QED BY <1>1, <3>1, <4>1
    <3>3. CASE op[t] # "request"
      <4>1. PICK by \in {1, -1} :
              /\ requests_' = requests_ /\ connections_' = connections_ + by /\ current' = current
              /\ recorded' = [recorded EXCEPT !.connections = @ + by]
        BY <2>2, <3>3 DEF Exchange
      <4> QED BY <1>1, <3>1, <4>1
    <3> QED BY <3>2, <3>3
  <2>3. CASE ReadAgain(t)
    BY <1>1, <2>3 DEF ReadAgain, Read, values, history, MetricsInv, Added
  <2> QED BY <2>1, <2>2, <2>3
<1>7. op' \in [Recorders -> {"idle", "request", "connect", "disconnect"} \cup Observing \cup Resetting]
  BY <1>1, <1>3 DEF Observing
<1>8. MetricsType' /\ Added'
  BY <1>2, <1>6, <1>7 DEF MetricsInv, MetricsType, Added, histogram
<1> QED BY <1>5, <1>8 DEF MetricsInv


Operations == {"idle", "request", "connect", "disconnect"} \cup Observing \cup Resetting

\* What a step of the histogram changes, whichever it is.
LEMMA HistogramTypes ==
  ASSUME MetricsInv, NEW t \in Recorders, NEW v \in Operations, Then(t, v),
         requests_' = requests_ /\ connections_' = connections_,
         count_' \in Nat, sum_' \in Int, bucket_' \in Nat, disturbed' \in BOOLEAN,
         recorded' = [recorded EXCEPT !.observed = count_'],
         current' = current \/ Read(t, sum_)
  PROVE  /\ MetricsType' /\ Added' /\ Finite'
         /\ op'[t] = v /\ \A u \in Recorders : u # t => op'[u] = op[u] /\ current'[u] = current[u]
<1>1. /\ op \in [Recorders -> Operations] /\ current \in [Recorders -> Int] /\ sum_ \in Int
      /\ recorded \in [requests : Int, connections : Int, observed : Nat]
      /\ requests_ \in Int /\ connections_ \in Int
  BY DEF MetricsInv, MetricsType, Operations
<1>2. op' = [op EXCEPT ![t] = v]
  BY DEF Then
<1> HIDE DEF Operations
<1>3. op' \in [Recorders -> Operations] /\ op'[t] = v /\ \A u \in Recorders : u # t => op'[u] = op[u]
  BY <1>1, <1>2
<1>4. current' \in [Recorders -> Int] /\ \A u \in Recorders : u # t => current'[u] = current[u]
  BY <1>1 DEF Read
<1>5. /\ recorded' \in [requests : Int, connections : Int, observed : Nat]
      /\ recorded'.requests = recorded.requests /\ recorded'.connections = recorded.connections
      /\ recorded'.observed = count_'
  BY <1>1
<1>6. MetricsType'
  BY <1>1, <1>3, <1>4, <1>5 DEF MetricsType, Operations
<1>7. Added'
  BY <1>5 DEF MetricsInv, Added
<1>8. Finite'
  BY <1>3, Moves DEF MetricsInv, Finite
<1> QED BY <1>3, <1>4, <1>6, <1>7, <1>8

\* Between Count and FillBucket, while no reset is near.
LEMMA ObservingKeepsAlone ==
  ASSUME MetricsInv, NEW t \in Recorders, op'[t] \notin Resetting,
         \A u \in Recorders : u # t => op'[u] = op[u],
         op[t] \in Unfilled \/ (~disturbed' => ~Some(Resetting)),
         disturbed => disturbed'
  PROVE  /\ Alone'
         /\ (~disturbed' /\ ~Some(Resetting)') => (~disturbed /\ ~Some(Resetting) /\ Observed)
<1>1. ASSUME ~disturbed' PROVE ~disturbed /\ \A u \in Recorders : op[u] \notin Resetting
  <2>1. ~disturbed
    BY <1>1
  <2>2. ASSUME NEW u \in Recorders, op[u] \in Resetting PROVE FALSE
    <3>1. Sole(u)
      BY <2>1, <2>2, Zenon DEF MetricsInv, Alone
    <3>2. op[t] \notin Unfilled
      BY <3>1 DEF Sole
    <3> QED BY <1>1, <2>2, <3>2 DEF Some
  <2> QED BY <2>1, <2>2
<1>2. ASSUME ~disturbed' PROVE \A u \in Recorders : op'[u] \notin Resetting
  BY <1>1, <1>2
<1>3. Alone'
  <2>1. ASSUME ~disturbed' PROVE \A u \in Recorders : op'[u] \in Resetting => Sole(u)'
    BY <1>2, <2>1
  <2> QED BY <2>1, Zenon DEF Alone
<1>4. ASSUME ~disturbed', ~Some(Resetting)' PROVE ~disturbed /\ ~Some(Resetting) /\ Observed
  <2>1. ~disturbed /\ ~Some(Resetting)
    BY <1>1, <1>4 DEF Some
  <2> QED BY <2>1 DEF MetricsInv
<1> QED BY <1>3, <1>4

LEMMA CountKeeps ==
  ASSUME MetricsInv, NEW t \in Recorders, Count(t)
  PROVE  MetricsInv'
<1>1. /\ op[t] = "count" /\ count_' = count_ + 1 /\ Then(t, "read sum")
      /\ recorded' = [recorded EXCEPT !.observed = @ + 1]
      /\ UNCHANGED <<requests_, connections_, sum_, bucket_, current>>
  BY DEF Count, values
<1>2. disturbed' = (disturbed \/ Some(Resetting))
  BY DEF Count
<1>3. /\ disturbed' \in BOOLEAN /\ (disturbed => disturbed')
      /\ ~disturbed' => ~Some(Resetting)
  <2>1. CASE disturbed \/ Some(Resetting)
    <3>1. disturbed' = TRUE
      BY <1>2, <2>1, Zenon
    <3> QED BY <3>1
  <2>2. CASE ~(disturbed \/ Some(Resetting))
    <3>1. disturbed' = FALSE
      BY <1>2, <2>2, Zenon
    <3> QED BY <2>2, <3>1
  <2> QED BY <2>1, <2>2
<1>4. /\ count_ \in Nat /\ sum_ \in Int /\ bucket_ \in Nat
      /\ count_' \in Nat /\ sum_' \in Int /\ bucket_' \in Nat
      /\ requests_' = requests_ /\ connections_' = connections_ /\ current' = current
  <2>1. count_ \in Nat /\ sum_ \in Int /\ bucket_ \in Nat
    BY DEF MetricsInv, MetricsType
  <2>2. /\ count_' = count_ + 1 /\ sum_' = sum_ /\ bucket_' = bucket_
        /\ requests_' = requests_ /\ connections_' = connections_ /\ current' = current
    BY <1>1
  <2> QED BY <2>1, <2>2
<1>5. /\ MetricsType' /\ Added' /\ Finite' /\ op'[t] = "read sum"
      /\ \A u \in Recorders : u # t => op'[u] = op[u] /\ current'[u] = current[u]
  <2>1. recorded' = [recorded EXCEPT !.observed = count_']
    BY <1>1 DEF MetricsInv, Added
  <2>2. "read sum" \in Operations
    BY DEF Operations, Observing
  <2>3. Then(t, "read sum")
    BY <1>1
  <2> QED BY <1>3, <1>4, <2>1, <2>2, <2>3, HistogramTypes
<1>6. /\ Alone'
      /\ (~disturbed' /\ ~Some(Resetting)') => (~disturbed /\ ~Some(Resetting) /\ Observed)
  <2>1. op'[t] \notin Resetting
    BY <1>5 DEF Resetting
  <2> QED BY <1>3, <1>5, <2>1, ObservingKeepsAlone
<1>7. ASSUME Observed PROVE Observed'
  <2> DEFINE a == Cardinality(Inside(op, Unfilled))
             b == Cardinality(Inside(op, Unsummed))
             c == Cardinality(Inside(op', Unfilled))
             d == Cardinality(Inside(op', Unsummed))
  <2>1. a \in Nat /\ c = a + 1 /\ b \in Nat /\ d = b + 1
    <3>1. op'[t] \in Unfilled /\ op[t] \notin Unfilled /\ op'[t] \in Unsummed /\ op[t] \notin Unsummed
      BY <1>1, <1>5 DEF Unfilled, Unsummed
    <3> QED BY <1>5, <3>1, Moves DEF MetricsInv, Finite
  <2>2. Lacks(a, b)
    BY <1>7 DEF Observed
  <2> HIDE DEF a, b, c, d
  <2>3. count_' = count_ + 1 /\ sum_' = sum_ /\ bucket_' = bucket_
    BY <1>1
  <2>4. count_' - c = count_ - a /\ count_' - d = count_ - b /\ ((d < count_') <=> (b < count_))
    BY <1>4, <2>1, <2>3
  <2>5. a <= count_ /\ b <= count_
    BY <2>2 DEF Lacks
  <2>6. c <= count_' /\ d <= count_'
    BY <1>4, <2>1, <2>3, <2>5
  <2>7. \A u \in Recorders : op'[u] = "store sum" => op[u] = "store sum" /\ current'[u] = current[u]
    BY <1>1, <1>5
  <2>8. ASSUME NEW m, NEW n, m = c, n = d PROVE Lacks(m, n)'
    BY <2>2, <2>3, <2>4, <2>6, <2>7, <2>8 DEF Lacks
  <2> QED BY <2>8 DEF Observed, c, d
<1> QED BY <1>5, <1>6, <1>7 DEF MetricsInv


LEMMA ReadSumKeeps ==
  ASSUME MetricsInv, NEW t \in Recorders, ReadSum(t)
  PROVE  MetricsInv'
<1>1. /\ op[t] = "read sum" /\ Then(t, "store sum") /\ Read(t, sum_)
      /\ requests_' = requests_ /\ connections_' = connections_
      /\ count_' = count_ /\ sum_' = sum_ /\ bucket_' = bucket_
      /\ recorded' = recorded /\ disturbed' = disturbed
  BY DEF ReadSum, values, histogram, history
<1>2. /\ count_ \in Nat /\ sum_ \in Int /\ bucket_ \in Nat /\ disturbed \in BOOLEAN
      /\ current \in [Recorders -> Int]
      /\ recorded = [recorded EXCEPT !.observed = count_]
  BY DEF MetricsInv, MetricsType, Added
<1>3. /\ MetricsType' /\ Added' /\ Finite' /\ op'[t] = "store sum"
      /\ \A u \in Recorders : u # t => op'[u] = op[u] /\ current'[u] = current[u]
  <2>1. "store sum" \in Operations
    BY DEF Operations, Observing
  <2>2. count_' \in Nat /\ sum_' \in Int /\ bucket_' \in Nat /\ disturbed' \in BOOLEAN
    BY <1>1, <1>2
  <2>3. recorded' = [recorded EXCEPT !.observed = count_']
    BY <1>1, <1>2
  <2> QED BY <1>1, <2>1, <2>2, <2>3, HistogramTypes
<1>4. /\ Alone'
      /\ (~disturbed' /\ ~Some(Resetting)') => (~disturbed /\ ~Some(Resetting) /\ Observed)
  <2>1. op'[t] \notin Resetting /\ op[t] \in Unfilled
    BY <1>1, <1>3 DEF Resetting, Unfilled
  <2>2. disturbed => disturbed'
    BY <1>1, <1>2
  <2> QED BY <1>3, <2>1, <2>2, ObservingKeepsAlone
<1>5. ASSUME Observed PROVE Observed'
  <2> DEFINE a == Cardinality(Inside(op, Unfilled))
             b == Cardinality(Inside(op, Unsummed))
             c == Cardinality(Inside(op', Unfilled))
             d == Cardinality(Inside(op', Unsummed))
  <2>1. a = c /\ b = d
    <3>1. op'[t] \in Unfilled /\ op[t] \in Unfilled /\ op'[t] \in Unsummed /\ op[t] \in Unsummed
      BY <1>1, <1>3 DEF Unfilled, Unsummed
    <3> QED BY <1>3, <3>1, Moves DEF MetricsInv, Finite
  <2>2. Lacks(a, b)
    BY <1>5 DEF Observed
  <2> HIDE DEF a, b, c, d
  <2>3. current'[t] = sum_
    BY <1>1, <1>2 DEF Read
  <2>4. ASSUME NEW m, NEW n, m = c, n = d PROVE Lacks(m, n)'
    BY <1>1, <1>3, <2>1, <2>2, <2>3, <2>4 DEF Lacks
  <2> QED BY <2>4 DEF Observed, c, d
<1> QED BY <1>3, <1>4, <1>5 DEF MetricsInv


LEMMA StoreSumKeeps ==
  ASSUME MetricsInv, NEW t \in Recorders, StoreSum(t)
  PROVE  MetricsInv'
<1>1. /\ op[t] = "store sum" /\ Then(t, "fill bucket") /\ sum_' = current[t] + 1
      /\ requests_' = requests_ /\ connections_' = connections_
      /\ count_' = count_ /\ bucket_' = bucket_ /\ current' = current
      /\ recorded' = recorded /\ disturbed' = disturbed
  BY DEF StoreSum, values, history
<1>2. /\ count_ \in Nat /\ sum_ \in Int /\ bucket_ \in Nat /\ disturbed \in BOOLEAN
      /\ current \in [Recorders -> Int]
      /\ recorded = [recorded EXCEPT !.observed = count_]
  BY DEF MetricsInv, MetricsType, Added
<1>3. /\ MetricsType' /\ Added' /\ Finite' /\ op'[t] = "fill bucket"
      /\ \A u \in Recorders : u # t => op'[u] = op[u] /\ current'[u] = current[u]
  <2>1. "fill bucket" \in Operations
    BY DEF Operations, Observing
  <2>2. count_' \in Nat /\ sum_' \in Int /\ bucket_' \in Nat /\ disturbed' \in BOOLEAN
    <3>1. current[t] \in Int
      BY <1>2
    <3>2. sum_' = current[t] + 1
      BY <1>1
    <3>3. sum_' \in Int
      BY <3>1, <3>2
    <3> QED BY <1>1, <1>2, <3>3
  <2>3. recorded' = [recorded EXCEPT !.observed = count_']
    BY <1>1, <1>2
  <2> QED BY <1>1, <2>1, <2>2, <2>3, HistogramTypes
<1>4. /\ Alone'
      /\ (~disturbed' /\ ~Some(Resetting)') => (~disturbed /\ ~Some(Resetting) /\ Observed)
  <2>1. op'[t] \notin Resetting /\ op[t] \in Unfilled
    BY <1>1, <1>3 DEF Resetting, Unfilled
  <2>2. disturbed => disturbed'
    BY <1>1, <1>2
  <2> QED BY <1>3, <2>1, <2>2, ObservingKeepsAlone
<1>5. ASSUME Observed PROVE Observed'
  <2> DEFINE a == Cardinality(Inside(op, Unfilled))
             b == Cardinality(Inside(op, Unsummed))
             c == Cardinality(Inside(op', Unfilled))
             d == Cardinality(Inside(op', Unsummed))
  <2>1. a = c /\ d \in Nat /\ b = d + 1
    <3>1. op'[t] \in Unfilled /\ op[t] \in Unfilled /\ op'[t] \notin Unsummed /\ op[t] \in Unsummed
      BY <1>1, <1>3 DEF Unfilled, Unsummed
    <3> QED BY <1>3, <3>1, Moves DEF MetricsInv, Finite
  <2>2. Lacks(a, b)
    BY <1>5 DEF Observed
  <2> HIDE DEF a, b, c, d
\* What was read was at most what had been added, and is one less than that now.
  <2>3. current[t] \in Nat /\ current[t] <= count_ - b
    BY <1>1, <2>2 DEF Lacks
  <2>4. sum_' \in Nat /\ sum_' > 0 /\ sum_' <= count_ - d /\ d <= count_
    <3> DEFINE e == current[t]
    <3>1. e \in Nat /\ e <= count_ - b /\ sum_' = e + 1 /\ count_ \in Nat
      BY <1>1, <1>2, <2>3
    <3> HIDE DEF e
    <3> QED BY <2>1, <3>1
  <2>5. ASSUME NEW u \in Recorders, op'[u] = "store sum"
        PROVE  current[u] \in Nat /\ current[u] <= count_ - d
    <3>1. op[u] = "store sum"
      BY <1>3, <2>5
    <3>2. current[u] \in Nat /\ current[u] <= count_ - b
      BY <2>2, <3>1 DEF Lacks
    <3> QED BY <1>2, <2>1, <3>2
  <2>6. a <= count_ /\ bucket_ = (count_ - a) % BucketLimit
    BY <2>2 DEF Lacks
  <2>7. ASSUME NEW m, NEW n, m = c, n = d PROVE Lacks(m, n)'
    BY <1>1, <2>1, <2>4, <2>5, <2>6, <2>7 DEF Lacks
  <2> QED BY <2>7 DEF Observed, c, d
<1> QED BY <1>3, <1>4, <1>5 DEF MetricsInv

LEMMA FillBucketKeeps ==
  ASSUME MetricsInv, NEW t \in Recorders, FillBucket(t)
  PROVE  MetricsInv'
<1>1. /\ op[t] = "fill bucket" /\ Then(t, "idle") /\ bucket_' = (bucket_ + 1) % BucketLimit
      /\ requests_' = requests_ /\ connections_' = connections_
      /\ count_' = count_ /\ sum_' = sum_ /\ current' = current
      /\ recorded' = recorded /\ disturbed' = disturbed
  BY DEF FillBucket, values, history
<1>2. /\ count_ \in Nat /\ sum_ \in Int /\ bucket_ \in Nat /\ disturbed \in BOOLEAN
      /\ BucketLimit \in Nat \ {0}
      /\ recorded = [recorded EXCEPT !.observed = count_]
  BY MetricsAssumption DEF MetricsInv, MetricsType, Added, MetricsAssumption
<1>3. /\ MetricsType' /\ Added' /\ Finite' /\ op'[t] = "idle"
      /\ \A u \in Recorders : u # t => op'[u] = op[u] /\ current'[u] = current[u]
  <2>1. "idle" \in Operations
    BY DEF Operations
  <2>2. bucket_' \in Nat
    <3>1. bucket_ + 1 \in Nat /\ BucketLimit \in Nat \ {0}
      BY <1>2
    <3>2. (bucket_ + 1) % BucketLimit \in 0..(BucketLimit - 1)
      BY <3>1, Quotient
    <3>3. bucket_' \in 0..(BucketLimit - 1)
      BY <1>1, <3>2
    <3> QED BY <3>1, <3>3
  <2>3. count_' \in Nat /\ sum_' \in Int /\ disturbed' \in BOOLEAN
    BY <1>1, <1>2
  <2>4. recorded' = [recorded EXCEPT !.observed = count_']
    BY <1>1, <1>2
  <2> QED BY <1>1, <2>1, <2>2, <2>3, <2>4, HistogramTypes
<1>4. /\ Alone'
      /\ (~disturbed' /\ ~Some(Resetting)') => (~disturbed /\ ~Some(Resetting) /\ Observed)
  <2>1. op'[t] \notin Resetting /\ op[t] \in Unfilled
    BY <1>1, <1>3 DEF Resetting, Unfilled
  <2>2. disturbed => disturbed'
    BY <1>1, <1>2
  <2> QED BY <1>3, <2>1, <2>2, ObservingKeepsAlone
<1>5. ASSUME Observed PROVE Observed'
  <2> DEFINE a == Cardinality(Inside(op, Unfilled))
             b == Cardinality(Inside(op, Unsummed))
             c == Cardinality(Inside(op', Unfilled))
             d == Cardinality(Inside(op', Unsummed))
  <2>1. c \in Nat /\ a = c + 1 /\ b = d
    <3>1. op'[t] \notin Unfilled /\ op[t] \in Unfilled /\ op'[t] \notin Unsummed /\ op[t] \notin Unsummed
      BY <1>1, <1>3 DEF Unfilled, Unsummed
    <3> QED BY <1>3, <3>1, Moves DEF MetricsInv, Finite
  <2>2. Lacks(a, b)
    BY <1>5 DEF Observed
  <2> HIDE DEF a, b, c, d
  <2>3. a <= count_ /\ bucket_ = (count_ - a) % BucketLimit
    BY <2>2 DEF Lacks
  <2>4. c <= count_ /\ count_ - a \in Nat /\ (count_ - a) + 1 = count_ - c
    BY <1>2, <2>1, <2>3
  <2>5. bucket_' = (count_ - c) % BucketLimit
    <3> DEFINE k == count_ - a
    <3>1. (k + 1) % BucketLimit = ((k % BucketLimit) + 1) % BucketLimit
      BY <1>2, <2>4, RemainderNext
    <3> QED BY <1>1, <2>3, <2>4, <3>1
  <2>6. \A u \in Recorders : op'[u] = "store sum" => op[u] = "store sum"
    BY <1>3
  <2>7. ASSUME NEW m, NEW n, m = c, n = d PROVE Lacks(m, n)'
    BY <1>1, <2>1, <2>2, <2>4, <2>5, <2>6, <2>7 DEF Lacks
  <2> QED BY <2>7 DEF Observed, c, d
<1> QED BY <1>3, <1>4, <1>5 DEF MetricsInv

LEMMA ResetKeeps ==
  ASSUME MetricsInv, NEW t \in Recorders, ResetSum(t) \/ ResetCount(t)
  PROVE  MetricsInv'
<1>1. /\ count_ \in Nat /\ sum_ \in Int /\ bucket_ \in Nat /\ disturbed \in BOOLEAN
      /\ recorded = [recorded EXCEPT !.observed = count_]
  BY DEF MetricsInv, MetricsType, Added
<1>2. CASE ResetSum(t)
  <2>1. /\ op[t] = "idle" /\ Then(t, "reset count") /\ sum_' = 0
        /\ requests_' = requests_ /\ connections_' = connections_
        /\ count_' = count_ /\ bucket_' = bucket_ /\ current' = current /\ recorded' = recorded
    BY <1>2 DEF ResetSum, values
  <2>2. disturbed' \in BOOLEAN /\ (~disturbed' => \A u \in Recorders : op[u] \notin Unfilled \cup Resetting)
    <3>1. disturbed' = (disturbed \/ Some((Observing \ {"count"}) \cup Resetting))
      BY <1>2 DEF ResetSum
    <3>2. CASE disturbed \/ Some((Observing \ {"count"}) \cup Resetting)
      <4>1. disturbed' = TRUE
        BY <3>1, <3>2, Zenon
      <4> QED BY <4>1
    <3>3. CASE ~(disturbed \/ Some((Observing \ {"count"}) \cup Resetting))
      <4>1. disturbed' = FALSE
        BY <3>1, <3>3, Zenon
      <4>2. \A u \in Recorders : op[u] \notin (Observing \ {"count"}) \cup Resetting
        BY <3>3 DEF Some
      <4> QED BY <4>1, <4>2 DEF Observing, Unfilled
    <3> QED BY <3>2, <3>3
  <2>3. /\ MetricsType' /\ Added' /\ Finite' /\ op'[t] = "reset count"
        /\ \A u \in Recorders : u # t => op'[u] = op[u]
    <3>1. "reset count" \in Operations
      BY DEF Operations, Resetting
    <3>2. count_' = count_ /\ sum_' = 0 /\ bucket_' = bucket_
      BY <2>1
    <3>3. count_' \in Nat /\ sum_' \in Int /\ bucket_' \in Nat
      BY <1>1, <3>2
    <3>4. recorded' = [recorded EXCEPT !.observed = count_']
      BY <1>1, <2>1
    <3> QED BY <2>1, <2>2, <3>1, <3>3, <3>4, HistogramTypes
  <2>4. ASSUME ~disturbed' PROVE \A u \in Recorders : op'[u] \in Resetting => Sole(u)'
    <3>1. \A u \in Recorders : op'[u] \notin Unfilled /\ (op'[u] \in Resetting => u = t)
      BY <2>2, <2>3, <2>4 DEF Unfilled
    <3>2. op'[t] # "reset bucket"
      BY <2>3
    <3>3. Sole(t)'
      BY <2>1, <3>1, <3>2 DEF Sole
    <3> QED BY <3>1, <3>3
  <2>5. Alone'
    BY <2>4, Zenon DEF Alone
  <2>6. Some(Resetting)'
    BY <2>3 DEF Some, Resetting
  <2> QED BY <2>3, <2>5, <2>6 DEF MetricsInv
<1>3. CASE ResetCount(t)
  <2>1. /\ op[t] = "reset count" /\ Then(t, "reset bucket") /\ count_' = 0
        /\ requests_' = requests_ /\ connections_' = connections_ /\ disturbed' = disturbed
        /\ sum_' = sum_ /\ bucket_' = bucket_ /\ current' = current
        /\ recorded' = [recorded EXCEPT !.observed = 0]
    BY <1>3 DEF ResetCount, values
  <2>2. /\ MetricsType' /\ Added' /\ Finite' /\ op'[t] = "reset bucket"
        /\ \A u \in Recorders : u # t => op'[u] = op[u]
    <3>1. "reset bucket" \in Operations
      BY DEF Operations, Resetting
    <3>2. count_' \in Nat /\ sum_' \in Int /\ bucket_' \in Nat
      BY <1>1, <2>1
    <3>3. disturbed' \in BOOLEAN
      BY <1>1, <2>1
    <3>4. recorded' = [recorded EXCEPT !.observed = count_']
      BY <2>1
    <3> QED BY <2>1, <3>1, <3>2, <3>3, <3>4, HistogramTypes
  <2>3. ASSUME ~disturbed' PROVE \A u \in Recorders : op'[u] \in Resetting => Sole(u)'
    <3>1. ~disturbed
      BY <1>1, <2>1, <2>3
    <3>2. op[t] \in Resetting
      BY <2>1 DEF Resetting
    <3>3. Sole(t)
      BY <3>1, <3>2, Zenon DEF MetricsInv, Alone
    <3>4. op'[t] \notin Unfilled
      BY <2>2 DEF Unfilled
    <3>5. \A u \in Recorders : op'[u] \notin Unfilled /\ (op'[u] \in Resetting => u = t)
      BY <2>2, <3>3, <3>4 DEF Sole
    <3>6. sum_' = 0
      BY <2>1, <3>3 DEF Sole
    <3>7. Sole(t)'
      BY <2>1, <3>5, <3>6 DEF Sole
    <3> QED BY <3>5, <3>7
  <2>4. Alone'
    BY <2>3, Zenon DEF Alone
  <2>5. Some(Resetting)'
    BY <2>2 DEF Some, Resetting
  <2> QED BY <2>2, <2>4, <2>5 DEF MetricsInv
<1> QED BY <1>2, <1>3

LEMMA ResetBucketKeeps ==
  ASSUME MetricsInv, NEW t \in Recorders, ResetBucket(t)
  PROVE  MetricsInv'
<1>1. /\ op[t] = "reset bucket" /\ Then(t, "idle") /\ bucket_' = 0
      /\ requests_' = requests_ /\ connections_' = connections_
      /\ count_' = count_ /\ sum_' = sum_ /\ current' = current
      /\ recorded' = recorded /\ disturbed' = disturbed
  BY DEF ResetBucket, values, history
<1>2. /\ count_ \in Nat /\ sum_ \in Int /\ disturbed \in BOOLEAN
      /\ recorded = [recorded EXCEPT !.observed = count_]
  BY DEF MetricsInv, MetricsType, Added
<1>3. /\ MetricsType' /\ Added' /\ Finite' /\ op'[t] = "idle"
      /\ \A u \in Recorders : u # t => op'[u] = op[u]
  <2>1. "idle" \in Operations
    BY DEF Operations
  <2>2. count_' \in Nat /\ sum_' \in Int /\ bucket_' \in Nat /\ disturbed' \in BOOLEAN
    BY <1>1, <1>2
  <2>3. recorded' = [recorded EXCEPT !.observed = count_']
    BY <1>1, <1>2
  <2> QED BY <1>1, <2>1, <2>2, <2>3, HistogramTypes
<1>4. ASSUME ~disturbed'
      PROVE  /\ \A u \in Recorders : op'[u] \notin Unfilled \cup Resetting
             /\ count_ = 0 /\ sum_ = 0
  <2>1. ~disturbed
    BY <1>1, <1>2, <1>4
  <2>2. op[t] \in Resetting
    BY <1>1 DEF Resetting
  <2>3. Sole(t)
    BY <2>1, <2>2, Zenon DEF MetricsInv, Alone
  <2>4. op'[t] \notin Unfilled \cup Resetting
    BY <1>3 DEF Unfilled, Resetting
  <2> QED BY <1>1, <1>3, <2>3, <2>4 DEF Sole
<1>5. Alone'
  <2>1. ASSUME ~disturbed' PROVE \A u \in Recorders : op'[u] \in Resetting => Sole(u)'
    BY <1>4, <2>1
  <2> QED BY <2>1, Zenon DEF Alone
<1>6. ASSUME ~disturbed' PROVE Observed'
  <2>1. Inside(op', Unfilled) = {} /\ Inside(op', Unsummed) = {}
    BY <1>4, <1>6 DEF Inside, Unfilled, Unsummed
  <2>2. Cardinality(Inside(op', Unfilled)) = 0 /\ Cardinality(Inside(op', Unsummed)) = 0
    BY <2>1, FS_EmptySet
  <2>3. bucket_' = (count_' - 0) % BucketLimit
    <3>1. (0 - 0) % BucketLimit = 0
      BY MetricsAssumption DEF MetricsAssumption
    <3> QED BY <1>1, <1>4, <1>6, <3>1
  <2>4. \A u \in Recorders : op'[u] # "store sum"
    BY <1>4, <1>6 DEF Unfilled
  <2>5. 0 <= count_' /\ sum_' \in Nat /\ sum_' <= count_' - 0 /\ ~(0 < count_')
    <3>1. count_' = count_ /\ sum_' = sum_ /\ count_ = 0 /\ sum_ = 0
      BY <1>1, <1>4, <1>6
    <3> QED BY <3>1
  <2>6. Lacks(0, 0)'
    BY <2>3, <2>4, <2>5 DEF Lacks
  <2> QED BY <2>2, <2>6 DEF Observed
<1> QED BY <1>3, <1>5, <1>6 DEF MetricsInv

LEMMA MetricsKeeps == MetricsInv /\ [MetricsNext]_metricsVars => MetricsInv'
<1> SUFFICES ASSUME MetricsInv, [MetricsNext]_metricsVars PROVE MetricsInv'
  OBVIOUS
<1>1. CASE MetricsNext /\ ~initializeDefaultMetrics
  BY <1>1, AddingKeeps, CountKeeps, ReadSumKeeps, StoreSumKeeps, FillBucketKeeps, ResetKeeps,
     ResetBucketKeeps DEF MetricsNext
<1>2. CASE initializeDefaultMetrics \/ UNCHANGED metricsVars
  <2>1. /\ UNCHANGED <<requests_, connections_, count_, sum_, bucket_>>
        /\ UNCHANGED <<op, current, recorded, disturbed>>
    BY <1>2 DEF metricsVars, initializeDefaultMetrics, histogram, history
  <2>2. MetricsType' /\ Added' /\ Finite'
    BY <2>1 DEF MetricsInv, MetricsType, Added, Finite, Inside
  <2>3. Alone' /\ ((~disturbed' /\ ~Some(Resetting)') => Observed')
    BY <2>1 DEF MetricsInv, Alone, Sole, Some, Observed, Lacks, Inside
  <2> QED BY <2>2, <2>3 DEF MetricsInv
<1> QED BY <1>1, <1>2

\* The counter and the gauge lose nothing; a histogram whose resets met no
\* observation agrees with what was observed as soon as nobody is inside.
THEOREM TalliedHolds == Spec => []Tallied
<1>1. Init => MetricsInv
  BY InitMetricsInv DEF Init
<1>2. MetricsInv /\ [Next]_vars => MetricsInv'
  BY MetricsKeeps DEF Next, Only, vars
<1>3. ASSUME MetricsInv PROVE Tallied
  <2>1. requests_ = recorded.requests /\ connections_ = recorded.connections /\ count_ = recorded.observed
    BY <1>3 DEF MetricsInv, Added
  <2>2. ASSUME \A t \in Recorders : op[t] = "idle", ~disturbed
        PROVE  bucket_ = count_ % BucketLimit /\ sum_ <= count_ /\ (count_ > 0 => sum_ > 0)
    <3>1. Inside(op, Unfilled) = {} /\ Inside(op, Unsummed) = {} /\ ~Some(Resetting)
      BY <2>2 DEF Inside, Unfilled, Unsummed, Some, Resetting
    <3>2. Lacks(0, 0)
      BY <1>3, <2>2, <3>1, FS_EmptySet DEF MetricsInv, Observed
    <3>3. count_ \in Nat /\ count_ - 0 = count_
      BY <1>3 DEF MetricsInv, MetricsType
    <3> QED BY <3>2, <3>3 DEF Lacks
  <2> QED BY <2>1, <2>2 DEF Tallied
<1> QED BY <1>1, <1>2, <1>3, PTL DEF Spec

=============================================================================
