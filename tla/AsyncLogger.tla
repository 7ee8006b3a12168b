----------------------------- MODULE AsyncLogger -----------------------------
(***************************************************************************)
(* The logger behind a file appender (src/logger.cpp): threads push        *)
(* entries, the loop of AsyncLogger pops and writes them, the file is      *)
(* rotated when it is full, and the process ends, cleanly or not, and is   *)
(* started again on the files it left.  Entries are numbered as they are   *)
(* pushed and all of one size; other appenders and levels are left out.    *)
(*                                                                         *)
(* queue_mutex_ is held across steps only by a loop that has found nothing *)
(* and is about to wait: "parking".                                        *)
(***************************************************************************)
EXTENDS Naturals, Sequences, SequencesExt

CONSTANTS
  Loggers,
  max_files_, max_file_size_,   \* the size in entries
  MaxEntries, MaxStarts         \* bounds

ASSUME LoggerAssumption ==
  /\ {max_files_, max_file_size_} \subseteq Nat \ {0}
  /\ MaxEntries \in Nat /\ MaxStarts \in Nat

VARIABLES
  process,       \* "down", "starting", "up", "stopping", "joining"
  running_,
  log_thread_,   \* where the loop's thread is: see ThreadLocations
  log_queue_, entry,
  notifying,     \* threads that have pushed and not notified yet
  files,         \* 0 is the file that is written, the older the higher; <<>> for none
  file_stream_,  \* "none" without an appender, "open", "closed"
  current_file_size_,
  slot,          \* the file that is renamed next
  pushed,        \* how many entries there have been
  started,
  appended,      \* history: the entries written
  lost,          \* history: entries pending when a process ended, or taken with no open file
  torn,          \* history: a process ended between a write and the last renaming
  faulty         \* history: a file could not be renamed or opened

life     == <<process, started>>
appender == <<files, file_stream_, current_file_size_, slot, appended, torn, faulty>>
loggerVars == <<life, running_, log_thread_, log_queue_, entry, notifying, pushed, lost, appender>>

LoggerInit ==
  /\ process = "down" /\ running_ = FALSE /\ log_thread_ = "none"
  /\ log_queue_ = <<>> /\ entry = 0 /\ notifying = {}
  /\ files = [i \in 0..max_files_ |-> <<>>] /\ file_stream_ = "none"
  /\ current_file_size_ = 0 /\ slot = 0
  /\ pushed = 0 /\ started = 0
  /\ appended = <<>> /\ lost = {} /\ torn = FALSE /\ faulty = FALSE

-----------------------------------------------------------------------------
(* The process                                                             *)

\* Logger::initialize: start, and then the appender.  Nothing has set running_
\* before start reads it: where the memory is not zero the logger believes it
\* runs, and no thread does.
initialize ==
  /\ process = "down" /\ started < MaxStarts
  /\ process' = "starting" /\ started' = started + 1
  /\ running_' = TRUE
  /\ log_thread_' \in {"testing", "none"}
  /\ UNCHANGED <<log_queue_, entry, notifying, pushed, lost, appender>>

\* file_stream_.open, of the constructor and after a rotation.
Open ==
  /\ file_stream_' \in {"open", "closed"}
  /\ faulty' = (faulty \/ file_stream_' = "closed")

\* FileAppender's constructor goes on with the file there is.
addAppender ==
  /\ process = "starting" /\ process' = "up"
  /\ Open
  /\ current_file_size_' = IF file_stream_' = "open" THEN Len(files[0]) ELSE 0
  /\ UNCHANGED <<started, running_, log_thread_, log_queue_, entry, notifying, pushed, lost,
                 files, slot, appended, torn>>

\* stop, in the destructor: the flag, the notification and the join.
Stop ==
  /\ process = "up"
  /\ process' = "stopping" /\ running_' = FALSE
  /\ UNCHANGED <<started, log_thread_, log_queue_, entry, notifying, pushed, lost, appender>>

StopNotifies ==
  /\ process = "stopping"
  /\ process' = "joining"
  /\ log_thread_' = IF log_thread_ = "waiting" THEN "locking" ELSE log_thread_
  /\ UNCHANGED <<started, running_, log_queue_, entry, notifying, pushed, lost, appender>>

Pending == ToSet(log_queue_) \cup (IF log_thread_ = "appending" THEN {entry} ELSE {})

\* After the join, or killed wherever it is.
Ends ==
  /\ process # "down"
  /\ process' = "down" /\ running_' = FALSE /\ log_thread_' = "none"
  /\ log_queue_' = <<>> /\ entry' = 0 /\ notifying' = {}
  /\ file_stream_' = "none" /\ current_file_size_' = 0 /\ slot' = 0
  /\ lost' = lost \cup Pending
  /\ torn' = (torn \/ log_thread_ = "rotating")
  /\ UNCHANGED <<started, pushed, files, appended, faulty>>

-----------------------------------------------------------------------------
(* AsyncLogger                                                             *)

ThreadLocations ==
  {"none", "testing", "locking", "parking", "waiting", "popping", "appending", "rotating",
   "reopening", "ended"}

\* Mutant: the entry is pushed without the mutex.
Push_Unlocked(t) ==
  /\ process # "down" /\ t \notin notifying /\ pushed < MaxEntries
  /\ pushed' = pushed + 1
  /\ log_queue_' = Append(log_queue_, pushed + 1)
  /\ notifying' = notifying \cup {t}
  /\ UNCHANGED <<life, running_, log_thread_, entry, lost, appender>>

\* log: push under the mutex, then notify_one.
Push(t) ==
  /\ process # "down" /\ t \notin notifying /\ pushed < MaxEntries
  /\ log_thread_ # "parking"
  /\ pushed' = pushed + 1
  /\ log_queue_' = Append(log_queue_, pushed + 1)
  /\ notifying' = notifying \cup {t}
  /\ UNCHANGED <<life, running_, log_thread_, entry, lost, appender>>

Notify(t) ==
  /\ t \in notifying
  /\ notifying' = notifying \ {t}
  /\ log_thread_' = IF log_thread_ = "waiting" THEN "locking" ELSE log_thread_
  /\ UNCHANGED <<life, running_, log_queue_, entry, pushed, lost, appender>>

TestRunning ==
  /\ log_thread_ = "testing"
  /\ log_thread_' = IF running_ THEN "locking" ELSE "ended"
  /\ UNCHANGED <<life, running_, log_queue_, entry, notifying, pushed, lost, appender>>

\* The predicate of the wait, and the test that follows it.
TestQueue ==
  /\ log_thread_ = "locking"
  /\ log_thread_' = IF ~running_ THEN "ended" ELSE IF log_queue_ = <<>> THEN "parking" ELSE "popping"
  /\ UNCHANGED <<life, running_, log_queue_, entry, notifying, pushed, lost, appender>>

Park ==
  /\ log_thread_ = "parking" /\ log_thread_' = "waiting"
  /\ UNCHANGED <<life, running_, log_queue_, entry, notifying, pushed, lost, appender>>

WakesSpuriously ==
  /\ log_thread_ = "waiting" /\ log_thread_' = "locking"
  /\ UNCHANGED <<life, running_, log_queue_, entry, notifying, pushed, lost, appender>>

\* It drains the queue even when it has been told to stop.
Pop ==
  /\ log_thread_ = "popping"
  /\ IF log_queue_ = <<>> THEN log_thread_' = "testing" /\ UNCHANGED <<log_queue_, entry>>
     ELSE log_thread_' = "appending" /\ entry' = Head(log_queue_) /\ log_queue_' = Tail(log_queue_)
  /\ UNCHANGED <<life, running_, notifying, pushed, lost, appender>>

-----------------------------------------------------------------------------
(* FileAppender                                                            *)

loopOnly == <<life, running_, log_queue_, entry, notifying, pushed>>

\* An entry that is taken before the appender is there, or while its file is
\* not open, goes nowhere.
DropEntry ==
  /\ log_thread_ = "appending" /\ file_stream_ # "open"
  /\ log_thread_' = "popping"
  /\ lost' = lost \cup {entry}
  /\ UNCHANGED <<loopOnly, appender>>

\* append, up to the test of the size.
append ==
  /\ log_thread_ = "appending" /\ file_stream_ = "open"
  /\ files' = [files EXCEPT ![0] = Append(@, entry)]
  /\ appended' = Append(appended, entry)
  /\ current_file_size_' = current_file_size_ + 1
  /\ IF current_file_size_ + 1 >= max_file_size_
     THEN log_thread_' = "rotating" /\ file_stream_' = "closed" /\ slot' = max_files_ - 1
     ELSE log_thread_' = "popping" /\ UNCHANGED <<file_stream_, slot>>
  /\ UNCHANGED <<loopOnly, lost, torn, faulty>>

\* What follows the renaming of one file.
NextSlot == IF slot = 0 THEN log_thread_' = "reopening" /\ UNCHANGED slot
            ELSE slot' = slot - 1 /\ UNCHANGED log_thread_

\* Mutant: from the first file up.
Rename_Upwards ==
  /\ log_thread_ = "rotating"
  /\ LET i == (max_files_ - 1) - slot IN files' = [files EXCEPT ![i + 1] = files[i], ![i] = <<>>]
  /\ NextSlot
  /\ UNCHANGED <<loopOnly, lost, file_stream_, current_file_size_, appended, torn, faulty>>

\* rotateFile, from the last file but one down: one that is there becomes the
\* next, which is lost.
Rename ==
  /\ log_thread_ = "rotating"
  /\ files' = IF files[slot] = <<>> THEN files
              ELSE [files EXCEPT ![slot + 1] = files[slot], ![slot] = <<>>]
  /\ NextSlot
  /\ UNCHANGED <<loopOnly, lost, file_stream_, current_file_size_, appended, torn, faulty>>

\* What rename returns is not looked at.
RenameFails ==
  /\ log_thread_ = "rotating" /\ files[slot] # <<>>
  /\ faulty' = TRUE
  /\ NextSlot
  /\ UNCHANGED <<loopOnly, lost, files, file_stream_, current_file_size_, appended, torn>>

\* The size is zero whatever there is in the file.
Reopen ==
  /\ log_thread_ = "reopening" /\ log_thread_' = "popping"
  /\ Open
  /\ current_file_size_' = 0
  /\ UNCHANGED <<loopOnly, lost, files, slot, appended, torn>>

-----------------------------------------------------------------------------
LoopStep ==
  \/ TestRunning \/ TestQueue \/ Park \/ Pop
  \/ DropEntry \/ append \/ Rename \/ RenameFails \/ Reopen

LoggerNext ==
  \/ initialize \/ addAppender \/ Stop \/ StopNotifies \/ Ends
  \/ LoopStep \/ WakesSpuriously
  \/ \E t \in Loggers : Push(t) \/ Notify(t)

-----------------------------------------------------------------------------
\* How many files have been filled, and what went into the k-th of them.
Filled   == Len(appended) \div max_file_size_
Block(k) == IF k < 1 THEN <<>>
            ELSE SubSeq(appended, (k - 1) * max_file_size_ + 1, k * max_file_size_)

InFiles(e) == \E i \in 0..max_files_ : e \in ToSet(files[i])

\* What was written is in the order of the pushes, and what it leaves out was
\* lost with a process or had no open file.
InPushOrder ==
  \A k \in 1..Len(appended) - 1 :
    /\ appended[k] < appended[k + 1]
    /\ \A e \in (appended[k] + 1)..(appended[k + 1] - 1) : e \in lost

\* Each file follows those with higher numbers: nothing is there twice.
FilesInOrder ==
  \A i, j \in 0..max_files_ : \A k \in DOMAIN files[i], l \in DOMAIN files[j] :
    j < i \/ (j = i /\ k < l) => files[i][k] < files[j][l]

\* The files hold the end of what was written, without a gap, ...
NoGap ==
  /\ appended # <<>> => InFiles(appended[Len(appended)])
  /\ \A k \in 1..Len(appended) - 1 : InFiles(appended[k]) => InFiles(appended[k + 1])

\* ... as many full files of it as are kept and the one that is being filled.
InBlocks ==
  /\ files[0] = SubSeq(appended, Filled * max_file_size_ + 1, Len(appended))
  /\ \A i \in 1..max_files_ : files[i] = Block((Filled + 1) - i)

\* Rotations, stops and kills, at any step of a rotation too, and files that
\* cannot be renamed or opened never put the log out of order or in two files.
\* As long as nothing fails the files are the end of the log, and unless a kill
\* tears a rotation they are its last full files and the current one.
FilesKeepTail ==
  /\ InPushOrder /\ FilesInOrder
  /\ ~faulty => NoGap
  /\ ~faulty /\ ~torn /\ log_thread_ # "rotating" => InBlocks

\* What is in the queue is taken as long as the loop has its thread and is not
\* told to stop: nothing stays in the queue of a loop that sleeps.  (Pushes are
\* bounded, so the queue has to become empty.)
EntriesWritten ==
  log_queue_ # <<>> /\ log_thread_ # "none" ~> log_queue_ = <<>> \/ ~running_

=============================================================================
