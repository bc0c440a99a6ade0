------------------------------ MODULE RotatingLog ------------------------------
(****************************************************************************)
(* log/vp_log.c: threads log through one SZLOG.  A thread that finds the file *)
(* full renames it to an archive named after the second and opens a new one, *)
(* under m_lock; the writing that follows is not covered by the lock.        *)
(****************************************************************************)
EXTENDS Integers, Sequences
LOCAL INSTANCE FiniteSetsExt

CONSTANTS
    Thread,              \* threads that log
    LOG_FILE_SIZE_MAX,   \* counted in records
    MaxZlogs,            \* bound on the records
    MaxSecond,           \* bound on the clock
    MaxOpens             \* bound on the calls of zlog_open()

ASSUME RotatingLogAssumption ==
    /\ "none" \notin Thread
    /\ {LOG_FILE_SIZE_MAX, MaxZlogs, MaxOpens} \subseteq Nat /\ MaxSecond \in Nat \ {0}

VARIABLES
    g_zlog,     \* NULL or the SZLOG; a stream has the number of its file, 0 is NULL
    m_lock,     \* the thread that holds the mutex, or "none"
    zpc,        \* where each thread is
    zarg,       \* the stream a thread passes to fprintf()
    sum,        \* what a thread is about to store in fsize
    second,     \* the clock
    contents,   \* the records in each file, by the order of their creation
    current,    \* the file with the name of the log, or 0
    archive,    \* the file archived in each second, or 0
    crashed,
    zlogs,      \* history: how many records each thread has logged
    kept,       \* history: the records that have been written to a stream
    opens,      \* history: calls of zlog_open()
    raced,      \* history: a file has been rotated under a thread that was writing
    unopened,   \* history: ZLOG_FILE has been set without a file
    clobbered   \* history: two rotations in one second

zlogVars == <<g_zlog, m_lock, zpc, zarg, sum, second, contents, current, archive, crashed,
              zlogs, kept, opens, raced, unopened, clobbered>>

NoLog == [open |-> FALSE, file |-> FALSE, named |-> FALSE, fp |-> 0, fsize |-> 0]
Histories == <<zlogs, kept, opens, raced, unopened, clobbered>>
Disk == <<contents, current, archive>>

RotInit ==
    /\ g_zlog = NoLog /\ m_lock = "none"
    /\ zpc = [t \in Thread |-> "idle"] /\ zarg = [t \in Thread |-> 0] /\ sum = zarg
    /\ second = 1 /\ contents = <<>> /\ current = 0 /\ archive = [s \in 1..MaxSecond |-> 0]
    /\ crashed = FALSE
    /\ zlogs = zarg /\ kept = {} /\ opens = 0
    /\ raced = FALSE /\ unopened = FALSE /\ clobbered = FALSE

To(t, phase) == zpc' = [zpc EXCEPT ![t] = phase]
Quiet == \A t \in Thread : zpc[t] = "idle"

\* fopen(filename, "a"): the file is created if there is none.
fopen_a ==
    IF current # 0 THEN UNCHANGED <<contents, current>>
    ELSE /\ contents' = Append(contents, {})
         /\ current' = Len(contents) + 1

\* zlog_open(): nothing happens if the log is open; ZLOG_FILE stays set if the file
\* cannot be opened.
zlog_open ==
    /\ Quiet /\ ~g_zlog.open /\ opens < MaxOpens
    /\ opens' = opens + 1
    /\ \E file, ok \in BOOLEAN :
          IF file /\ ok
          THEN /\ fopen_a
               /\ g_zlog' = [NoLog EXCEPT !.open = TRUE, !.file = TRUE, !.named = TRUE, !.fp = current']
               /\ UNCHANGED unopened
          ELSE /\ g_zlog' = [NoLog EXCEPT !.open = TRUE, !.file = file]
               /\ unopened' = (unopened \/ file)
               /\ UNCHANGED <<contents, current>>
    /\ UNCHANGED <<m_lock, zpc, zarg, sum, second, archive, crashed, zlogs, kept, raced, clobbered>>

\* zlog_close(), while nobody logs: the stream is closed and the SZLOG freed.
zlog_close ==
    /\ Quiet /\ g_zlog.open
    /\ g_zlog' = NoLog
    /\ UNCHANGED <<m_lock, zpc, zarg, sum, second, Disk, crashed, Histories>>

\* Even if no file is open.
zlog_set_flag ==
    /\ g_zlog.open /\ ~g_zlog.file
    /\ g_zlog' = [g_zlog EXCEPT !.file = TRUE]
    /\ unopened' = (unopened \/ ~g_zlog.named)
    /\ UNCHANGED <<m_lock, zpc, zarg, sum, second, Disk, crashed, zlogs, kept, opens, raced, clobbered>>

zlog_reset_flag ==
    /\ g_zlog.open /\ g_zlog.file
    /\ g_zlog' = [g_zlog EXCEPT !.file = FALSE]
    /\ UNCHANGED <<m_lock, zpc, zarg, sum, second, Disk, crashed, Histories>>

\* vzlog(): without an SZLOG the record goes to stderr; a priority that is masked
\* is dropped, and without ZLOG_FILE there is nothing to be written.
vzlog(t) ==
    /\ zpc[t] = "idle" /\ MapThenSumSet(LAMBDA u : zlogs[u], Thread) < MaxZlogs
    /\ zlogs' = [zlogs EXCEPT ![t] = zlogs[t] + 1]
    /\ \E masked \in BOOLEAN :
          To(t, IF g_zlog.open /\ ~masked /\ g_zlog.file THEN "lock" ELSE "idle")
    /\ UNCHANGED <<g_zlog, m_lock, zarg, sum, second, Disk, crashed, kept, opens, raced, unopened, clobbered>>

LockAndTest(t) ==
    /\ zpc[t] = "lock" /\ m_lock = "none"
    /\ m_lock' = t
    /\ To(t, IF g_zlog.fsize > LOG_FILE_SIZE_MAX THEN "rotate" ELSE "unlock")
    /\ UNCHANGED <<g_zlog, zarg, sum, second, Disk, crashed, Histories>>

\* Mutant: the name of the archive is the same every day.
ArchiveName_fixed == 1
\* get_time_str(): the archive is named after the second.
ArchiveName == second

Writing(t) == zpc[t] \in {"write", "store", "flush"}

\* zlog_rotate(), the first half: the stream is closed and the file renamed.  What
\* has the name of the archive already is replaced.
CloseAndRename(t) ==
    /\ zpc[t] = "rotate"
    /\ IF ~g_zlog.named
       THEN To(t, "unlock") /\ UNCHANGED <<g_zlog, current, archive, raced, clobbered>>
       ELSE /\ g_zlog' = [g_zlog EXCEPT !.fp = 0]
            /\ raced' = (raced \/ \E u \in Thread : Writing(u))
            /\ current' = 0
            /\ archive' = IF current = 0 THEN archive
                          ELSE [archive EXCEPT ![ArchiveName] = current]
            /\ clobbered' = (clobbered \/ (current # 0 /\ archive[second] # 0))
            /\ To(t, "reopen")
    /\ UNCHANGED <<m_lock, zarg, sum, second, contents, crashed, zlogs, kept, opens, unopened>>

\* The second half: the new file; fsize stays as it is if it cannot be opened.
Reopen(t) ==
    /\ zpc[t] = "reopen"
    /\ \E ok \in BOOLEAN :
          IF ok
          THEN /\ fopen_a
               /\ g_zlog' = [g_zlog EXCEPT !.fp = current', !.fsize = 0]
               /\ UNCHANGED unopened
          ELSE unopened' = TRUE /\ UNCHANGED <<g_zlog, contents, current>>
    /\ To(t, "unlock")
    /\ UNCHANGED <<m_lock, zarg, sum, second, archive, crashed, zlogs, kept, opens, raced, clobbered>>

\* Mutant: the mutex stays locked.
Release_never(t) == m_lock' = m_lock
Release(t) == m_lock' = "none"

UnlockAndLoad(t) ==
    /\ zpc[t] = "unlock"
    /\ Release(t)
    /\ zarg' = [zarg EXCEPT ![t] = g_zlog.fp]
    /\ To(t, "write")
    /\ UNCHANGED <<g_zlog, sum, second, Disk, crashed, Histories>>

\* fprintf() with a stream that is closed, or with none, is undefined: the process
\* may crash, or the record is lost.
Fprintf(t) ==
    /\ zpc[t] = "write"
    /\ kept' = kept \cup {<<t, zlogs[t]>>}
    /\ IF zarg[t] # 0 /\ zarg[t] = g_zlog.fp
       THEN /\ contents' = [contents EXCEPT ![zarg[t]] = @ \cup {<<t, zlogs[t]>>}]
            /\ UNCHANGED crashed
       ELSE crashed' \in BOOLEAN /\ UNCHANGED contents
    /\ sum' = [sum EXCEPT ![t] = g_zlog.fsize + 1]
    /\ To(t, "store")
    /\ UNCHANGED <<g_zlog, m_lock, zarg, second, current, archive, zlogs, opens, raced, unopened, clobbered>>

\* fsize += ... is a load and a store.
StoreSize(t) ==
    /\ zpc[t] = "store"
    /\ g_zlog' = [g_zlog EXCEPT !.fsize = sum[t]]
    /\ To(t, "flush")
    /\ UNCHANGED <<m_lock, zarg, sum, second, Disk, crashed, Histories>>

\* fflush(g_zlog->fp); fflush(NULL) is defined.
Fflush(t) ==
    /\ zpc[t] = "flush"
    /\ To(t, "idle")
    /\ zarg' = [zarg EXCEPT ![t] = 0] /\ sum' = [sum EXCEPT ![t] = 0]
    /\ UNCHANGED <<g_zlog, m_lock, second, Disk, crashed, Histories>>

Tick ==
    /\ second < MaxSecond
    /\ second' = second + 1
    /\ UNCHANGED <<g_zlog, m_lock, zpc, zarg, sum, Disk, crashed, Histories>>

ZlogStep(t) == ~crashed /\ \/ LockAndTest(t) \/ CloseAndRename(t) \/ Reopen(t)
                           \/ UnlockAndLoad(t) \/ Fprintf(t) \/ StoreSize(t) \/ Fflush(t)

RotNext == /\ ~crashed
           /\ \/ zlog_open \/ zlog_close \/ zlog_set_flag \/ zlog_reset_flag \/ Tick
              \/ \E t \in Thread : vzlog(t) \/ ZlogStep(t)

\* A thread that is logging runs on.
RotSpec == RotInit /\ [][RotNext]_zlogVars /\ \A t \in Thread : WF_zlogVars(ZlogStep(t))
-------------------------------------------------------------------------------
Named == ({current} \cup {archive[s] : s \in 1..MaxSecond}) \ {0}
Saved == UNION {contents[f] : f \in Named}

\* A record that has been written is in the log or in an archive, and no stream
\* that is closed is used, unless a file has been rotated while another thread was
\* writing to it, a file could not be opened, or two rotations have fallen into
\* one second.
KeepsRecords ==
    ~raced /\ ~unopened =>
       /\ ~crashed
       /\ ~clobbered => kept = Saved

\* Why it holds, for the proof.
RotTypes ==
    /\ g_zlog \in [open : BOOLEAN, file : BOOLEAN, named : BOOLEAN, fp : Nat, fsize : Nat]
    /\ m_lock \in Thread \cup {"none"}
    /\ zpc \in [Thread -> {"idle", "lock", "rotate", "reopen", "unlock", "write", "store", "flush"}]
    /\ zarg \in [Thread -> Nat] /\ sum \in [Thread -> Nat] /\ zlogs \in [Thread -> Nat]
    /\ second \in 1..MaxSecond /\ contents \in Seq(SUBSET (Thread \X Nat))
    /\ current \in 0..Len(contents) /\ archive \in [1..MaxSecond -> 0..Len(contents)]

\* The mutex is held by the thread that tests and rotates, and by no other.
RotMutex == \A t \in Thread : zpc[t] \in {"rotate", "reopen", "unlock"} <=> m_lock = t

\* The log has its stream and its file except between the two halves of a rotation,
\* and then nobody is writing.
Reopening == \E t \in Thread : zpc[t] = "reopen"
StreamInv ==
    /\ ~crashed
    /\ g_zlog.file \/ ~Quiet => g_zlog.named
    /\ g_zlog.fp = IF g_zlog.named /\ ~Reopening THEN current ELSE 0
    /\ g_zlog.named => (current = 0 <=> Reopening)
    /\ \A t \in Thread : Writing(t) => ~Reopening /\ (zpc[t] = "write" => zarg[t] = g_zlog.fp)

RotInv ==
    /\ RotTypes /\ RotMutex
    /\ ~raced /\ ~unopened => StreamInv /\ (~clobbered => kept = Saved)

\* Every call of vzlog() returns, whatever fails in a rotation, unless the process
\* crashes: the mutex is released on every path.
ZlogEnds == \A t \in Thread : zpc[t] # "idle" ~> zpc[t] = "idle" \/ crashed
===============================================================================
