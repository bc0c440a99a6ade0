---------------------------- MODULE ProgramProofs ----------------------------
(****************************************************************************)
(* Proofs about the programs that write logs and move bytes: CLog and         *)
(* RotatingLog for any number of threads, FullIO and Proxy whatever the       *)
(* kernel moves at a time and whenever it refuses.                            *)
(****************************************************************************)
EXTENDS FiniteSets, RotatingLog, CLog, FullIO, Proxy, FiniteSetTheorems, SequenceTheorems, TLAPS

-------------------------------------------------------------------------------
(* c-log.                                                                    *)

LEMMA CLogInitially == CLogInit => CLogInv
<1> SUFFICES ASSUME CLogInit PROVE CLogInv
  OBVIOUS
<1>1. at \in [Writer -> Critical \cup {"idle", "access", "lock", "load", "fwrite"}]
  BY DEF CLogInit
<1>2. opened \in Nat /\ fp \in 0..opened /\ live \subseteq 1..opened /\ gone \in Nat
  BY DEF CLogInit
<1>3. arg \in [Writer -> 0..opened] /\ logged \in [Writer -> Nat]
  BY DEF CLogInit, Null
<1>4. holder \in Writer \cup {"nobody"} /\ there \in BOOLEAN /\ exited \in BOOLEAN
  BY DEF CLogInit
<1>5. \A w \in Writer : at[w] \in Critical <=> holder = w
  BY CLogAssumption DEF CLogInit, Critical
<1>6. InUse
  BY DEF CLogInit, InUse, Replacing, Null
<1>7. Due
  BY DEF CLogInit, Due
<1>8. SafeUntilGone
  BY DEF CLogInit, SafeUntilGone, ThreadSafe
<1> QED BY <1>1, <1>2, <1>3, <1>4, <1>5, <1>6, <1>7, <1>8 DEF CLogInv, CLogTypeOK

LEMMA CLogStep == CLogInv /\ [CLogNext]_clogVars => CLogInv'
<1> SUFFICES ASSUME CLogInv, [CLogNext]_clogVars PROVE CLogInv'
  OBVIOUS
<1> USE CLogAssumption DEF CLogInv, Critical, Null, Goes
<1>1. CASE UNCHANGED clogVars
  BY <1>1 DEF CLogTypeOK, InUse, Replacing, Due, SafeUntilGone, ThreadSafe, clogVars
<1>2. CASE Disappear
  <2>1. CLogTypeOK'
    <3>1. there' \in BOOLEAN
      BY <1>2, Zenon DEF Disappear
    <3>3. gone' \in Nat
      BY <1>2 DEF CLogTypeOK, Disappear
    <3>2. UNCHANGED <<at, fp, opened, live, holder, arg, exited, logged>>
      BY <1>2 DEF Disappear
    <3> QED BY <3>1, <3>2, <3>3, Zenon DEF CLogTypeOK
  <2>2. InUse' /\ Due' /\ SafeUntilGone'
    BY <1>2 DEF CLogTypeOK, InUse, Replacing, Due, SafeUntilGone, ThreadSafe, Disappear
  <2> QED BY <2>1, <2>2
<1>3. ASSUME NEW w \in Writer, Log(w) PROVE CLogInv'
  <2>1. CLogTypeOK'
    BY <1>3 DEF CLogTypeOK, Log
  <2>2. InUse' /\ Due'
    BY <1>3 DEF CLogTypeOK, InUse, Replacing, Due, Log
  <2>3. SafeUntilGone'
    BY <1>3 DEF CLogTypeOK, SafeUntilGone, ThreadSafe, Log
  <2> QED BY <2>1, <2>2, <2>3
<1>4. ASSUME NEW w \in Writer, LoginitFails(w) PROVE CLogInv'
  BY <1>4 DEF CLogTypeOK, InUse, Replacing, Due, SafeUntilGone, ThreadSafe, LoginitFails
<1>5. ASSUME NEW w \in Writer, Access(w) PROVE CLogInv'
  <2>1. CLogTypeOK'
    BY <1>5 DEF CLogTypeOK, Access
  <2>2. InUse' /\ Due'
    BY <1>5 DEF CLogTypeOK, InUse, Replacing, Due, Access
  <2>3. SafeUntilGone'
    BY <1>5 DEF CLogTypeOK, SafeUntilGone, ThreadSafe, Access
  <2> QED BY <2>1, <2>2, <2>3
<1>6. ASSUME NEW w \in Writer, Lock(w) PROVE CLogInv'
  <2>1. CLogTypeOK'
    BY <1>6 DEF CLogTypeOK, Lock
  <2>2. InUse' /\ Due'
    BY <1>6 DEF CLogTypeOK, InUse, Replacing, Due, Lock
  <2>3. SafeUntilGone'
    BY <1>6 DEF CLogTypeOK, SafeUntilGone, ThreadSafe, Lock
  <2> QED BY <2>1, <2>2, <2>3
<1>7. ASSUME NEW w \in Writer, Recheck(w) PROVE CLogInv'
  <2>1. CLogTypeOK'
    BY <1>7 DEF CLogTypeOK, Recheck
  <2>2. \A v \in Writer : v # w => at[v] \notin Critical
    BY <1>7 DEF CLogTypeOK, Recheck
  <2>3. fp # Null /\ live = {fp}
    BY <1>7, <2>2 DEF InUse, Recheck
  <2>4. InUse' /\ Due'
    BY <1>7, <2>2, <2>3 DEF CLogTypeOK, InUse, Replacing, Due, Recheck
  <2>5. SafeUntilGone'
    BY <1>7 DEF CLogTypeOK, SafeUntilGone, ThreadSafe, Recheck
  <2> QED BY <2>1, <2>4, <2>5
<1>8. ASSUME NEW w \in Writer, Fclose(w) PROVE CLogInv'
  <2>1. CLogTypeOK'
    BY <1>8 DEF CLogTypeOK, Fclose
  <2>2. \A v \in Writer : v # w => at[v] \notin Critical
    BY <1>8 DEF CLogTypeOK, Fclose
  <2>3. live = {fp} /\ ~there
    BY <1>8, <2>2 DEF InUse, Replacing, Fclose
  <2>4. InUse' /\ Due'
    BY <1>8, <2>2, <2>3 DEF CLogTypeOK, InUse, Replacing, Due, Fclose
  <2>5. gone # 0
    BY <2>3 DEF CLogTypeOK, Due
  <2>6. SafeUntilGone'
    BY <1>8, <2>5 DEF SafeUntilGone, Fclose
  <2> QED BY <2>1, <2>4, <2>6
<1>9. ASSUME NEW w \in Writer, SetNull(w) PROVE CLogInv'
  <2>1. CLogTypeOK'
    BY <1>9 DEF CLogTypeOK, SetNull
  <2>2. \A v \in Writer : v # w => at[v] \notin Critical
    BY <1>9 DEF CLogTypeOK, SetNull
  <2>3. InUse' /\ Due'
    BY <1>9, <2>2 DEF CLogTypeOK, InUse, Replacing, Due, SetNull
  <2>4. SafeUntilGone'
    BY <1>9 DEF CLogTypeOK, SafeUntilGone, ThreadSafe, SetNull
  <2> QED BY <2>1, <2>3, <2>4
<1>10. ASSUME NEW w \in Writer, Loginit(w) PROVE CLogInv'
  <2>1. fp = Null /\ live = {} /\ ~there
    BY <1>10 DEF InUse, Replacing, Loginit
  <2>2. \A v \in Writer : v # w => at[v] \notin Critical
    BY <1>10 DEF CLogTypeOK, Loginit
  <2>3. /\ opened' = opened + 1 /\ fp' = opened + 1 /\ live' = {opened + 1} /\ there' = TRUE
        /\ at' = [at EXCEPT ![w] = "unlock"]
        /\ UNCHANGED <<holder, arg, exited, gone, logged>>
    BY <1>10, <2>1 DEF Loginit
  <2>4. CLogTypeOK'
    BY <1>10, <2>3 DEF CLogTypeOK, Loginit
  <2>5. InUse'
    BY <2>2, <2>3 DEF CLogTypeOK, InUse, Replacing
  <2>6. Due'
    BY <2>1, <2>3 DEF CLogTypeOK, Due
  <2>7. SafeUntilGone'
    BY <2>1, <2>3 DEF CLogTypeOK, Due, SafeUntilGone
  <2> QED BY <2>4, <2>5, <2>6, <2>7
<1>11. ASSUME NEW w \in Writer, Unlock(w) PROVE CLogInv'
  <2>1. CLogTypeOK'
    BY <1>11 DEF CLogTypeOK, Unlock
  <2>2. InUse' /\ Due'
    BY <1>11 DEF CLogTypeOK, InUse, Replacing, Due, Unlock
  <2>3. SafeUntilGone'
    BY <1>11 DEF CLogTypeOK, SafeUntilGone, ThreadSafe, Unlock
  <2> QED BY <2>1, <2>2, <2>3
<1>12. ASSUME NEW w \in Writer, Load(w) PROVE CLogInv'
  <2>1. CLogTypeOK'
    BY <1>12 DEF CLogTypeOK, Load
  <2>2. InUse' /\ Due'
    BY <1>12 DEF CLogTypeOK, InUse, Replacing, Due, Load
  <2>3. ASSUME gone = 0 PROVE fp \in live
    <3>1. there
      BY <2>3 DEF CLogTypeOK, Due
    <3> QED BY <3>1 DEF InUse, Replacing
  <2>4. SafeUntilGone'
    BY <1>12, <2>3 DEF CLogTypeOK, SafeUntilGone, ThreadSafe, Load
  <2> QED BY <2>1, <2>2, <2>4
<1>13. ASSUME NEW w \in Writer, Fwrite(w) PROVE CLogInv'
  <2>1. CLogTypeOK'
    BY <1>13 DEF CLogTypeOK, Fwrite
  <2>2. InUse' /\ Due'
    BY <1>13 DEF CLogTypeOK, InUse, Replacing, Due, Fwrite
  <2>3. SafeUntilGone'
    BY <1>13 DEF CLogTypeOK, SafeUntilGone, ThreadSafe, Fwrite
  <2> QED BY <2>1, <2>2, <2>3
<1> QED
  BY <1>1, <1>2, <1>3, <1>4, <1>5, <1>6, <1>7, <1>8, <1>9, <1>10, <1>11, <1>12, <1>13
  DEF CLogNext, LogStep

\* The inductive invariant holds in every reachable state.
THEOREM CLogInductive == CLogSpec => []CLogInv
  BY CLogInitially, CLogStep, PTL DEF CLogSpec

\* Type correctness and mutual exclusion in _write().
THEOREM CLogTypes == CLogSpec => []CLogTypeOK
<1>1. CLogInv => CLogTypeOK
  BY DEF CLogInv
<1> QED BY <1>1, CLogInductive, PTL

\* The second access(), under the mutex, keeps threads that have all seen the file
\* gone from closing and opening it one after the other.
THEOREM ReopensOnce == CLogSpec => []ReopenedOnce
<1>1. CLogInv => ReopenedOnce
  BY DEF CLogInv, Due, ReopenedOnce
<1> QED BY <1>1, CLogInductive, PTL

\* There is one stream, which is closed once and replaced only when its file is gone.
THEOREM StreamIsOne == CLogSpec => []OneStream
<1>1. CLogInv => OneStream
  <2> SUFFICES ASSUME CLogInv PROVE OneStream
    OBVIOUS
  <2>0. ReopenedOnce
    BY DEF CLogInv, Due, ReopenedOnce
  <2>1. Cardinality(live) <= 1
    <3>1. live = {} \/ live = {fp}
      BY DEF CLogInv, InUse
    <3>2. live = {} => Cardinality(live) = 0
      BY FS_EmptySet
    <3>3. Cardinality({fp}) = 1
      BY FS_Singleton
    <3> QED BY <3>1, <3>2, <3>3
  <2>2. live = {} => holder # "nobody" /\ at[holder] \in {"null", "loginit"}
    <3> SUFFICES ASSUME live = {} PROVE holder # "nobody" /\ at[holder] \in {"null", "loginit"}
      OBVIOUS
    <3>1. PICK w \in Writer : at[w] \in {"null", "loginit"}
      BY DEF CLogInv, InUse
    <3>2. holder = w
      BY <3>1 DEF CLogInv, CLogTypeOK, Critical
    <3> QED BY <3>1, <3>2, CLogAssumption
  <2>3. ASSUME NEW w \in Writer, at[w] = "fclose" PROVE fp \in live
    <3>1. \A v \in Writer : v # w => at[v] \notin Critical
      BY <2>3 DEF CLogInv, CLogTypeOK, Critical
    <3>2. \A v \in Writer : at[v] \notin {"null", "loginit"}
      BY <2>3, <3>1 DEF Critical
    <3> QED BY <3>2 DEF CLogInv, InUse
  <2> QED BY <2>0, <2>1, <2>2, <2>3 DEF OneStream
<1> QED BY <1>1, CLogInductive, PTL

\* As long as the file is never moved away, every write goes to an open stream.
THEOREM SafeInPlace == CLogSpec => []SafeUntilGone
<1>1. CLogInv => SafeUntilGone
  BY DEF CLogInv
<1> QED BY <1>1, CLogInductive, PTL


-------------------------------------------------------------------------------
(* vp_log.                                                                   *)

LEMMA RotInitially == RotInit => RotInv
<1> SUFFICES ASSUME RotInit PROVE RotInv
  OBVIOUS
<1>1. g_zlog = NoLog /\ m_lock = "none" /\ zpc = [t \in Thread |-> "idle"]
      /\ zarg = [t \in Thread |-> 0] /\ sum = zarg /\ zlogs = zarg /\ second = 1 /\ contents = <<>>
      /\ current = 0 /\ archive = [s \in 1..MaxSecond |-> 0] /\ crashed = FALSE /\ kept = {}
  BY DEF RotInit
<1>2. RotTypes
  BY <1>1, RotatingLogAssumption DEF RotTypes, NoLog
<1>3. RotMutex
  BY <1>1, RotatingLogAssumption DEF RotMutex
<1>4. StreamInv
  BY <1>1 DEF StreamInv, NoLog, Reopening, Writing, Quiet
<1>5. Named = {}
  BY <1>1, RotatingLogAssumption DEF Named
<1>6. kept = Saved
  BY <1>1, <1>5 DEF Saved
<1> QED BY <1>2, <1>3, <1>4, <1>6 DEF RotInv

\* What is saved, by its files.
LEMMA InSaved ==
    /\ \A r : r \in Saved <=> \E f \in Named : r \in contents[f]
    /\ \A r : r \in Saved' <=> \E f \in Named' : r \in contents'[f]
  BY Zenon DEF Saved

\* What fopen() does to the files: none is lost.
LEMMA FileOpened ==
    ASSUME RotTypes, fopen_a, UNCHANGED archive
    PROVE  /\ contents' \in Seq(SUBSET (Thread \X Nat)) /\ Len(contents') \in Nat
           /\ current' \in 1..Len(contents') /\ archive' \in [1..MaxSecond -> 0..Len(contents')]
           /\ Saved' = Saved
<1> USE DEF RotTypes
<1>1. CASE current # 0
  <2>1. UNCHANGED <<contents, current, archive>>
    BY <1>1 DEF fopen_a
  <2>2. Saved' = Saved
    BY <2>1 DEF Saved, Named
  <2> QED BY <1>1, <2>1, <2>2
<1>2. CASE current = 0
  <2>1. contents' = Append(contents, {}) /\ current' = Len(contents) + 1
    BY <1>2 DEF fopen_a
  <2>2. contents' \in Seq(SUBSET (Thread \X Nat)) /\ Len(contents') = Len(contents) + 1
        /\ Len(contents) \in Nat
    BY <2>1
  <2>3. \A f \in 1..Len(contents) : contents'[f] = contents[f]
    BY <2>1
  <2>4. contents'[current'] = {}
    BY <2>1
  <2>5. Named' = Named \cup {current'} /\ Named \subseteq 1..Len(contents)
    BY <1>2, <2>1, <2>2 DEF Named
  <2>6. Saved' = Saved
    <3>1. \A r : r \in Saved' <=> r \in Saved
      BY <2>3, <2>4, <2>5, InSaved
    <3> QED BY <3>1, Zenon
  <2> QED BY <2>1, <2>2, <2>6
<1> QED BY <1>1, <1>2

\* A thread moves on.
LEMMA Moved ==
    ASSUME zpc \in [Thread -> {"idle", "lock", "rotate", "reopen", "unlock", "write", "store", "flush"}],
           NEW t \in Thread,
           NEW phase \in {"idle", "lock", "rotate", "reopen", "unlock", "write", "store", "flush"},
           To(t, phase)
    PROVE  /\ zpc' \in [Thread -> {"idle", "lock", "rotate", "reopen", "unlock", "write", "store", "flush"}]
           /\ zpc'[t] = phase
           /\ \A u \in Thread : u # t => zpc'[u] = zpc[u]
  BY DEF To


\* A step that leaves the files and the streams alone.
LEMMA DiskKept == UNCHANGED Disk => Saved' = Saved
  BY DEF Disk, Saved, Named

LEMMA OpenKeeps == RotInv /\ zlog_open => RotInv'
<1> SUFFICES ASSUME RotInv, zlog_open PROVE RotInv'
  OBVIOUS
<1> USE DEF RotInv
<1>1. UNCHANGED <<m_lock, zpc, zarg, sum, second, archive, crashed, zlogs, kept, raced, clobbered>>
      /\ Quiet
  BY DEF zlog_open
<1>2. RotMutex' /\ ~Reopening' /\ ~Reopening /\ Quiet' /\ \A t \in Thread : ~Writing(t)'
  BY <1>1 DEF RotMutex, Reopening, Quiet, Writing
<1>3. PICK file, ok \in BOOLEAN :
          IF file /\ ok
          THEN /\ fopen_a
               /\ g_zlog' = [NoLog EXCEPT !.open = TRUE, !.file = TRUE, !.named = TRUE, !.fp = current']
               /\ UNCHANGED unopened
          ELSE /\ g_zlog' = [NoLog EXCEPT !.open = TRUE, !.file = file]
               /\ unopened' = (unopened \/ file)
               /\ UNCHANGED <<contents, current>>
  BY DEF zlog_open
<1>4. CASE file /\ ok
  <2>1. fopen_a /\ UNCHANGED unopened
        /\ g_zlog' = [open |-> TRUE, file |-> TRUE, named |-> TRUE, fp |-> current', fsize |-> 0]
    BY <1>3, <1>4 DEF NoLog
  <2>2. contents' \in Seq(SUBSET (Thread \X Nat)) /\ current' \in 1..Len(contents')
        /\ Len(contents') \in Nat
        /\ archive' \in [1..MaxSecond -> 0..Len(contents')] /\ Saved' = Saved
    BY <1>1, <2>1, FileOpened
  <2>3. RotTypes'
    BY <1>1, <2>1, <2>2 DEF RotTypes
  <2>4. ~crashed' => StreamInv'
    BY <1>2, <2>1, <2>2 DEF StreamInv
  <2>5. ~raced /\ ~unopened => ~crashed'
    BY <1>1 DEF StreamInv
  <2> QED BY <1>1, <1>2, <2>1, <2>2, <2>3, <2>4, <2>5
<1>5. CASE ~(file /\ ok)
  <2>1. g_zlog' = [open |-> TRUE, file |-> file, named |-> FALSE, fp |-> 0, fsize |-> 0]
        /\ unopened' = (unopened \/ file) /\ UNCHANGED Disk
    BY <1>1, <1>3, <1>5 DEF NoLog, Disk
  <2>2. RotTypes'
    BY <1>1, <2>1 DEF RotTypes, Disk
  <2>3. ~raced' /\ ~unopened' => StreamInv'
    BY <1>1, <1>2, <2>1 DEF StreamInv
  <2> QED BY <1>1, <1>2, <2>1, <2>2, <2>3, DiskKept
<1> QED BY <1>4, <1>5

LEMMA CloseKeeps == RotInv /\ zlog_close => RotInv'
<1> SUFFICES ASSUME RotInv, zlog_close PROVE RotInv'
  OBVIOUS
<1> USE DEF RotInv
<1>1. UNCHANGED <<m_lock, zpc, zarg, sum, second, Disk, crashed, Histories>> /\ Quiet
      /\ g_zlog' = NoLog
  BY DEF zlog_close
<1>2. RotMutex' /\ ~Reopening' /\ Quiet' /\ \A t \in Thread : ~Writing(t)'
  BY <1>1 DEF RotMutex, Reopening, Quiet, Writing
<1>3. RotTypes'
  BY <1>1 DEF RotTypes, NoLog, Disk, Histories
<1>4. ~raced' /\ ~unopened' => StreamInv'
  BY <1>1, <1>2 DEF StreamInv, NoLog, Histories
<1> QED BY <1>1, <1>2, <1>3, <1>4, DiskKept DEF Histories

LEMMA FlagKeeps == RotInv /\ (zlog_set_flag \/ zlog_reset_flag) => RotInv'
<1> SUFFICES ASSUME RotInv, zlog_set_flag \/ zlog_reset_flag PROVE RotInv'
  OBVIOUS
<1> USE DEF RotInv
<1>1. UNCHANGED <<m_lock, zpc, zarg, sum, second, Disk, crashed, zlogs, kept, raced, clobbered>>
  BY DEF zlog_set_flag, zlog_reset_flag, Histories
<1>2. PICK flag \in BOOLEAN : /\ g_zlog' = [g_zlog EXCEPT !.file = flag]
                              /\ ~unopened' => ~unopened /\ (flag => g_zlog.named)
  <2>1. CASE zlog_set_flag
    BY <2>1, Zenon DEF zlog_set_flag
  <2>2. CASE zlog_reset_flag
    BY <2>2, Zenon DEF zlog_reset_flag, Histories
  <2> QED BY <2>1, <2>2
<1>3. RotMutex' /\ Reopening' = Reopening /\ Quiet' = Quiet /\ \A t \in Thread : Writing(t)' = Writing(t)
  BY <1>1 DEF RotMutex, Reopening, Quiet, Writing
<1>4. g_zlog'.named = g_zlog.named /\ g_zlog'.fp = g_zlog.fp /\ g_zlog'.file = flag
  BY <1>2 DEF RotTypes
<1>5. RotTypes'
  BY <1>1, <1>2 DEF RotTypes, Disk
<1>6. ~raced' /\ ~unopened' => StreamInv'
  BY <1>1, <1>2, <1>3, <1>4 DEF StreamInv, Disk
<1> QED BY <1>1, <1>2, <1>3, <1>5, <1>6, DiskKept

LEMMA TickKeeps == RotInv /\ Tick => RotInv'
<1> SUFFICES ASSUME RotInv, Tick PROVE RotInv'
  OBVIOUS
<1> USE DEF RotInv
<1>1. UNCHANGED <<g_zlog, m_lock, zpc, zarg, sum, Disk, crashed, Histories>>
  BY DEF Tick
<1>2. second' \in 1..MaxSecond
  BY RotatingLogAssumption DEF Tick, RotTypes
<1>3. RotTypes' /\ RotMutex'
  BY <1>1, <1>2 DEF RotTypes, RotMutex, Disk, Histories
<1>4. StreamInv' = StreamInv
  BY <1>1 DEF StreamInv, Quiet, Reopening, Writing, Disk
<1> QED BY <1>1, <1>3, <1>4, DiskKept DEF Histories


\* Calling vzlog(), taking the mutex, storing the size and flushing: the streams and
\* the files stay as they are, and nobody starts to write or to reopen.
LEMMA QuietStep ==
    ASSUME RotInv, NEW t \in Thread, NEW phase \in {"idle", "lock", "rotate", "unlock", "store", "flush"},
           To(t, phase), phase = "store" => zpc[t] = "write", phase = "flush" => zpc[t] = "store",
           zpc[t] # "reopen", zpc[t] = "idle" /\ phase # "idle" => g_zlog.file,
           UNCHANGED <<Disk, crashed, kept, raced, unopened, clobbered>>,
           g_zlog' = [g_zlog EXCEPT !.fsize = g_zlog'.fsize],
           \A u \in Thread : u # t => zarg'[u] = zarg[u]
    PROVE  ~raced' /\ ~unopened' => StreamInv' /\ (~clobbered' => kept' = Saved')
<1> USE DEF RotInv
<1> SUFFICES ASSUME ~raced, ~unopened PROVE StreamInv' /\ (~clobbered' => kept' = Saved')
  OBVIOUS
<1>1. zpc'[t] = phase /\ \A u \in Thread : u # t => zpc'[u] = zpc[u]
  BY Moved DEF RotTypes
<1>2. Reopening' = Reopening
  BY <1>1 DEF Reopening
<1>3. \A u \in Thread : Writing(u)' => Writing(u) /\ (zpc'[u] = "write" => u # t)
  BY <1>1 DEF Writing
<1>4. ~Quiet' => ~Quiet \/ g_zlog.file
  BY <1>1 DEF Quiet
<1>5. g_zlog'.named = g_zlog.named /\ g_zlog'.fp = g_zlog.fp /\ g_zlog'.file = g_zlog.file
  BY DEF RotTypes
<1>6. \A u \in Thread : zpc'[u] = "write" => zpc[u] = "write" /\ zarg'[u] = zarg[u]
  BY <1>1, <1>3
<1>7. StreamInv'
  BY <1>2, <1>3, <1>4, <1>5, <1>6 DEF StreamInv, Disk
<1> QED BY <1>7, DiskKept

LEMMA QuietStepsKeep ==
    ASSUME RotInv, NEW t \in Thread,
           vzlog(t) \/ LockAndTest(t) \/ StoreSize(t) \/ Fflush(t)
    PROVE  RotInv'
<1> USE DEF RotInv
<1>1. CASE vzlog(t)
  <2>1. zpc[t] = "idle" /\ zlogs' = [zlogs EXCEPT ![t] = zlogs[t] + 1]
        /\ UNCHANGED <<g_zlog, m_lock, zarg, sum, second, Disk, crashed, kept, raced, unopened, clobbered>>
    BY <1>1 DEF vzlog
  <2>2. PICK phase \in {"idle", "lock"} : To(t, phase) /\ (phase = "lock" => g_zlog.file)
    BY <1>1 DEF vzlog
  <2>3. RotTypes'
    BY <2>1, <2>2, Moved DEF RotTypes, Disk
  <2>4. RotMutex'
    BY <2>1, <2>2, Moved DEF RotMutex, RotTypes
  <2>5. g_zlog' = [g_zlog EXCEPT !.fsize = g_zlog'.fsize]
    BY <2>1 DEF RotTypes
  <2> QED BY <2>1, <2>2, <2>3, <2>4, <2>5, QuietStep
<1>2. CASE LockAndTest(t)
  <2>1. zpc[t] = "lock" /\ m_lock = "none" /\ m_lock' = t
        /\ UNCHANGED <<g_zlog, zarg, sum, second, Disk, crashed, Histories>>
    BY <1>2 DEF LockAndTest
  <2>2. PICK phase \in {"rotate", "unlock"} : To(t, phase)
    BY <1>2 DEF LockAndTest
  <2>3. RotTypes'
    BY <2>1, <2>2, Moved DEF RotTypes, Disk, Histories
  <2>4. RotMutex'
    BY <2>1, <2>2, Moved, RotatingLogAssumption, SMTT(30) DEF RotMutex, RotTypes
  <2>5. g_zlog' = [g_zlog EXCEPT !.fsize = g_zlog'.fsize]
    BY <2>1 DEF RotTypes
  <2> QED BY <2>1, <2>2, <2>3, <2>4, <2>5, QuietStep DEF Histories
<1>3. CASE StoreSize(t)
  <2>1. zpc[t] = "store" /\ g_zlog' = [g_zlog EXCEPT !.fsize = sum[t]] /\ To(t, "flush")
        /\ UNCHANGED <<m_lock, zarg, sum, second, Disk, crashed, Histories>>
    BY <1>3 DEF StoreSize
  <2>2. sum[t] \in Nat
    BY DEF RotTypes
  <2>3. RotTypes'
    BY <2>1, <2>2, Moved DEF RotTypes, Disk, Histories
  <2>4. RotMutex'
    BY <2>1, Moved DEF RotMutex, RotTypes
  <2>5. g_zlog' = [g_zlog EXCEPT !.fsize = g_zlog'.fsize]
    BY <2>1 DEF RotTypes
  <2> QED BY <2>1, <2>3, <2>4, <2>5, QuietStep DEF Histories
<1>4. CASE Fflush(t)
  <2>1. zpc[t] = "flush" /\ To(t, "idle") /\ zarg' = [zarg EXCEPT ![t] = 0] /\ sum' = [sum EXCEPT ![t] = 0]
        /\ UNCHANGED <<g_zlog, m_lock, second, Disk, crashed, Histories>>
    BY <1>4 DEF Fflush
  <2>3. RotTypes'
    BY <2>1, Moved DEF RotTypes, Disk, Histories
  <2>4. RotMutex'
    BY <2>1, Moved DEF RotMutex, RotTypes
  <2>5. g_zlog' = [g_zlog EXCEPT !.fsize = g_zlog'.fsize]
    BY <2>1 DEF RotTypes
  <2>6. \A u \in Thread : u # t => zarg'[u] = zarg[u]
    BY <2>1 DEF RotTypes
  <2> QED BY <2>1, <2>3, <2>4, <2>5, <2>6, QuietStep DEF Histories
<1> QED BY <1>1, <1>2, <1>3, <1>4

\* The file is renamed: it keeps its records under its new name.
LEMMA RenameKeeps == ASSUME RotInv, NEW t \in Thread, CloseAndRename(t) PROVE RotInv'
<1> USE DEF RotInv
<1>1. zpc[t] = "rotate"
      /\ UNCHANGED <<m_lock, zarg, sum, second, contents, crashed, zlogs, kept, opens, unopened>>
  BY DEF CloseAndRename
<1>2. CASE ~g_zlog.named
  <2>1. To(t, "unlock") /\ UNCHANGED <<g_zlog, current, archive, raced, clobbered>>
    BY <1>2 DEF CloseAndRename
  <2>2. RotTypes' /\ RotMutex'
    BY <1>1, <2>1, Moved DEF RotTypes, RotMutex
  <2>3. ~(~raced' /\ ~unopened')
    BY <1>1, <1>2, <2>1 DEF StreamInv, Quiet
  <2> QED BY <2>2, <2>3
<1>3. CASE g_zlog.named
  <2>1. /\ g_zlog' = [g_zlog EXCEPT !.fp = 0] /\ To(t, "reopen") /\ current' = 0
        /\ raced' = (raced \/ \E u \in Thread : Writing(u))
        /\ archive' = IF current = 0 THEN archive ELSE [archive EXCEPT ![second] = current]
        /\ clobbered' = (clobbered \/ (current # 0 /\ archive[second] # 0))
    BY <1>3 DEF CloseAndRename, ArchiveName
  <2>2. zpc' \in [Thread -> {"idle", "lock", "rotate", "reopen", "unlock", "write", "store", "flush"}]
        /\ zpc'[t] = "reopen" /\ \A u \in Thread : u # t => zpc'[u] = zpc[u]
    BY <2>1, Moved DEF RotTypes
  <2>3. RotTypes'
    <3>1. g_zlog' \in [open : BOOLEAN, file : BOOLEAN, named : BOOLEAN, fp : Nat, fsize : Nat]
      BY <2>1 DEF RotTypes
    <3>2. current' \in 0..Len(contents) /\ archive' \in [1..MaxSecond -> 0..Len(contents)]
      BY <2>1 DEF RotTypes
    <3> QED BY <1>1, <2>2, <3>1, <3>2 DEF RotTypes
  <2>4. RotMutex'
    BY <1>1, <2>2 DEF RotMutex
  <2>5. ASSUME ~raced', ~unopened' PROVE StreamInv'
    <3>1. ~raced /\ ~unopened /\ \A u \in Thread : ~Writing(u)
      BY <1>1, <2>1, <2>5
    <3>2. \A u \in Thread : ~Writing(u)'
      BY <2>2, <3>1 DEF Writing
    <3>3. Reopening'
      BY <2>2 DEF Reopening
    <3>4. g_zlog'.named /\ g_zlog'.fp = 0
      BY <1>3, <2>1 DEF RotTypes
    <3> QED BY <1>1, <2>1, <3>1, <3>2, <3>3, <3>4 DEF StreamInv
  <2>6. ASSUME ~clobbered' PROVE Saved' = Saved
    <3>1. CASE current = 0
      BY <1>1, <2>1, <3>1 DEF Saved, Named
    <3>2. CASE current # 0
      <4>1. archive[second] = 0 /\ archive' = [archive EXCEPT ![second] = current]
        BY <2>1, <2>6, <3>2
      <4>2. archive'[second] = current /\ \A s \in 1..MaxSecond : s # second => archive'[s] = archive[s]
        BY <4>1 DEF RotTypes
      <4>3. Named' = Named
        BY <2>1, <3>2, <4>1, <4>2 DEF Named, RotTypes
      <4> QED BY <1>1, <4>3 DEF Saved
    <3> QED BY <3>1, <3>2
  <2> QED BY <1>1, <2>1, <2>3, <2>4, <2>5, <2>6
<1> QED BY <1>2, <1>3

LEMMA ReopenKeeps == ASSUME RotInv, NEW t \in Thread, Reopen(t) PROVE RotInv'
<1> USE DEF RotInv
<1>1. zpc[t] = "reopen" /\ To(t, "unlock")
      /\ UNCHANGED <<m_lock, zarg, sum, second, archive, crashed, zlogs, kept, opens, raced, clobbered>>
  BY DEF Reopen
<1>2. zpc' \in [Thread -> {"idle", "lock", "rotate", "reopen", "unlock", "write", "store", "flush"}]
      /\ zpc'[t] = "unlock" /\ \A u \in Thread : u # t => zpc'[u] = zpc[u]
  BY <1>1, Moved DEF RotTypes
<1>3. RotMutex'
  BY <1>1, <1>2 DEF RotMutex
<1>4. PICK ok \in BOOLEAN :
          IF ok
          THEN /\ fopen_a
               /\ g_zlog' = [g_zlog EXCEPT !.fp = current', !.fsize = 0]
               /\ UNCHANGED unopened
          ELSE unopened' = TRUE /\ UNCHANGED <<g_zlog, contents, current>>
  BY DEF Reopen
<1>5. CASE ok
  <2>1. fopen_a /\ g_zlog' = [g_zlog EXCEPT !.fp = current', !.fsize = 0] /\ UNCHANGED unopened
    BY <1>4, <1>5
  <2>2. contents' \in Seq(SUBSET (Thread \X Nat)) /\ current' \in 1..Len(contents')
        /\ Len(contents') \in Nat
        /\ archive' \in [1..MaxSecond -> 0..Len(contents')] /\ Saved' = Saved
    BY <1>1, <2>1, FileOpened
  <2>3. RotTypes'
    <3>1. g_zlog' \in [open : BOOLEAN, file : BOOLEAN, named : BOOLEAN, fp : Nat, fsize : Nat]
      <4>1. current' \in Nat
        BY <2>2
      <4> QED BY <2>1, <4>1 DEF RotTypes
    <3> QED BY <1>1, <1>2, <2>2, <3>1, SMTT(30) DEF RotTypes
  <2>4. ASSUME ~raced, ~unopened PROVE StreamInv'
    <3>1. Reopening /\ g_zlog.named /\ \A u \in Thread : ~Writing(u)
      BY <1>1, <2>4 DEF StreamInv, Reopening, Quiet
    <3>2. ~Reopening'
      BY <1>1, <1>2 DEF Reopening, RotMutex
    <3>3. \A u \in Thread : ~Writing(u)'
      BY <1>2, <3>1 DEF Writing
    <3>4. g_zlog'.named /\ g_zlog'.fp = current' /\ current' # 0
      BY <2>1, <2>2, <3>1 DEF RotTypes
    <3> QED BY <1>1, <2>4, <3>2, <3>3, <3>4 DEF StreamInv
  <2> QED BY <1>1, <1>3, <2>1, <2>2, <2>3, <2>4
<1>6. CASE ~ok
  <2>1. unopened' = TRUE /\ UNCHANGED <<g_zlog, contents, current>>
    BY <1>4, <1>6
  <2>2. RotTypes'
    BY <1>1, <1>2, <2>1 DEF RotTypes
  <2> QED BY <1>3, <2>1, <2>2
<1> QED BY <1>5, <1>6

LEMMA UnlockKeeps == ASSUME RotInv, NEW t \in Thread, UnlockAndLoad(t) PROVE RotInv'
<1> USE DEF RotInv
<1>1. zpc[t] = "unlock" /\ m_lock' = "none" /\ zarg' = [zarg EXCEPT ![t] = g_zlog.fp] /\ To(t, "write")
      /\ UNCHANGED <<g_zlog, sum, second, Disk, crashed, Histories>>
  BY DEF UnlockAndLoad, Release
<1>2. zpc' \in [Thread -> {"idle", "lock", "rotate", "reopen", "unlock", "write", "store", "flush"}]
      /\ zpc'[t] = "write" /\ \A u \in Thread : u # t => zpc'[u] = zpc[u]
  BY <1>1, Moved DEF RotTypes
<1>3. RotTypes'
  BY <1>1, <1>2 DEF RotTypes, Disk, Histories
<1>4. RotMutex'
  BY <1>1, <1>2, RotatingLogAssumption DEF RotMutex
<1>5. ASSUME ~raced, ~unopened PROVE StreamInv'
  <2>1. ~Reopening /\ ~Reopening'
    BY <1>1, <1>2 DEF Reopening, RotMutex
  <2>2. g_zlog.named
    BY <1>1, <1>5 DEF StreamInv, Quiet
  <2>3. zarg'[t] = g_zlog.fp /\ \A u \in Thread : u # t => zarg'[u] = zarg[u]
    BY <1>1 DEF RotTypes
  <2>4. \A u \in Thread : zpc'[u] = "write" => zarg'[u] = g_zlog.fp
    BY <1>2, <1>5, <2>3 DEF StreamInv, Writing
  <2> QED BY <1>1, <1>5, <2>1, <2>2, <2>4 DEF StreamInv, Disk
<1> QED BY <1>1, <1>3, <1>4, <1>5, DiskKept DEF Histories

\* The record is in the file of the log, since the stream is the log's own.
LEMMA FprintfKeeps == ASSUME RotInv, NEW t \in Thread, Fprintf(t) PROVE RotInv'
<1> USE DEF RotInv
<1> DEFINE rec == <<t, zlogs[t]>>
<1>1. zpc[t] = "write" /\ kept' = kept \cup {rec} /\ To(t, "store")
      /\ sum' = [sum EXCEPT ![t] = g_zlog.fsize + 1]
      /\ UNCHANGED <<g_zlog, m_lock, zarg, second, current, archive, zlogs, raced, unopened, clobbered>>
  BY DEF Fprintf
<1>2. zpc' \in [Thread -> {"idle", "lock", "rotate", "reopen", "unlock", "write", "store", "flush"}]
      /\ zpc'[t] = "store" /\ \A u \in Thread : u # t => zpc'[u] = zpc[u]
  BY <1>1, Moved DEF RotTypes
<1>3. \/ /\ zarg[t] # 0 /\ zarg[t] = g_zlog.fp /\ UNCHANGED crashed
         /\ contents' = [contents EXCEPT ![zarg[t]] = contents[zarg[t]] \cup {rec}]
      \/ ~(zarg[t] # 0 /\ zarg[t] = g_zlog.fp) /\ UNCHANGED contents
  BY DEF Fprintf
<1>4. rec \in Thread \X Nat
  BY DEF RotTypes
<1> HIDE DEF rec
<1>5. contents' \in Seq(SUBSET (Thread \X Nat)) /\ Len(contents') = Len(contents)
  <2>0. contents \in Seq(SUBSET (Thread \X Nat)) /\ zarg[t] \in Nat
    BY DEF RotTypes
  <2>1. CASE zarg[t] \in 1..Len(contents)
    <3>1. contents[zarg[t]] \cup {rec} \in SUBSET (Thread \X Nat)
      BY <1>4, <2>0, <2>1
    <3> QED BY <1>3, <2>0, <2>1, <3>1, ExceptSeq
  <2>2. CASE zarg[t] \notin 1..Len(contents)
    <3>1. contents' = contents
      BY <1>3, <2>0, <2>2
    <3> QED BY <2>0, <3>1
  <2> QED BY <2>1, <2>2
<1>6. RotTypes'
  <2>1. sum' \in [Thread -> Nat]
    BY <1>1 DEF RotTypes
  <2> QED BY <1>1, <1>2, <1>5, <2>1 DEF RotTypes
<1>7. RotMutex'
  BY <1>1, <1>2 DEF RotMutex
<1>8. ASSUME ~raced, ~unopened PROVE StreamInv' /\ (~clobbered => kept' = Saved')
  <2>1. ~Reopening /\ zarg[t] = g_zlog.fp /\ g_zlog.named
    BY <1>1, <1>8 DEF StreamInv, Writing, Quiet
  <2>2. g_zlog.fp = current /\ current # 0
    BY <1>8, <2>1 DEF StreamInv
  <2>3. UNCHANGED crashed /\ contents' = [contents EXCEPT ![current] = contents[current] \cup {rec}]
    BY <1>3, <2>1, <2>2
  <2>4. ~Reopening'
    BY <1>2, <2>1 DEF Reopening
  <2>5. \A u \in Thread : zpc'[u] = "write" => zpc[u] = "write"
    BY <1>2
  <2>6. StreamInv'
    BY <1>1, <1>8, <2>1, <2>2, <2>3, <2>4, <2>5 DEF StreamInv, Writing
  <2>7. Named' = Named /\ current \in Named /\ Named \subseteq 1..Len(contents)
    <3>1. contents \in Seq(SUBSET (Thread \X Nat)) /\ Len(contents) \in Nat
      BY DEF RotTypes
    <3>2. \A s \in 1..MaxSecond : archive[s] \in 0..Len(contents)
      BY DEF RotTypes
    <3>3. current \in 0..Len(contents)
      BY DEF RotTypes
    <3> QED BY <1>1, <2>2, <3>1, <3>2, <3>3 DEF Named
  <2>8. \A f \in Named : contents'[f] = IF f = current THEN contents[f] \cup {rec} ELSE contents[f]
    <3>1. contents \in Seq(SUBSET (Thread \X Nat)) /\ DOMAIN contents = 1..Len(contents)
      BY DEF RotTypes
    <3> QED BY <2>3, <2>7, <3>1
  <2>9. Saved' = Saved \cup {rec}
    <3>1. \A r : r \in Saved' <=> r \in Saved \cup {rec}
      BY <2>7, <2>8, InSaved
    <3> QED BY <3>1, Zenon
  <2> QED BY <1>1, <1>8, <2>6, <2>9
<1> QED BY <1>1, <1>6, <1>7, <1>8

LEMMA RotStep == RotInv /\ [RotNext]_zlogVars => RotInv'
<1> SUFFICES ASSUME RotInv, [RotNext]_zlogVars PROVE RotInv'
  OBVIOUS
<1>1. CASE UNCHANGED zlogVars
  BY <1>1 DEF zlogVars, RotInv, RotTypes, RotMutex, StreamInv, Reopening, Writing, Quiet, Saved, Named
<1>2. CASE zlog_open \/ zlog_close \/ zlog_set_flag \/ zlog_reset_flag \/ Tick
  BY <1>2, OpenKeeps, CloseKeeps, FlagKeeps, TickKeeps
<1>3. ASSUME NEW t \in Thread, vzlog(t) \/ ZlogStep(t) PROVE RotInv'
  BY <1>3, QuietStepsKeep, RenameKeeps, ReopenKeeps, UnlockKeeps, FprintfKeeps DEF ZlogStep
<1> QED BY <1>1, <1>2, <1>3 DEF RotNext

\* The inductive invariant: the mutex is held by the thread that tests and rotates, and
\* while no rotation has fallen on a writer and no file has been refused, the stream of
\* g_zlog is that of the file with the name of the log.
THEOREM RotInductive == RotSpec => []RotInv
<1> QED BY RotInitially, RotStep, PTL DEF RotSpec

\* zlog_rotate() loses no record, for any number of threads, any size of the log and any
\* number of rotations, but for the three cases that KeepsRecords names.
THEOREM RecordsAreKept == RotSpec => []KeepsRecords
<1>1. RotInv => KeepsRecords
  BY DEF RotInv, StreamInv, KeepsRecords
<1> QED BY <1>1, RotInductive, PTL

-------------------------------------------------------------------------------
(* readn_block(), writen_block(), readn_nonblock() and writen_nonblock().    *)

LEMMA IOInitially == IOInit => IOInv
  <1> SUFFICES ASSUME IOInit PROVE IOInv
    OBVIOUS
  <1>1. call \in Call /\ call.n \in Nat
    BY FullIOAssumption DEF IOInit, Call
  <1>2. result = -1 /\ stream = <<>>
    BY DEF IOInit
  <1>3. stream \in Seq(Nat) /\ Len(stream) = 0
    BY <1>2
  <1>4. nleft = call.n /\ ptr = 0 /\ arrived = 0
    BY DEF IOInit
  <1>5. nleft \in 0..call.n /\ ptr = call.n - nleft /\ arrived \in Nat
    BY <1>1, <1>4
  <1>6. errno \in {"EAGAIN", "EINTR", "other"} /\ ended \in BOOLEAN /\ failed \in BOOLEAN
    BY DEF IOInit
  <1> QED
    BY <1>1, <1>2, <1>3, <1>4, <1>5, <1>6 DEF IOInv, ShortMeansError

\* A call that stops returns the number of bytes it has moved.
LEMMA StoppedReturns ==
    ASSUME IOInv, NEW e, Stopped(e)
    PROVE  result' = result \/ result' = ptr
  BY DEF Stopped, Break, IOInv

LEMMA MoveKeeps == IOInv /\ Move => IOInv'
  <1> SUFFICES ASSUME IOInv, Move PROVE IOInv'
    OBVIOUS
  <1>1. call.n \in Nat /\ call.dir \in {"read", "write"}
    BY FullIOAssumption DEF IOInv, Call
  <1>2. PICK k \in 1..Room :
          /\ stream' = stream \o [i \in 1..k |-> ptr + i]
          /\ arrived' = IF call.dir = "read" THEN arrived - k ELSE arrived
          /\ Advance(k)
    BY DEF Move
  <1>3. /\ nleft \in Nat /\ arrived \in Nat /\ Room \in Nat /\ Room <= nleft
        /\ call.dir = "read" => Room <= arrived
    BY <1>1 DEF Room, Least, IOInv
  <1>4. k \in Nat /\ k <= nleft /\ (call.dir = "read" => k <= arrived)
    BY <1>3
  <1>5. nleft' = nleft - k /\ ptr' = ptr + k /\ nleft' \in 0..call.n /\ ptr \in Nat
    BY <1>1, <1>2, <1>4, SMTT(30) DEF Advance, IOInv
  <1>50. stream \in Seq(Nat) /\ ptr = Len(stream) /\ \A i \in 1..ptr : stream[i] = i
    BY DEF IOInv
  <1> DEFINE new == [i \in 1..k |-> ptr + i]
  <1>6. new \in Seq(Nat) /\ Len(new) = k
    BY <1>4, <1>5
  <1>7. stream' = stream \o new
    BY <1>2
  <1> HIDE DEF new
  <1>71. stream' \in Seq(Nat) /\ Len(stream') = ptr + k
    BY <1>4, <1>50, <1>6, <1>7, ConcatProperties
  <1>8. \A i \in 1..Len(stream') : stream'[i] = i
    <2> SUFFICES ASSUME NEW i \in 1..(ptr + k) PROVE stream'[i] = i
      BY <1>71
    <2>1. CASE i <= ptr
      BY <2>1, <1>4, <1>50, <1>6, <1>7
    <2>2. CASE i > ptr
      <3>1. i - ptr \in 1..k
        BY <2>2, <1>4, <1>5
      <3>2. stream'[i] = new[i - ptr]
        BY <2>2, <3>1, <1>4, <1>50, <1>6, <1>7
      <3> QED
        BY <3>1, <3>2, <1>5 DEF new
    <2> QED
      BY <2>1, <2>2, <1>4, <1>5
  <1>9. result' = -1 /\ UNCHANGED <<call, errno, ended, failed>>
    BY DEF Move, Running, IOInv
  <1>10. arrived' \in Nat
    BY <1>1, <1>2, <1>4 DEF IOInv
  <1> QED
    BY <1>1, <1>4, <1>5, <1>71, <1>8, <1>9, <1>10 DEF IOInv, ShortMeansError

LEMMA IOStep_ == IOInv /\ [IONext]_ioVars => IOInv'
  <1> SUFFICES ASSUME IOInv, [IONext]_ioVars PROVE IOInv'
    OBVIOUS
  <1>0. call.n \in Nat
    BY FullIOAssumption DEF IOInv, Call
  <1>1. CASE Move
    BY <1>1, MoveKeeps
  <1>2. CASE EndOfStream
    <2>1. result' \in {-1, ptr}
      BY <1>2, StoppedReturns DEF EndOfStream, Running
    <2> QED
      BY <1>2, <2>1 DEF EndOfStream, IOInv, ShortMeansError
  <1>3. CASE Return
    <2>1. nleft = 0 /\ result' = call.n /\ result' = ptr
      BY <1>0, <1>3 DEF Return, Break, IOInv
    <2>2. UNCHANGED <<call, nleft, ptr, errno, stream, arrived, ended, failed>>
      BY <1>3 DEF Return
    <2> QED
      BY <2>1, <2>2 DEF IOInv, ShortMeansError
  <1>4. CASE Fail
    <2>1. PICK e \in {"EAGAIN", "EINTR", "other"} :
            /\ e = "EAGAIN" => call.nonblock
            /\ errno' = e
            /\ failed' = (failed \/ e # "EAGAIN")
            /\ Stopped(e)
      BY <1>4 DEF Fail
    <2>2. result' \in {-1, ptr}
      BY <1>4, <2>1, StoppedReturns DEF Fail, Running
    <2>3. failed' \in BOOLEAN
      BY <2>1 DEF IOInv
    <2>4. result' # -1 => failed'
      <3>1. CASE e = "EAGAIN"
        BY <1>4, <2>1, <3>1 DEF Stopped, Fail, Running
      <3>2. CASE e # "EAGAIN"
        BY <2>1, <3>2
      <3> QED
        BY <3>1, <3>2
    <2> QED
      BY <1>4, <2>1, <2>2, <2>3, <2>4 DEF Fail, IOInv, ShortMeansError
  <1>5. CASE Arrive
    <2>1. arrived' \in Nat
      BY <1>5 DEF Arrive, IOInv
    <2>2. UNCHANGED <<call, nleft, ptr, errno, result, stream, ended, failed>>
      BY <1>5 DEF Arrive
    <2> QED
      BY <2>1, <2>2 DEF IOInv, ShortMeansError
  <1>6. CASE PeerCloses
    BY <1>6 DEF PeerCloses, IOInv, ShortMeansError
  <1>7. CASE UNCHANGED ioVars
    BY <1>7 DEF ioVars, IOInv, ShortMeansError
  <1> QED
    BY <1>1, <1>2, <1>3, <1>4, <1>5, <1>6, <1>7 DEF IONext, IOStep, WriteToClosed

\* For every length of transfer, every way of the kernel to cut it up and every errno
\* left over: the bytes are moved in order, their number is returned, and a return
\* value other than n is never the work of EAGAIN alone.
THEOREM TransfersMoveOrFail == IOSpec => []MovedOrFailed
  <1>1. IOInv => MovedOrFailed
    BY DEF IOInv, MovedOrFailed, ReturnsMoved
  <1> QED
    BY <1>1, IOInitially, IOStep_, PTL DEF IOSpec

\* With errno left over, readn_nonblock() stays at the end of the stream, whatever the
\* scheduler does, until the descriptor reports another error.
THEOREM EndIsReadAgain == IOSpec => [][SpinsOn]_ioVars
  <1>1. IOInv /\ [IONext]_ioVars => [SpinsOn]_ioVars
    <2> SUFFICES ASSUME IOInv, IONext, Spins PROVE Spins' \/ errno' = "other"
      BY DEF SpinsOn
    <2>1. CASE Move
      <3>1. Room = 0
        BY DEF Spins, Room, Least, IOInv, Call
      <3> QED
        BY <2>1, <3>1 DEF Move
    <2>2. CASE EndOfStream
      BY <2>2 DEF EndOfStream, Stopped, Spins, Running
    <2>3. CASE Fail
      <3>1. errno' # "EAGAIN" /\ errno' # "EINTR"
        BY <2>3 DEF Fail, Spins
      <3> QED
        BY <2>3, <3>1 DEF Fail
    <2>4. ~Return /\ ~Arrive /\ ~PeerCloses
      <3>1. nleft > 0 /\ nleft \in Int
        BY FullIOAssumption DEF Spins, Running, IOInv, Call
      <3>2. ~Return
        BY <3>1 DEF Return
      <3> QED
        BY <3>2 DEF Arrive, PeerCloses, Spins
    <2> QED
      BY <2>1, <2>2, <2>3, <2>4 DEF IONext, IOStep, WriteToClosed
  <1> QED
    BY <1>1, IOInitially, IOStep_, PTL DEF IOSpec
-------------------------------------------------------------------------------
(* The proxy.                                                                *)

LEMMA Sides == /\ \A s \in Side : Other(s) \in Side /\ Other(s) # s /\ Other(Other(s)) = s
               /\ \A s, t \in Side : t = s \/ t = Other(s)
  BY DEF Side, Other

LEMMA AtMostBoth == ASSUME NEW S \in SUBSET Side PROVE Cardinality(S) \in 0..2
  <1>1. IsFiniteSet(Side) /\ Cardinality(Side) <= 2
    <2>1. IsFiniteSet({"cli"}) /\ Cardinality({"cli"}) = 1
      BY FS_Singleton
    <2>2. Side = {"cli"} \cup {"svr"}
      BY DEF Side
    <2> QED
      BY <2>1, <2>2, FS_AddElement
  <1>2. IsFiniteSet(S) /\ Cardinality(S) <= Cardinality(Side)
    BY <1>1, FS_Subset
  <1> QED
    BY <1>1, <1>2, FS_CardinalityType

LEMMA TypesInitially == ProxyInit => ProxyTypeOK
  <1> SUFFICES ASSUME ProxyInit PROVE ProxyTypeOK
    OBVIOUS
  <1>1. <<>> \in Seq(Nat) /\ <<>> \in Seq(Side) /\ Len(<<>>) = 0
    OBVIOUS
  <1>2. NoXfer \in [buf : Seq(Nat), nsend : Nat, len : Int, short : Nat]
    BY <1>1 DEF NoXfer
  <1>3. NoXfer.buf = <<>> /\ NoXfer.nsend = 0
    BY DEF NoXfer
  <1> QED
    BY <1>1, <1>2, <1>3 DEF ProxyInit, ProxyTypeOK

\* What one turn of Send() puts on the wire: the next n bytes of the buffer.
LEMMA NextBytes ==
    ASSUME NEW b \in Seq(Nat), NEW k \in Nat, k <= Len(b),
           NEW rest, rest = SubSeq(b, k + 1, Len(b)), NEW n \in 1..Len(rest)
    PROVE  /\ Len(rest) = Len(b) - k /\ n \in Nat \ {0} /\ k + n <= Len(b)
           /\ SubSeq(rest, 1, n) \in Seq(Nat) /\ Len(SubSeq(rest, 1, n)) = n
           /\ \A i \in 1..n : SubSeq(rest, 1, n)[i] = b[k + i]
  <1> DEFINE r == SubSeq(b, k + 1, Len(b))
             m == k + 1
             l == Len(b)
  <1>1. m \in Int /\ l \in Nat /\ \A i \in m..l : b[i] \in Nat
    OBVIOUS
  <1>2. /\ r \in Seq(Nat) /\ Len(r) = l - k
        /\ \A i \in 1..Len(r) : r[i] = b[k + i]
    <2> HIDE DEF m, l
    <2>1. /\ SubSeq(b, m, l) \in Seq(Nat)
          /\ Len(SubSeq(b, m, l)) = IF m <= l THEN l - m + 1 ELSE 0
          /\ \A i \in 1..(l - m + 1) : SubSeq(b, m, l)[i] = b[m + i - 1]
      BY <1>1, SubSeqProperties
    <2>2. k <= l /\ m = k + 1 /\ r = SubSeq(b, m, l)
      BY DEF l, m
    <2>3. Len(r) = l - k
      BY <1>1, <2>1, <2>2
    <2>4. \A i \in 1..Len(r) : m + i - 1 = k + i
      BY <1>1, <2>2, <2>3
    <2>5. l - m + 1 = l - k
      BY <1>1, <2>2
    <2>6. \A i \in 1..(l - k) : r[i] = b[m + i - 1]
      BY <2>1, <2>2, <2>5
    <2>7. \A i \in 1..(l - k) : m + i - 1 = k + i
      BY <2>3, <2>4
    <2>8. \A i \in 1..(l - k) : r[i] = b[k + i]
      BY <2>6, <2>7
    <2> QED
      BY <2>1, <2>2, <2>3, <2>8
  <1>3. n \in Nat /\ n >= 1 /\ n <= l - k /\ n <= Len(r)
    BY <1>1, <1>2
  <1> HIDE DEF r, m, l
  <1>4. /\ SubSeq(r, 1, n) \in Seq(Nat) /\ Len(SubSeq(r, 1, n)) = n
        /\ \A i \in 1..n : SubSeq(r, 1, n)[i] = r[i]
    <2>1. \A i \in 1..n : r[i] \in Nat
      BY <1>2, <1>3, SMTT(30)
    <2>2. /\ SubSeq(r, 1, n) \in Seq(Nat)
          /\ Len(SubSeq(r, 1, n)) = IF 1 <= n THEN n - 1 + 1 ELSE 0
          /\ \A i \in 1..(n - 1 + 1) : SubSeq(r, 1, n)[i] = r[1 + i - 1]
      BY <1>3, <2>1, SubSeqProperties
    <2> QED
      BY <1>3, <2>2
  <1>5. ASSUME NEW i \in 1..n PROVE SubSeq(r, 1, n)[i] = b[k + i]
    <2>1. i \in 1..Len(r)
      BY <1>2, <1>3
    <2>2. SubSeq(r, 1, n)[i] = r[i]
      BY <1>4
    <2> QED
      BY <1>2, <2>1, <2>2
  <1>6. k + n <= l
    BY <1>1, <1>3
  <1> QED
    BY <1>2, <1>3, <1>4, <1>5, <1>6 DEF r, l

\* The buffer, the counters and the receiver after one turn of Send(), which hands
\* over the n bytes q.
Handed(c, n, q) ==
    LET x == xfer[c] y == xfer'[c] d == Other(Head(events[c])) IN
    /\ d \in Side /\ Head(events[c]) \in Side
    /\ x.nsend + n <= Len(x.buf) /\ Len(q) = n
    /\ \A i \in 1..n : q[i] = x.buf[x.nsend + i]
    /\ out' = [out EXCEPT ![c][d] = out[c][d] \o q]
    /\ y.buf = x.buf /\ y.nsend = x.nsend + n /\ y.len = x.len - (x.nsend + n)
    /\ y.short = IF x.nsend + n < Len(x.buf) THEN x.short + 1 ELSE x.short
    /\ xfer' = [xfer EXCEPT ![c] = y]
    /\ y \in [buf : Seq(Nat), nsend : Nat, len : Int, short : Nat]
    /\ torn' = [torn EXCEPT ![c] = torn[c] \/ y.short > 1]

LEMMA SendFields ==
    ASSUME ProxyTypeOK, NEW c \in Conn, Send(c)
    PROVE  \E n \in Nat \ {0}, q \in Seq(Nat) : Handed(c, n, q)
  <1> DEFINE x == xfer[c]
             d == Other(Head(events[c]))
             rest == Unsent(x)
             Y(n) == [x EXCEPT !.nsend = x.nsend + n,
                               !.len = x.len - (x.nsend + n),
                               !.short = IF n < Len(rest) THEN x.short + 1 ELSE x.short]
  <1>1. Head(events[c]) \in Side /\ d \in Side
    <2>1. events[c] \in Seq(Side) /\ events[c] # <<>>
      BY DEF Send, ProxyTypeOK
    <2> QED
      BY <2>1, Sides
  <1>2. PICK n \in 1..Len(rest) :
          /\ out' = [out EXCEPT ![c][d] = out[c][d] \o SubSeq(rest, 1, n)]
          /\ xfer' = [xfer EXCEPT ![c] = Y(n)]
          /\ torn' = [torn EXCEPT ![c] = torn[c] \/ Y(n).short > 1]
    BY DEF Send
  <1>3. x \in [buf : Seq(Nat), nsend : Nat, len : Int, short : Nat] /\ x.nsend <= Len(x.buf)
    BY DEF ProxyTypeOK
  <1>4. /\ Len(rest) = Len(x.buf) - x.nsend /\ n \in Nat \ {0} /\ x.nsend + n <= Len(x.buf)
        /\ SubSeq(rest, 1, n) \in Seq(Nat) /\ Len(SubSeq(rest, 1, n)) = n
        /\ \A i \in 1..n : SubSeq(rest, 1, n)[i] = x.buf[x.nsend + i]
    <2>1. x.buf \in Seq(Nat) /\ x.nsend \in Nat
      BY <1>3
    <2> DEFINE b == x.buf
               k == x.nsend
    <2>2. rest = SubSeq(b, k + 1, Len(b))
      BY DEF Unsent
    <2>3. b \in Seq(Nat) /\ k \in Nat /\ k <= Len(b)
      BY <1>3, <2>1
    <2> HIDE DEF x, rest, b, k
    <2>4. /\ Len(rest) = Len(b) - k /\ n \in Nat \ {0} /\ k + n <= Len(b)
          /\ SubSeq(rest, 1, n) \in Seq(Nat) /\ Len(SubSeq(rest, 1, n)) = n
          /\ \A i \in 1..n : SubSeq(rest, 1, n)[i] = b[k + i]
      BY <2>2, <2>3, NextBytes, SMTT(30)
    <2> QED
      BY <2>4 DEF b, k
  <1>5. xfer'[c] = Y(n)
    BY <1>2 DEF ProxyTypeOK
  <1> HIDE DEF rest, d
  <1>6. /\ Y(n).buf = x.buf /\ Y(n).nsend = x.nsend + n /\ Y(n).len = x.len - (x.nsend + n)
        /\ Y(n).short = IF n < Len(rest) THEN x.short + 1 ELSE x.short
    BY <1>3
  <1>7. n < Len(rest) <=> x.nsend + n < Len(x.buf)
    BY <1>3, <1>4, SMTT(30)
  <1>8. Y(n) \in [buf : Seq(Nat), nsend : Nat, len : Int, short : Nat]
    <2>0. x.nsend \in Nat /\ x.len \in Int /\ x.short \in Nat /\ n \in Nat
      BY <1>3
    <2>1. x.nsend + n \in Nat /\ x.len - (x.nsend + n) \in Int
      <3> HIDE DEF x
      <3> QED BY <2>0
    <2>2. (IF n < Len(rest) THEN x.short + 1 ELSE x.short) \in Nat
      <3> HIDE DEF x
      <3> QED BY <2>0
    <2> QED
      BY <1>3, <2>1, <2>2
  <1> HIDE DEF Y
  <1> n \in Nat \ {0} /\ SubSeq(rest, 1, n) \in Seq(Nat)
    BY <1>4
  <1> WITNESS n \in Nat \ {0}, SubSeq(rest, 1, n) \in Seq(Nat)
  <1> QED
    BY <1>1, <1>2, <1>4, <1>5, <1>6, <1>7, <1>8 DEF d, Handed

LEMMA TypesKept == ProxyTypeOK /\ [ProxyNext]_proxyVars => ProxyTypeOK'
  <1> SUFFICES ASSUME ProxyTypeOK, [ProxyNext]_proxyVars PROVE ProxyTypeOK'
    OBVIOUS
  <1>0. CASE UNCHANGED proxyVars
    BY <1>0 DEF proxyVars, ProxyTypeOK
  <1> SUFFICES ASSUME NEW c \in Conn,
                      \/ Accept(c) \/ AcceptLeaks(c) \/ ThreadStep(c) \/ EpollFails(c)
                      \/ Resolve(c) \/ \E s \in Side : Write(c, s) \/ Finish(c, s)
               PROVE  ProxyTypeOK'
    BY <1>0 DEF ProxyNext
  <1> USE DEF RunTo
  <1>n. /\ NoXfer \in [buf : Seq(Nat), nsend : Nat, len : Int, short : Nat]
        /\ NoXfer.nsend = 0 /\ Len(NoXfer.buf) = 0
        /\ <<>> \in Seq(Side) /\ Len(<<>>) = 0
    BY DEF NoXfer
  <1>1. CASE Accept(c)
    <2>1. PICK fd \in {"open", "bad"} : sock' = [sock EXCEPT ![c]["cli"] = fd]
      BY <1>1 DEF Accept
    <2>2. sock' \in [Conn -> [Side -> {"none", "bad", "connecting", "open", "failed", "closed"}]]
      BY <2>1 DEF ProxyTypeOK, Side
    <2> QED
      BY <1>1, <2>2 DEF Accept, ProxyTypeOK
  <1>2. CASE AcceptLeaks(c)
    BY <1>2 DEF AcceptLeaks, ProxyTypeOK, Side
  <1>3. CASE Connect(c)
    <2>1. PICK fd \in {"bad", "connecting", "open", "failed"}, epoll \in BOOLEAN :
             /\ sock' = [sock EXCEPT ![c]["svr"] = fd]
             /\ curfds' = [curfds EXCEPT ![c] =
                   IF epoll THEN Cardinality({s \in Side : Usable(sock'[c][s])}) ELSE 0]
      BY <1>3 DEF Connect
    <2>2. Cardinality({s \in Side : Usable(sock'[c][s])}) \in 0..2
      BY AtMostBoth
    <2>3. curfds' \in [Conn -> 0..2]
      BY <2>1, <2>2 DEF ProxyTypeOK
    <2>4. sock' \in [Conn -> [Side -> {"none", "bad", "connecting", "open", "failed", "closed"}]]
      BY <2>1 DEF ProxyTypeOK, Side
    <2> QED
      BY <1>3, <2>3, <2>4 DEF Connect, ProxyTypeOK
  <1>4. CASE EpollWait(c)
    <2>0. PICK n \in 1..curfds[c] : \E e \in [1..n -> {s \in Side : Ready(c, s)}] :
             events' = [events EXCEPT ![c] = e]
      BY <1>4 DEF EpollWait
    <2>1. PICK e \in [1..n -> {s \in Side : Ready(c, s)}] : events' = [events EXCEPT ![c] = e]
      BY <2>0
    <2>2. n \in Nat /\ n <= 2
      <3>1. curfds[c] \in 0..2
        BY DEF ProxyTypeOK
      <3> QED
        BY <3>1
    <2>3. e \in Seq(Side) /\ Len(e) = n
      BY <2>2
    <2> QED
      BY <1>4, <2>1, <2>2, <2>3 DEF EpollWait, ProxyTypeOK
  <1>5. CASE Recv(c)
    <2> DEFINE s == Head(events[c])
    <2>1. s \in Side
      BY <1>5 DEF Recv, ProxyTypeOK
    <2>2. PICK n \in 1..BUFF_SIZE :
             /\ rcvd' = [rcvd EXCEPT ![c][s] = rcvd[c][s] + n]
             /\ xfer' = [xfer EXCEPT ![c] =
                   [buf |-> [i \in 1..n |-> rcvd[c][s] + i], nsend |-> 0, len |-> n, short |-> 0]]
      BY <1>5 DEF Recv
    <2> HIDE DEF s
    <2>3. rcvd[c][s] \in Nat /\ n \in Nat
      BY <2>1, ProxyAssumption DEF ProxyTypeOK
    <2>4. [i \in 1..n |-> rcvd[c][s] + i] \in Seq(Nat)
      BY <2>3
    <2>5. rcvd' \in [Conn -> [Side -> Nat]]
      BY <2>1, <2>2, <2>3, SMTT(30) DEF ProxyTypeOK
    <2>6. /\ xfer' \in [Conn -> [buf : Seq(Nat), nsend : Nat, len : Int, short : Nat]]
          /\ xfer'[c].nsend = 0 /\ xfer'[c].buf = [i \in 1..n |-> rcvd[c][s] + i]
          /\ \A d \in Conn : d # c => xfer'[d] = xfer[d]
      BY <2>2, <2>3, <2>4 DEF ProxyTypeOK
    <2>7. \A d \in Conn : xfer'[d].nsend <= Len(xfer'[d].buf)
      <3>1. 0 <= Len([i \in 1..n |-> rcvd[c][s] + i])
        BY <2>3, <2>4, LenProperties
      <3> QED
        BY <2>6, <3>1 DEF ProxyTypeOK
    <2> QED
      BY <1>5, <2>5, <2>6, <2>7 DEF Recv, ProxyTypeOK
  <1>6. CASE Send(c)
    <2> DEFINE d == Other(Head(events[c]))
    <2>1. PICK n \in Nat \ {0}, q \in Seq(Nat) : Handed(c, n, q)
      BY <1>6, SendFields
    <2>2. /\ d \in Side
          /\ xfer[c].nsend + n <= Len(xfer[c].buf)
          /\ out' = [out EXCEPT ![c][d] = out[c][d] \o q]
          /\ xfer'[c].buf = xfer[c].buf /\ xfer'[c].nsend = xfer[c].nsend + n
          /\ xfer' = [xfer EXCEPT ![c] = xfer'[c]]
          /\ xfer'[c] \in [buf : Seq(Nat), nsend : Nat, len : Int, short : Nat]
          /\ torn' = [torn EXCEPT ![c] = torn[c] \/ xfer'[c].short > 1]
      BY <2>1, Zenon DEF Handed
    <2> HIDE DEF d
    <2>3. out[c][d] \o q \in Seq(Nat)
      BY <2>2, ConcatProperties DEF ProxyTypeOK
    <2>4. out' \in [Conn -> [Side -> Seq(Nat)]]
      BY <2>2, <2>3 DEF ProxyTypeOK
    <2>5. xfer' \in [Conn -> [buf : Seq(Nat), nsend : Nat, len : Int, short : Nat]]
      BY <2>2 DEF ProxyTypeOK
    <2>6. \A e \in Conn : xfer'[e].nsend <= Len(xfer'[e].buf)
      <3> SUFFICES ASSUME NEW e \in Conn PROVE xfer'[e].nsend <= Len(xfer'[e].buf)
        OBVIOUS
      <3>1. CASE e = c
        BY <2>2, <3>1
      <3>2. CASE e # c
        BY <2>2, <3>2 DEF ProxyTypeOK
      <3> QED
        BY <3>1, <3>2
    <2>7. torn' \in [Conn -> BOOLEAN]
      BY <2>2 DEF ProxyTypeOK
    <2> QED
      BY <1>6, <2>4, <2>5, <2>6, <2>7 DEF Send, ProxyTypeOK
  <1>7. CASE Sent(c)
    <2>1. xfer' = [xfer EXCEPT ![c] = NoXfer] /\ events' = [events EXCEPT ![c] = Tail(events[c])]
      BY <1>7 DEF Sent
    <2> QED
      <3>1. events[c] \in Seq(Side) /\ events[c] # <<>> /\ Len(events[c]) <= 2
        BY <1>7 DEF Sent, ProxyTypeOK
      <3>2. Tail(events[c]) \in Seq(Side) /\ Len(Tail(events[c])) <= 2
        BY <3>1
      <3>3. /\ events' \in [Conn -> Seq(Side)]
            /\ \A d \in Conn : Len(events'[d]) <= 2 /\ (run'[d] = "send" => events'[d] # <<>>)
        BY <1>7, <2>1, <3>2, SMTT(30) DEF Sent, ProxyTypeOK
      <3>4. /\ xfer' \in [Conn -> [buf : Seq(Nat), nsend : Nat, len : Int, short : Nat]]
            /\ \A d \in Conn : xfer'[d].nsend <= Len(xfer'[d].buf)
        BY <2>1, <1>n DEF ProxyTypeOK
      <3> QED
        BY <1>7, <3>3, <3>4 DEF Sent, ProxyTypeOK
  <1>8. CASE Handled(c)
    BY <1>8 DEF Handled, ProxyTypeOK
  <1>9. CASE Broken(c)
    <2>1. /\ xfer' = [xfer EXCEPT ![c] = NoXfer] /\ events' = [events EXCEPT ![c] = <<>>]
          /\ curfds' = [curfds EXCEPT ![c] = 0]
      BY <1>9 DEF Broken, Remove
    <2>2. /\ events' \in [Conn -> Seq(Side)] /\ curfds' \in [Conn -> 0..2]
          /\ \A d \in Conn : Len(events'[d]) <= 2 /\ (run'[d] = "send" => events'[d] # <<>>)
      <3>1. \A d \in Conn : d # c => events'[d] = events[d] /\ run'[d] = run[d]
        BY <1>9, <2>1 DEF Broken, ProxyTypeOK
      <3>2. events'[c] = <<>> /\ run'[c] = "wait"
        BY <1>9, <2>1 DEF Broken, ProxyTypeOK
      <3>3. events' \in [Conn -> Seq(Side)] /\ curfds' \in [Conn -> 0..2]
        BY <1>n, <2>1 DEF ProxyTypeOK
      <3> QED
        <4>1. Len(events'[c]) <= 2 /\ ~(run'[c] = "send")
          BY <1>n, <3>2
        <4>2. \A d \in Conn : d # c =>
                Len(events'[d]) <= 2 /\ (run'[d] = "send" => events'[d] # <<>>)
          BY <3>1 DEF ProxyTypeOK
        <4> QED
          BY <3>3, <4>1, <4>2
    <2>3. /\ xfer' \in [Conn -> [buf : Seq(Nat), nsend : Nat, len : Int, short : Nat]]
          /\ \A d \in Conn : xfer'[d].nsend <= Len(xfer'[d].buf)
      BY <1>n, <2>1 DEF ProxyTypeOK
    <2> QED
      BY <1>9, <2>2, <2>3 DEF Broken, ProxyTypeOK
  <1>10. CASE CloseAll(c)
    BY <1>10 DEF CloseAll, ProxyTypeOK
  <1>11. CASE EpollFails(c)
    BY <1>11 DEF EpollFails, ProxyTypeOK
  <1>12. CASE Resolve(c)
    <2>1. PICK fd \in {"open", "failed"} : sock' = [sock EXCEPT ![c]["svr"] = fd]
      BY <1>12 DEF Resolve
    <2>2. sock' \in [Conn -> [Side -> {"none", "bad", "connecting", "open", "failed", "closed"}]]
      BY <2>1 DEF ProxyTypeOK, Side
    <2> QED
      BY <1>12, <2>2 DEF Resolve, ProxyTypeOK
  <1>13. ASSUME NEW s \in Side, Write(c, s) PROVE ProxyTypeOK'
    BY <1>13, SMTT(30) DEF Write, ProxyTypeOK
  <1>14. ASSUME NEW s \in Side, Finish(c, s) PROVE ProxyTypeOK'
    BY <1>14 DEF Finish, ProxyTypeOK
  <1> QED
    BY <1>1, <1>2, <1>3, <1>4, <1>5, <1>6, <1>7, <1>8, <1>9, <1>10, <1>11, <1>12, <1>13, <1>14
       DEF ThreadStep

ConnInv(c) == Forwarded(c) /\ BufferInv(c) /\ DeliveryInv(c)

\* A connection keeps its invariant when what it is about stays as it is.
Same(c) ==
    /\ run'[c] = run[c] /\ curfds'[c] = curfds[c] /\ events'[c] = events[c]
    /\ xfer'[c] = xfer[c] /\ rcvd'[c] = rcvd[c] /\ out'[c] = out[c] /\ torn'[c] = torn[c]

LEMMA SameKeeps == ASSUME NEW c \in Conn, ConnInv(c), Same(c) PROVE ConnInv(c)'
  <1>1. \A s : Pending(c, s)' = Pending(c, s)
    BY DEF Same, Pending
  <1>2. Forwarded(c)'
    BY DEF ConnInv, Forwarded, Same
  <1>3. BufferInv(c)'
    BY DEF ConnInv, BufferInv, Same
  <1>4. DeliveryInv(c)'
    BY <1>1 DEF ConnInv, DeliveryInv, Same
  <1> QED
    BY <1>2, <1>3, <1>4 DEF ConnInv

\* Outside of Send() all that matters is which bytes were received and delivered, and
\* whether there will be more.
LEMMA QuietKeeps ==
    ASSUME ProxyTypeOK, NEW c \in Conn, ConnInv(c),
           rcvd'[c] = rcvd[c], out'[c] = out[c], torn'[c] = torn[c],
           run[c] # "send", run'[c] # "send",
           curfds'[c] > 0 => curfds[c] > 0 \/ run[c] = "start",
           run'[c] = "event" => curfds'[c] > 0,
           run'[c] \in {"none", "start"} => run[c] \in {"none", "start"}
    PROVE  ConnInv(c)'
  <1>1. \A s : Pending(c, s) = 0 /\ Pending(c, s)' = 0
    BY DEF Pending
  <1>2. Forwarded(c)'
    BY DEF ConnInv, Forwarded
  <1>3. BufferInv(c)'
    BY DEF BufferInv
  <1>4. DeliveryInv(c)'
    <2>1. run[c] = "start" => \A s \in Side : Len(out[c][s]) = rcvd[c][Other(s)]
      BY Sides DEF ConnInv, DeliveryInv
    <2>2. \A s \in Side : rcvd[c][Other(s)] \in Nat
      BY Sides DEF ProxyTypeOK
    <2> QED
      BY <1>1, <2>1, <2>2 DEF ConnInv, DeliveryInv
  <1> QED
    BY <1>2, <1>3, <1>4 DEF ConnInv

LEMMA BrokenKeeps == ASSUME ProxyTypeOK, NEW c \in Conn, ConnInv(c), Broken(c) PROVE ConnInv(c)'
  <1>1. /\ run'[c] = "wait" /\ curfds'[c] = 0
        /\ rcvd'[c] = rcvd[c] /\ out'[c] = out[c] /\ torn'[c] = torn[c]
    BY DEF Broken, Remove, RunTo, ProxyTypeOK
  <1>2. \A s \in Side : Pending(c, s) \in Nat /\ Pending(c, s)' = 0
    BY <1>1 DEF Pending, ProxyTypeOK
  <1>3. Forwarded(c)'
    BY <1>1 DEF ConnInv, Forwarded
  <1>4. BufferInv(c)'
    BY <1>1 DEF BufferInv
  <1>5. DeliveryInv(c)'
    <2>1. \A s \in Side, i \in Nat : i \in 1..Len(out[c][s]) => out[c][s][i] <= rcvd[c][Other(s)]
      <3> SUFFICES ASSUME NEW s \in Side, NEW i \in 1..Len(out[c][s])
                   PROVE  out[c][s][i] <= rcvd[c][Other(s)]
        OBVIOUS
      <3>1. out[c][s][i] <= rcvd[c][Other(s)] - Pending(c, Other(s))
        BY DEF ConnInv, DeliveryInv
      <3>2. out[c][s][i] \in Nat
        BY DEF ProxyTypeOK
      <3>3. rcvd[c][Other(s)] \in Nat /\ Pending(c, Other(s)) \in Nat
        BY <1>2, Sides DEF ProxyTypeOK
      <3> QED
        BY <3>1, <3>2, <3>3
    <2> QED
      BY <1>1, <1>2, <2>1, Sides DEF DeliveryInv, ProxyTypeOK
  <1> QED
    BY <1>3, <1>4, <1>5 DEF ConnInv

LEMMA RecvKeeps == ASSUME ProxyTypeOK, NEW c \in Conn, ConnInv(c), Recv(c) PROVE ConnInv(c)'
  <1> DEFINE s == Head(events[c])
             old == rcvd[c][s]
  <1>1. s \in Side /\ events'[c] = events[c] /\ run[c] = "event" /\ run'[c] = "send"
    BY DEF Recv, RunTo, ProxyTypeOK
  <1>2. PICK n \in 1..BUFF_SIZE :
          /\ rcvd' = [rcvd EXCEPT ![c][s] = old + n]
          /\ xfer' = [xfer EXCEPT ![c] =
                [buf |-> [i \in 1..n |-> old + i], nsend |-> 0, len |-> n, short |-> 0]]
    BY DEF Recv
  <1>3. out'[c] = out[c] /\ torn'[c] = torn[c] /\ curfds'[c] = curfds[c]
    BY DEF Recv
  <1> HIDE DEF s
  <1>4. old \in Nat /\ n \in Nat /\ n >= 1
    BY <1>1, ProxyAssumption DEF ProxyTypeOK
  <1>5. /\ rcvd'[c][s] = old + n
        /\ \A t \in Side : t # s => rcvd'[c][t] = rcvd[c][t]
    BY <1>1, <1>2 DEF ProxyTypeOK
  <1>6. /\ xfer'[c].buf = [i \in 1..n |-> old + i] /\ xfer'[c].nsend = 0
        /\ xfer'[c].len = n /\ xfer'[c].short = 0
    BY <1>2 DEF ProxyTypeOK
  <1>7. Len(xfer'[c].buf) = n
    BY <1>4, <1>6
  <1>8. Head(events'[c]) = s
    BY <1>1 DEF s
  <1>9. \A t \in Side : /\ Pending(c, t) = 0
                        /\ rcvd'[c][t] - Pending(c, t)' = rcvd[c][t]
    <2>1. \A t : Pending(c, t) = 0
      BY <1>1 DEF Pending
    <2>2. \A t \in Side : t = s => Pending(c, t)' = n
      BY <1>1, <1>4, <1>6, <1>7, <1>8 DEF Pending
    <2>3. \A t \in Side : t # s => Pending(c, t)' = 0
      BY <1>1, <1>8 DEF Pending
    <2>4. \A t \in Side : rcvd[c][t] \in Nat
      BY DEF ProxyTypeOK
    <2> QED
      BY <1>4, <1>5, <2>1, <2>2, <2>3, <2>4
  <1>10. Forwarded(c)'
    BY <1>3 DEF ConnInv, Forwarded
  <1>11. BufferInv(c)'
    <2>1. Len(xfer'[c].buf) \in 1..rcvd'[c][Head(events'[c])]
      BY <1>4, <1>5, <1>7, <1>8
    <2>2. \A i \in 1..Len(xfer'[c].buf) :
             xfer'[c].buf[i] = rcvd'[c][Head(events'[c])] - Len(xfer'[c].buf) + i
      BY <1>4, <1>5, <1>6, <1>7, <1>8
    <2> QED
      BY <1>4, <1>6, <1>7, <2>1, <2>2 DEF BufferInv
  <1>12. DeliveryInv(c)'
    <2>1. \A t \in Side : rcvd[c][t] - 0 = rcvd[c][t]
      BY DEF ProxyTypeOK
    <2> QED
      BY <1>1, <1>3, <1>9, <2>1, Sides DEF ConnInv, DeliveryInv
  <1> QED
    BY <1>10, <1>11, <1>12 DEF ConnInv

LEMMA SentKeeps == ASSUME ProxyTypeOK, NEW c \in Conn, ConnInv(c), Sent(c) PROVE ConnInv(c)'
  <1> DEFINE x == xfer[c]
             s == Head(events[c])
  <1>1. /\ run[c] = "send" /\ run'[c] = "event" /\ curfds'[c] = curfds[c] /\ x.len <= 0
        /\ rcvd'[c] = rcvd[c] /\ out'[c] = out[c] /\ torn'[c] = torn[c]
    BY DEF Sent, RunTo, ProxyTypeOK
  <1>2. s \in Side /\ x.nsend \in Nat /\ Len(x.buf) \in Nat /\ x.nsend <= Len(x.buf) /\ x.len \in Int
        /\ x.short \in Nat
    BY <1>1 DEF ProxyTypeOK
  <1>3. ~torn[c] => x.nsend = Len(x.buf)
    <2> SUFFICES ASSUME ~torn[c], x.nsend # Len(x.buf) PROVE FALSE
      OBVIOUS
    <2>1. x.short <= 1 /\ x.len = Len(x.buf) - x.nsend
      BY <1>1, <1>2 DEF ConnInv, BufferInv
    <2> QED
      BY <1>1, <1>2, <2>1
  <1>4. \A t \in Side : /\ Pending(c, t) \in Nat /\ Pending(c, t)' = 0
                        /\ rcvd[c][t] \in Nat /\ (~torn[c] => Pending(c, t) = 0)
    BY <1>1, <1>2, <1>3, SMTT(30) DEF Pending, ProxyTypeOK
  <1>5. Forwarded(c)'
    BY <1>1 DEF ConnInv, Forwarded
  <1>6. BufferInv(c)'
    BY <1>1 DEF BufferInv
  <1>7. DeliveryInv(c)'
    <2>1. ASSUME NEW t \in Side, NEW i \in 1..Len(out[c][t])
          PROVE  out[c][t][i] <= rcvd[c][Other(t)]
      <3>1. out[c][t][i] <= rcvd[c][Other(t)] - Pending(c, Other(t))
        BY DEF ConnInv, DeliveryInv
      <3>2. out[c][t][i] \in Nat
        BY DEF ProxyTypeOK
      <3> QED
        BY <1>4, <3>1, <3>2, Sides
    <2>2. ASSUME NEW t \in Side, ~torn[c], curfds[c] > 0
          PROVE  Len(out[c][t]) = rcvd[c][Other(t)]
      <3>1. Len(out[c][t]) = rcvd[c][Other(t)] - Pending(c, Other(t))
        BY <2>2 DEF ConnInv, DeliveryInv
      <3> QED
        BY <1>4, <2>2, <3>1, Sides
    <2>3. \A t \in Side : rcvd'[c][Other(t)] - Pending(c, Other(t))' = rcvd[c][Other(t)]
      BY <1>1, <1>4, Sides
    <2>4. run'[c] \in {"event", "send"} => curfds'[c] > 0
      BY <1>1 DEF ConnInv, DeliveryInv
    <2> QED
      BY <1>1, <2>1, <2>2, <2>3, <2>4 DEF DeliveryInv
  <1> QED
    BY <1>5, <1>6, <1>7 DEF ConnInv

\* Where the unsent part of a buffer of the last L of R bytes begins.
LEMMA Window ==
    ASSUME NEW R \in Nat, NEW L \in Nat, NEW k \in Nat
    PROVE  /\ \A n \in Nat : k + n <= L /\ L <= R => R - L + k \in Nat /\ R - L + k + n <= R
           /\ \A i \in Nat : R - L + (k + i) = R - L + k + i
  OBVIOUS

\* The bytes that Send() hands over follow all that were delivered before; and they
\* follow them at once as long as no call of Send() was torn.
LEMMA SendKeeps == ASSUME ProxyTypeOK, NEW c \in Conn, ConnInv(c), Send(c) PROVE ConnInv(c)'
  <1> DEFINE x == xfer[c]
             y == xfer'[c]
             s == Head(events[c])
             d == Other(s)
             o == out[c][d]
             L == Len(x.buf)
             base == rcvd[c][s] - L + x.nsend
  <1>0. PICK n \in Nat \ {0}, q \in Seq(Nat) : Handed(c, n, q)
    BY SendFields
  <1>1. /\ d \in Side /\ s \in Side
        /\ x.nsend + n <= L /\ Len(q) = n
        /\ \A i \in 1..n : q[i] = x.buf[x.nsend + i]
        /\ out' = [out EXCEPT ![c][d] = o \o q]
        /\ y.buf = x.buf /\ y.nsend = x.nsend + n /\ y.len = x.len - (x.nsend + n)
        /\ y.short = IF x.nsend + n < L THEN x.short + 1 ELSE x.short
        /\ torn' = [torn EXCEPT ![c] = torn[c] \/ y.short > 1]
    BY <1>0, Zenon DEF Handed
  <1>2. /\ run[c] = "send" /\ run'[c] = "send" /\ events'[c] = events[c]
        /\ rcvd'[c] = rcvd[c] /\ curfds'[c] = curfds[c]
    BY DEF Send
  <1>3. /\ x.nsend \in Nat /\ L \in Nat /\ x.short \in Nat /\ x.len \in Int
        /\ rcvd[c][s] \in Nat /\ rcvd[c][d] \in Nat /\ o \in Seq(Nat) /\ Len(o) \in Nat
    <2>1. x \in [buf : Seq(Nat), nsend : Nat, len : Int, short : Nat]
      BY DEF ProxyTypeOK
    <2>2. x.nsend \in Nat /\ L \in Nat /\ x.short \in Nat /\ x.len \in Int
      BY <2>1
    <2> HIDE DEF s, d
    <2>3. rcvd[c][s] \in Nat /\ rcvd[c][d] \in Nat /\ o \in Seq(Nat)
      BY <1>1 DEF ProxyTypeOK
    <2> QED
      BY <2>2, <2>3
  <1>4. /\ L \in 1..rcvd[c][s]
        /\ \A i \in 1..L : x.buf[i] = rcvd[c][s] - L + i
        /\ x.nsend < L => /\ x.short = 0 => x.nsend = 0
                          /\ x.short <= 1 => x.len = L - x.nsend
        /\ ~torn[c] => x.short <= 1
    BY <1>2 DEF ConnInv, BufferInv
  <1>5. torn'[c] <=> torn[c] \/ y.short > 1
    BY <1>1 DEF ProxyTypeOK
  <1>6. /\ out'[c][d] = o \o q /\ out'[c][s] = out[c][s] /\ d # s /\ Other(d) = s
        /\ \A t \in Side : t = d \/ t = s
    BY <1>1, Sides DEF ProxyTypeOK
  <1>7. Head(events'[c]) = s
    BY <1>2
  <1>8. /\ Pending(c, s) = L - x.nsend /\ Pending(c, d) = 0
        /\ \A t \in Side : t = s => Pending(c, t)' = L - (x.nsend + n)
        /\ \A t \in Side : t = d => Pending(c, t)' = 0
    BY <1>1, <1>2, <1>6, <1>7 DEF Pending
  <1> HIDE DEF s, d, o, x, y, L
  <1>9. base \in Nat /\ base + n <= rcvd[c][s]
    <2>1. n \in Nat /\ n >= 1 /\ x.nsend + n <= L /\ L <= rcvd[c][s]
      BY <1>1, <1>3, <1>4
    <2> QED
      BY <1>3, <2>1, Window
  <1>10. \A i \in 1..n : q[i] = base + i
    <2> SUFFICES ASSUME NEW i \in 1..n PROVE q[i] = base + i
      OBVIOUS
    <2>1. x.nsend + i \in 1..L
      BY <1>1, <1>3, SMTT(30)
    <2>2. q[i] = rcvd[c][s] - L + (x.nsend + i)
      BY <1>1, <1>4, <2>1
    <2>3. i \in Nat
      BY <1>1
    <2>4. rcvd[c][s] - L + (x.nsend + i) = rcvd[c][s] - L + x.nsend + i
      BY <1>3, <2>3, Window, SMTT(30)
    <2> QED
      BY <2>2, <2>4
  <1>11. base = rcvd[c][s] - Pending(c, s)
    BY <1>1, <1>3, <1>8
  <1>12. \A i \in 1..Len(o) : o[i] \in Nat /\ o[i] <= base
    <2>1. \A i \in 1..Len(o) : o[i] \in Nat
      BY <1>3
    <2>2. \A i \in 1..Len(out[c][d]) : out[c][d][i] <= rcvd[c][Other(d)] - Pending(c, Other(d))
      BY <1>1 DEF ConnInv, DeliveryInv
    <2> QED
      BY <1>6, <1>11, <2>1, <2>2 DEF o
  <1>13. ~torn[c] => Len(o) = base
    <2>1. curfds[c] > 0
      BY <1>2 DEF ConnInv, DeliveryInv
    <2>2. ~torn[c] => Len(out[c][d]) = rcvd[c][Other(d)] - Pending(c, Other(d))
      BY <1>1, <2>1 DEF ConnInv, DeliveryInv
    <2> QED
      BY <1>6, <1>11, <2>2 DEF o
  <1>14. /\ \A i, j \in 1..Len(o) : i < j => o[i] < o[j]
         /\ ~torn[c] => \A i \in 1..Len(o) : o[i] = i
    BY <1>1 DEF ConnInv, Forwarded, o
  <1> DEFINE w == o \o q
             m == Len(o)
  <1>15. w \in Seq(Nat) /\ Len(w) = m + n /\ m \in Nat
    BY <1>1, <1>3, ConcatProperties
  <1>16. \A i \in 1..(m + n) : w[i] = IF i <= m THEN o[i] ELSE base + (i - m)
    <2> SUFFICES ASSUME NEW i \in 1..(m + n)
                 PROVE  w[i] = IF i <= m THEN o[i] ELSE base + (i - m)
      OBVIOUS
    <2>1. w[i] = IF i <= m THEN o[i] ELSE q[i - m]
      BY <1>1, <1>3, ConcatProperties
    <2>2. i > m => i - m \in 1..n
      BY <1>1, <1>15
    <2> QED
      BY <1>10, <1>15, <2>1, <2>2
  <1> HIDE DEF w, m, base
  <1>17. Forwarded(c)'
    <2>1. ASSUME NEW i \in 1..(m + n), NEW j \in 1..(m + n), i < j PROVE w[i] < w[j]
      <3>1. CASE j <= m
        <4>1. i \in 1..m /\ j \in 1..m
          BY <1>1, <1>15, <2>1, <3>1
        <4>2. w[i] = o[i] /\ w[j] = o[j]
          BY <1>1, <1>15, <1>16, <4>1
        <4> QED
          BY <1>14, <2>1, <4>1, <4>2 DEF m
      <3>2. CASE i <= m /\ j > m
        <4>1. w[i] <= base /\ w[i] \in Nat
          <5>1. i \in 1..m /\ w[i] = o[i]
            BY <1>1, <1>15, <1>16, <3>2
          <5> QED
            BY <1>12, <5>1 DEF m
        <4>2. w[j] = base + (j - m)
          BY <1>15, <1>16, <3>2
        <4> QED
          BY <1>9, <1>15, <3>2, <4>1, <4>2
      <3>3. CASE i > m
        <4>1. w[i] = base + (i - m) /\ w[j] = base + (j - m)
          BY <1>1, <1>15, <1>16, <2>1, <3>3
        <4> QED
          BY <1>1, <1>9, <1>15, <2>1, <4>1
      <3> QED
        BY <1>1, <1>15, <2>1, <3>1, <3>2, <3>3
    <2>2. ASSUME ~torn'[c], NEW i \in 1..(m + n) PROVE w[i] = i
      <3>1. ~torn[c] /\ m = base
        BY <1>5, <1>13, <2>2 DEF m
      <3>2. CASE i <= m
        BY <1>14, <1>15, <1>16, <3>1, <3>2 DEF m
      <3>3. CASE i > m
        BY <1>1, <1>15, <1>16, <3>1, <3>3
      <3> QED
        BY <1>1, <1>15, <3>2, <3>3
    <2>3. \A t \in Side : t = s => /\ \A i, j \in 1..Len(out'[c][t]) : i < j => out'[c][t][i] < out'[c][t][j]
                                   /\ ~torn'[c] => \A i \in 1..Len(out'[c][t]) : out'[c][t][i] = i
      BY <1>5, <1>6 DEF ConnInv, Forwarded
    <2>4. out'[c][d] = w /\ Len(w) = m + n
      BY <1>6, <1>15 DEF w
    <2> QED
      BY <1>6, <2>1, <2>2, <2>3, <2>4 DEF Forwarded
  <1>18. BufferInv(c)'
    <2>1. xfer'[c].buf = x.buf /\ Len(xfer'[c].buf) = L
      BY <1>1 DEF y, L
    <2>2. y.nsend < L => /\ y.short = 0 => y.nsend = 0
                         /\ y.short <= 1 => y.len = L - y.nsend
      <3> SUFFICES ASSUME y.nsend < L PROVE y.short >= 1 /\ (y.short <= 1 => y.len = L - y.nsend)
        BY <1>1, <1>3
      <3>1. y.short = x.short + 1 /\ x.nsend < L
        BY <1>1, <1>3
      <3>2. y.short <= 1 => x.nsend = 0 /\ x.len = L
        BY <1>3, <1>4, <3>1
      <3> QED
        BY <1>1, <1>3, <3>1, <3>2
    <2>3. ~torn'[c] => y.short <= 1
      <3>1. y.short \in Nat
        BY <1>1, <1>3
      <3> QED
        BY <1>5, <3>1
    <2>4. /\ Len(xfer'[c].buf) \in 1..rcvd'[c][Head(events'[c])]
          /\ \A i \in 1..Len(xfer'[c].buf) :
                xfer'[c].buf[i] = rcvd'[c][Head(events'[c])] - Len(xfer'[c].buf) + i
      BY <1>2, <1>4, <1>7, <2>1
    <2> QED
      BY <2>1, <2>2, <2>3, <2>4 DEF BufferInv, y
  <1>19. DeliveryInv(c)'
    <2>1. rcvd'[c][s] - (L - (x.nsend + n)) = base + n
      <3>1. rcvd'[c][s] = rcvd[c][s]
        BY <1>2
      <3> QED
        BY <1>1, <1>3, <3>1, SMTT(30) DEF base
    <2>2. \A i \in 1..Len(w) : w[i] <= base + n
      <3> SUFFICES ASSUME NEW i \in 1..(m + n) PROVE w[i] <= base + n
        BY <1>15
      <3>1. CASE i <= m
        <4>1. w[i] \in Nat /\ w[i] <= base
          BY <1>12, <1>15, <1>16, <3>1, SMTT(30) DEF m
        <4> QED
          BY <1>1, <1>9, <4>1
      <3>2. CASE i > m
        BY <1>1, <1>9, <1>15, <1>16, <3>2
      <3> QED
        BY <1>1, <1>15, <3>1, <3>2
    <2>3. ~torn'[c] => Len(w) = base + n
      BY <1>5, <1>13, <1>15 DEF m
    <2>4. \A t \in Side : t = d =>
             /\ out'[c][t] = w
             /\ rcvd'[c][Other(t)] - Pending(c, Other(t))' = base + n
      BY <1>1, <1>6, <1>8, <2>1 DEF w
    <2>5. \A t \in Side : t = s =>
             /\ out'[c][t] = out[c][t]
             /\ rcvd'[c][Other(t)] - Pending(c, Other(t))' = rcvd[c][Other(t)] - Pending(c, Other(t))
      BY <1>1, <1>2, <1>6, <1>8 DEF d
    <2>6. \A t \in Side : t = d =>
             /\ \A i \in 1..Len(out'[c][t]) :
                   out'[c][t][i] <= rcvd'[c][Other(t)] - Pending(c, Other(t))'
             /\ ~torn'[c] => Len(out'[c][t]) = rcvd'[c][Other(t)] - Pending(c, Other(t))'
      BY <2>2, <2>3, <2>4
    <2>7. \A t \in Side : t = s =>
             /\ \A i \in 1..Len(out'[c][t]) :
                   out'[c][t][i] <= rcvd'[c][Other(t)] - Pending(c, Other(t))'
             /\ ~torn'[c] /\ curfds[c] > 0 =>
                   Len(out'[c][t]) = rcvd'[c][Other(t)] - Pending(c, Other(t))'
      BY <1>5, <2>5 DEF ConnInv, DeliveryInv
    <2>8. curfds[c] > 0
      BY <1>2 DEF ConnInv, DeliveryInv
    <2> QED
      BY <1>2, <1>6, <2>6, <2>7, <2>8 DEF DeliveryInv
  <1> QED
    BY <1>17, <1>18, <1>19 DEF ConnInv

LEMMA ConnInitially == ProxyInit => \A c \in Conn : ConnInv(c)
  <1> SUFFICES ASSUME ProxyInit, NEW c \in Conn PROVE ConnInv(c)
    OBVIOUS
  <1>1. run[c] = "none" /\ curfds[c] = 0
    BY DEF ProxyInit
  <1>2. \A s \in Side : out[c][s] = <<>> /\ rcvd[c][s] = 0 /\ Len(out[c][s]) = 0
    BY DEF ProxyInit
  <1>3. Forwarded(c)
    BY <1>2 DEF Forwarded
  <1>4. BufferInv(c)
    BY <1>1 DEF BufferInv
  <1>5. DeliveryInv(c)
    BY <1>1, <1>2 DEF DeliveryInv
  <1> QED
    BY <1>3, <1>4, <1>5 DEF ConnInv

\* A step of one connection leaves the others alone.
LEMMA ConnStep ==
    ASSUME ProxyTypeOK, \A c \in Conn : ConnInv(c), [ProxyNext]_proxyVars
    PROVE  \A c \in Conn : ConnInv(c)'
  <1>0. CASE UNCHANGED proxyVars
    <2>1. \A c \in Conn : Same(c)
      BY <1>0 DEF proxyVars, Same
    <2> QED
      BY <2>1, SameKeeps
  <1> SUFFICES ASSUME NEW c \in Conn,
                      \/ Accept(c) \/ AcceptLeaks(c) \/ ThreadStep(c) \/ EpollFails(c)
                      \/ Resolve(c) \/ \E s \in Side : Write(c, s) \/ Finish(c, s)
               PROVE  \A d \in Conn : ConnInv(d)'
    BY <1>0 DEF ProxyNext
  <1>1. CASE (Resolve(c) \/ \E s \in Side : Write(c, s) \/ Finish(c, s))
    <2>1. \A d \in Conn : Same(d)
      BY <1>1 DEF Resolve, Write, Finish, Same
    <2> QED
      BY <2>1, SameKeeps
  <1> SUFFICES ASSUME Accept(c) \/ AcceptLeaks(c) \/ ThreadStep(c) \/ EpollFails(c)
               PROVE  \A d \in Conn : ConnInv(d)'
    BY <1>1
  <1>2. \A d \in Conn : d # c => Same(d)
    <2> SUFFICES ASSUME NEW d \in Conn, d # c PROVE Same(d)
      OBVIOUS
    <2> USE DEF Same, RunTo, ProxyTypeOK
    <2>1. CASE Accept(c) \/ AcceptLeaks(c) \/ EpollFails(c)
      BY <2>1 DEF Accept, AcceptLeaks, EpollFails
    <2>2. CASE Connect(c) \/ EpollWait(c)
      BY <2>2 DEF Connect, EpollWait
    <2>3. CASE Recv(c)
      BY <2>3 DEF Recv
    <2>4. CASE Send(c)
      BY <2>4 DEF Send
    <2>5. CASE Sent(c) \/ Handled(c) \/ CloseAll(c)
      BY <2>5 DEF Sent, Handled, CloseAll
    <2>6. CASE Broken(c)
      BY <2>6 DEF Broken, Remove
    <2> QED
      BY <2>1, <2>2, <2>3, <2>4, <2>5, <2>6 DEF ThreadStep
  <1>3. ConnInv(c)'
    <2>1. CASE Recv(c)
      BY <2>1, RecvKeeps
    <2>2. CASE Send(c)
      BY <2>2, SendKeeps
    <2>3. CASE Sent(c)
      BY <2>3, SentKeeps
    <2>4. CASE Broken(c)
      BY <2>4, BrokenKeeps
    <2> USE DEF RunTo, ProxyTypeOK
    <2>5. CASE Accept(c) \/ AcceptLeaks(c)
      BY <2>5, QuietKeeps DEF Accept, AcceptLeaks
    <2>6. CASE Connect(c)
      <3>1. run[c] = "start" /\ run'[c] = "wait" /\ UNCHANGED <<rcvd, out, torn>>
        BY <2>6 DEF Connect
      <3> QED
        BY <3>1, QuietKeeps
    <2>7. CASE EpollWait(c) \/ EpollFails(c) \/ Handled(c)
      BY <2>7, QuietKeeps DEF EpollWait, EpollFails, Handled
    <2>8. CASE CloseAll(c)
      BY <2>8, QuietKeeps DEF CloseAll
    <2> QED
      BY <2>1, <2>2, <2>3, <2>4, <2>5, <2>6, <2>7, <2>8 DEF ThreadStep
  <1> QED
    BY <1>2, <1>3, SameKeeps

\* For every number of connections, every size of the buffer and whatever epoll_wait(),
\* recv() and send() report: ProxyInv is inductive.
THEOREM ProxyInductive == ProxySpec => []ProxyInv
  <1>1. ProxyInit => ProxyInv
    BY TypesInitially, ConnInitially DEF ProxyInv, ForwardsInOrder, ConnInv
  <1>2. ProxyInv /\ [ProxyNext]_proxyVars => ProxyInv'
    <2> SUFFICES ASSUME ProxyInv, [ProxyNext]_proxyVars PROVE ProxyInv'
      OBVIOUS
    <2>1. ProxyTypeOK /\ \A c \in Conn : ConnInv(c)
      BY DEF ProxyInv, ForwardsInOrder, ConnInv
    <2>2. ProxyTypeOK'
      BY <2>1, TypesKept
    <2>3. \A c \in Conn : ConnInv(c)'
      BY <2>1, ConnStep
    <2> QED
      BY <2>2, <2>3 DEF ProxyInv, ForwardsInOrder, ConnInv
  <1> QED
    BY <1>1, <1>2, PTL DEF ProxySpec

\* What run_tcp_proxy() delivers are bytes of the other side in their order, with none
\* missing in between unless a call of Send() has met two short sends.
THEOREM ProxyForwardsInOrder == ProxySpec => []ForwardsInOrder
  <1>1. ProxyInv => ForwardsInOrder
    BY DEF ProxyInv
  <1> QED
    BY <1>1, ProxyInductive, PTL
===============================================================================
