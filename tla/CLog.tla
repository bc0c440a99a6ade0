--------------------------------- MODULE CLog ---------------------------------
(****************************************************************************)
(* A Log_Writer of c-log-master/src/log.c and the threads that log through   *)
(* it.  Whoever finds that the log file is gone (moved away by a rotation of *)
(* logs, or removed) closes the stream and opens the file again, under a     *)
(* mutex; the writing itself is not covered by the mutex.  m_issync is false, *)
(* its default: nothing is flushed after a record.                           *)
(****************************************************************************)
EXTENDS Integers, FiniteSets

CONSTANTS
    Writer,        \* threads
    Level,         \* levels of the records they log
    SystemLevel,   \* m_system_level
    MaxGone,       \* bound on how often the file disappears
    MaxRecords     \* bound on the records of each thread

ASSUME CLogAssumption ==
    /\ "nobody" \notin Writer
    /\ Level \subseteq Nat /\ SystemLevel \in Nat /\ MaxGone \in Nat /\ MaxRecords \in Nat

Null == 0   \* streams are numbered from 1 on in the order of their fopen()

VARIABLES
    at,        \* where each thread is
    fp,        \* the stream in use, or Null
    opened,    \* the number of the stream opened last
    live,      \* the streams that are open
    there,     \* the file exists and can be written to
    holder,    \* the thread that holds m_mutex, or "nobody"
    arg,       \* the stream a thread has passed to fwrite()
    exited,    \* the process has called exit() or crashed
    gone,      \* history: how often the file has disappeared
    logged     \* history: records each thread has logged

clogVars == <<at, fp, opened, live, there, holder, arg, exited, gone, logged>>

\* After log_init().
CLogInit ==
    /\ at = [w \in Writer |-> "idle"]
    /\ fp = 1 /\ opened = 1 /\ live = {1} /\ there = TRUE
    /\ holder = "nobody" /\ arg = [w \in Writer |-> Null] /\ exited = FALSE
    /\ gone = 0 /\ logged = [w \in Writer |-> 0]

Goes(w, phase) == at' = [at EXCEPT ![w] = phase]

\* log(): the level is checked and the record formatted in a buffer of the thread;
\* without a stream it goes to stderr.
Log(w) ==
    /\ at[w] = "idle" /\ logged[w] < MaxRecords
    /\ \E l \in Level : l >= SystemLevel
    /\ Goes(w, IF fp = Null THEN "idle" ELSE "access")
    /\ logged' = [logged EXCEPT ![w] = logged[w] + 1]
    /\ UNCHANGED <<fp, opened, live, there, holder, arg, exited, gone>>

\* The first access() of _write().
Access(w) ==
    /\ at[w] = "access"
    /\ Goes(w, IF there THEN "load" ELSE "lock")
    /\ UNCHANGED <<fp, opened, live, there, holder, arg, exited, gone, logged>>

Lock(w) ==
    /\ at[w] = "lock" /\ holder = "nobody"
    /\ holder' = w
    /\ Goes(w, "recheck")
    /\ UNCHANGED <<fp, opened, live, there, arg, exited, gone, logged>>

\* Mutant: access() is not called again when the mutex has been obtained.
Recheck_skipped(w) ==
    /\ at[w] = "recheck"
    /\ Goes(w, IF fp # Null THEN "fclose" ELSE "loginit")
    /\ UNCHANGED <<fp, opened, live, there, holder, arg, exited, gone, logged>>

\* The second one, and the test at the beginning of logclose().
Recheck(w) ==
    /\ at[w] = "recheck"
    /\ Goes(w, IF there THEN "unlock" ELSE IF fp # Null THEN "fclose" ELSE "loginit")
    /\ UNCHANGED <<fp, opened, live, there, holder, arg, exited, gone, logged>>

\* logclose().
Fclose(w) ==
    /\ at[w] = "fclose"
    /\ live' = live \ {fp}
    /\ Goes(w, "null")
    /\ UNCHANGED <<fp, opened, there, holder, arg, exited, gone, logged>>

\* Mutant: the stream that has been closed stays in use.
SetNull_forgotten(w) ==
    /\ at[w] = "null"
    /\ Goes(w, "loginit")
    /\ UNCHANGED <<fp, opened, live, there, holder, arg, exited, gone, logged>>

SetNull(w) ==
    /\ at[w] = "null"
    /\ fp' = Null
    /\ Goes(w, "loginit")
    /\ UNCHANGED <<opened, live, there, holder, arg, exited, gone, logged>>

\* loginit(): nothing is done when there is a stream.
Loginit(w) ==
    /\ at[w] = "loginit"
    /\ IF fp # Null THEN UNCHANGED <<fp, opened, live, there>>
       ELSE /\ opened' = opened + 1
            /\ fp' = opened + 1
            /\ live' = live \cup {opened + 1}
            /\ there' = TRUE
    /\ Goes(w, "unlock")
    /\ UNCHANGED <<holder, arg, exited, gone, logged>>

\* fopen() fails: the process ends.
LoginitFails(w) ==
    /\ at[w] = "loginit" /\ fp = Null
    /\ exited' = TRUE
    /\ UNCHANGED <<at, fp, opened, live, there, holder, arg, gone, logged>>

\* Mutant: the mutex is kept.
Unlock_forgotten(w) ==
    /\ at[w] = "unlock"
    /\ Goes(w, "load")
    /\ UNCHANGED <<fp, opened, live, there, holder, arg, exited, gone, logged>>

Unlock(w) ==
    /\ at[w] = "unlock"
    /\ holder' = "nobody"
    /\ Goes(w, "load")
    /\ UNCHANGED <<fp, opened, live, there, arg, exited, gone, logged>>

\* fwrite(_pbuffer, len, 1, fp): the argument is read, then the stream is used.
Load(w) ==
    /\ at[w] = "load"
    /\ arg' = [arg EXCEPT ![w] = fp]
    /\ Goes(w, "fwrite")
    /\ UNCHANGED <<fp, opened, live, there, holder, exited, gone, logged>>

\* What happens with a stream that is closed, or with none, is undefined: the
\* process may crash.
Fwrite(w) ==
    /\ at[w] = "fwrite"
    /\ exited' \in (IF arg[w] \in live THEN {exited} ELSE BOOLEAN)
    /\ arg' = [arg EXCEPT ![w] = Null]
    /\ Goes(w, "idle")
    /\ UNCHANGED <<fp, opened, live, there, holder, gone, logged>>

LogStep(w) ==
    /\ ~exited
    /\ \/ Access(w) \/ Lock(w) \/ Recheck(w) \/ Fclose(w) \/ SetNull(w)
       \/ Loginit(w) \/ Unlock(w) \/ Load(w) \/ Fwrite(w)

\* The file is moved away, removed, or made read-only.
Disappear ==
    /\ there /\ gone < MaxGone /\ ~exited
    /\ there' = FALSE
    /\ gone' = gone + 1
    /\ UNCHANGED <<at, fp, opened, live, holder, arg, exited, logged>>

CLogNext == \/ Disappear
            \/ \E w \in Writer : LogStep(w) \/ (~exited /\ (Log(w) \/ LoginitFails(w)))

\* Threads run on.
CLogSpec == CLogInit /\ [][CLogNext]_clogVars /\ \A w \in Writer : WF_clogVars(LogStep(w))
-------------------------------------------------------------------------------
(* Properties.                                                               *)

Critical == {"recheck", "fclose", "null", "loginit", "unlock"}

\* The variables have their types, and a thread is in the critical section of
\* _write() exactly when it holds the mutex.
CLogTypeOK ==
    /\ at \in [Writer -> Critical \cup {"idle", "access", "lock", "load", "fwrite"}]
    /\ opened \in Nat /\ fp \in 0..opened /\ live \subseteq 1..opened
    /\ arg \in [Writer -> 0..opened]
    /\ holder \in Writer \cup {"nobody"} /\ there \in BOOLEAN /\ exited \in BOOLEAN
    /\ gone \in Nat /\ logged \in [Writer -> Nat]
    /\ \A w \in Writer : at[w] \in Critical <=> holder = w

\* "锁内校验 access ... 避免多线程多次close 和init": threads that find the file gone
\* together reopen it once, not once each.
ReopenedOnce == opened <= 1 + gone

\* One stream is open, and none while it is being replaced; fclose() is never
\* called for a stream that is closed already, nor the file reopened in vain.
OneStream ==
    /\ ReopenedOnce
    /\ Cardinality(live) <= 1
    /\ live = {} => holder # "nobody" /\ at[holder] \in {"null", "loginit"}
    /\ \A w \in Writer : at[w] = "fclose" => fp \in live

\* A thread that has begun to log comes to an end, unless the process ends: the
\* mutex is released on every path.
LogEnds == \A w \in Writer : at[w] # "idle" ~> at[w] = "idle" \/ exited

\* README.md: "thread-safe": no thread writes to a stream that is closed, or to none.
ThreadSafe == \A w \in Writer : at[w] = "fwrite" => arg[w] \in live
\* It is so while the file stays where it is.
SafeUntilGone == gone = 0 => ThreadSafe
-------------------------------------------------------------------------------
(* The invariant behind them.                                                *)

\* The stream in use is the one that is open, except for the thread that is
\* replacing it, which has seen that the file is gone.
Replacing(w) == at[w] \in {"fclose", "null", "loginit"}
InUse ==
    /\ (\A w \in Writer : at[w] \notin {"null", "loginit"}) => fp # Null /\ live = {fp}
    /\ \A w \in Writer : at[w] \in {"null", "loginit"} => live = {}
    /\ \A w \in Writer : at[w] = "loginit" => fp = Null
    /\ \A w \in Writer : Replacing(w) => ~there

\* While the file is gone, one more reopening is due than has been done.
Due == /\ opened >= 1
       /\ opened <= 1 + gone
       /\ ~there => opened <= gone

CLogInv == CLogTypeOK /\ InUse /\ Due /\ SafeUntilGone
===============================================================================
