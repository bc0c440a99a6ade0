------------------------------- MODULE PamLogin -------------------------------
(****************************************************************************)
(* Concurrent logins of one user through google_authenticator() of          *)
(* libpam/pam_google_authenticator.c.  Every login is a process of its own:  *)
(* it copies the state file, checks a code against the copy, and replaces    *)
(* the file by way of the temporary file "~/.google_authenticator~".         *)
(* Nothing but that temporary file and a comparison of size and modification *)
(* time keeps two logins apart.                                              *)
(****************************************************************************)
EXTENDS SecretFile

CONSTANTS
    Login,       \* the processes that log in
    Killable,    \* those that may be killed half way
    Params,      \* the module arguments a login may be configured with
    Entry,       \* what a user may type, see EntryType
    InitFile,    \* the state files the system may start with
    MaxTime,     \* bound on the clock
    MaxLogins,   \* bound on the number of logins
    NoFile, NoOne

\* parse_args(): the options of the PAM stack.
ParamType == [ pass_mode : {"PROMPT", "TRY_FIRST_PASS", "USE_FIRST_PASS"},
               forward_pass : BOOLEAN, nullok : BOOLEAN,
               noskewadj : BOOLEAN, no_increment_hotp : BOOLEAN ]

\* Modes 0 and 1 of the loop use the password an earlier PAM module asked for,
\* modes 2 and 3 prompt; the modes a configuration rules out find no string and
\* are passed over.
FirstMode(par) == IF par.pass_mode = "PROMPT" THEN 2 ELSE 0
\* Mutant: the loop runs once too often.
LastMode_extra(par) == IF par.pass_mode = "USE_FIRST_PASS" THEN 1 ELSE 4
LastMode(par) == IF par.pass_mode = "USE_FIRST_PASS" THEN 1 ELSE 3

\* A typed string as the loop cuts it up: its last six and its last eight
\* characters when they are a number that starts with an admissible digit, and
\* its length when it consists of nothing else.
EntryType == [ six : SixDigit \cup {None}, eight : ScratchCode \cup {None}, alone : {0, 6, 8} ]
NoEntry == [six |-> None, eight |-> None, alone |-> -1]   \* no string at all

ASSUME LoginAssumption == Killable \subseteq Login /\ NoOne \notin Login
ASSUME ParamAssumption == Params \subseteq ParamType /\ Params # {} /\ Entry \subseteq EntryType
ASSUME FileAssumption == /\ \A f \in InitFile : f = NoFile \/ f \in File
                         /\ NoFile \notin File
ASSUME StampAssumption == \A f \in InitFile : f # NoFile => Sorted(f.stamps)
ASSUME BoundAssumption == MaxTime \in Nat /\ MaxLogins \in Nat

VARIABLES
    now,      \* the clock, in seconds
    file,     \* the state file, or NoFile
    mtime,    \* its modification time
    tmp,      \* the process whose temporary file exists, or NoOne
    pc,       \* where each login is
    sess,     \* its local variables
    \* What follows records the history and guards nothing.
    logins,   \* logins begun
    version,  \* how often the file has been replaced
    seen,     \* the size and modification time of every version
    grants    \* the logins that were let in

shared  == <<now, file, mtime, tmp>>
history == <<logins, version, seen, grants>>
vars    == <<now, file, mtime, tmp, pc, sess, logins, version, seen, grants>>

\* A login is over in "idle" and in "killed".
Phase == {"idle", "rate", "loop", "conclude", "create", "stat", "write", "rename", "killed"}

\* The local variables of google_authenticator(); ver, id, at and cred are history.
Blank ==
    [ buf |-> NoFile, size |-> 0, mtime |-> 0, par |-> CHOOSE p \in Params : TRUE,
      mode |-> 0, pw |-> NoEntry, rc |-> "SESSION_ERR", early |-> FALSE, upd |-> FALSE, adv |-> FALSE,
      wtime |-> 0, ver |-> 0, id |-> 0, at |-> 0, cred |-> NoCred ]

Stamp(v, f, t) == [ver |-> v, size |-> FileSize(f), mtime |-> t]

Init ==
    /\ now = 0
    /\ file \in InitFile
    /\ mtime = 0
    /\ tmp = NoOne
    /\ pc = [p \in Login |-> "idle"]
    /\ sess = [p \in Login |-> Blank]
    /\ logins = 0
    /\ version = 0
    /\ seen = IF file = NoFile THEN {} ELSE {Stamp(0, file, 0)}
    /\ grants = {}
-------------------------------------------------------------------------------
(* Steps of a login.                                                         *)

Goto(p, to) == pc' = [pc EXCEPT ![p] = to]

\* The function returns and its local variables l are gone; a login that was
\* let in is remembered.
Return(p, l) ==
    /\ Goto(p, "idle")
    /\ sess' = [sess EXCEPT ![p] = Blank]
    /\ grants' = IF l.rc = "SUCCESS"
                 THEN grants \cup {[n |-> l.id, cred |-> l.cred, at |-> l.at]}
                 ELSE grants

\* PAM_SESSION_ERR.
Deny(p) == Return(p, Blank)

\* open_secret_file() and read_file_contents() use one descriptor, and every
\* writer replaces the file by rename(): the copy is of one version.
Open(p) ==
    /\ pc[p] = "idle"
    /\ file # NoFile
    /\ logins < MaxLogins
    /\ logins' = logins + 1
    /\ \E par \in Params :
          sess' = [sess EXCEPT ![p] =
              [Blank EXCEPT !.buf = file, !.size = FileSize(file), !.mtime = mtime,
                            !.par = par, !.ver = version, !.id = logins]]
    /\ Goto(p, "rate")
    /\ UNCHANGED <<shared, version, seen, grants>>

\* No state file: "nullok" lets the user in without a code.
OpenMissing(p) ==
    /\ pc[p] = "idle"
    /\ file = NoFile
    /\ logins < MaxLogins
    /\ logins' = logins + 1
    /\ \E par \in Params :
          Return(p, [Blank EXCEPT !.id = logins, !.at = now,
                                  !.rc = IF par.nullok THEN "SUCCESS" ELSE "SESSION_ERR"])
    /\ UNCHANGED <<shared, version, seen>>

\* Any other failure before the loop: no user name, no home directory, no
\* privileges, wrong owner, mode or size, no BASE32 secret.
OpenFails(p) ==
    /\ pc[p] = "idle"
    /\ logins < MaxLogins
    /\ logins' = logins + 1
    /\ Deny(p)
    /\ UNCHANGED <<shared, version, seen>>

RateLimit(p) ==
    LET r == rate_limit(sess[p].buf, now)
    IN  /\ pc[p] = "rate"
        /\ IF r.rc # 0 /\ ~r.upd
           THEN Deny(p)
           ELSE /\ sess' = [sess EXCEPT ![p] = [@ EXCEPT !.buf = r.buf, !.early = r.upd,
                                                         !.at = now, !.mode = FirstMode(sess[p].par)]]
                /\ Goto(p, IF r.rc = 0 THEN "loop" ELSE "create")
                /\ UNCHANGED grants
        /\ UNCHANGED <<shared, logins, version, seen>>
-------------------------------------------------------------------------------
(* The loop over the four ways to come by a code: the even modes look for a  *)
(* six-digit code, the odd ones for a scratch code.                          *)

\* The present mode shows the prompt; mode 3 does so when the conversation of
\* mode 2 has brought no string.
Prompts(l) == l.mode = 2 \/ (l.mode = 3 /\ l.pw = NoEntry)

\* The login waits in converse() for the user, who may never answer.
AtPrompt(p) == pc[p] = "loop" /\ Prompts(sess[p])

\* The strings the present mode may look at.  There may be no password, and the
\* conversation may fail.
Typed(l) == IF l.mode = 0 \/ Prompts(l) THEN Entry \cup {NoEntry} ELSE {l.pw}

\* The code the present mode finds in the string, None when there is none.  A
\* prompt that is not forwarded must be answered with the code alone.
CodeOf(l, e) ==
    LET code == IF l.mode \in {0, 2} THEN e.six ELSE e.eight
        len  == IF l.mode \in {0, 2} THEN 6 ELSE 8
    IN  IF l.mode >= 2 /\ ~l.par.forward_pass /\ e.alone # len THEN None ELSE code

\* What one pass of the loop makes of the local variables.
Attempt(l, e, r) ==
    [l EXCEPT !.pw   = e,
              !.mode = @ + 1,
              !.buf  = r.buf,
              !.upd  = @ \/ r.upd,
              !.adv  = r.adv \/ (@ /\ r.cred.kind # "hotp"),
              !.cred = r.cred,
              !.rc   = IF r.rc = 0 THEN "SUCCESS" ELSE "SESSION_ERR"]

\* A code is found and checked: the loop ends with a verdict, or the code is
\* of no known kind and the next mode has its turn.
TryCode(p) ==
    /\ pc[p] = "loop"
    /\ \E e \in Typed(sess[p]) :
          LET code == CodeOf(sess[p], e)
              r    == check_code(sess[p].buf, code, now, sess[p].par.noskewadj)
          IN  /\ code # None
              /\ sess' = [sess EXCEPT ![p] = Attempt(@, e, r)]
              /\ Goto(p, IF r.rc = 1 /\ sess[p].mode < LastMode(sess[p].par) THEN "loop" ELSE "conclude")
    /\ UNCHANGED <<shared, history>>

\* The string, if any, holds no code this mode could use.
SkipMode(p) ==
    /\ pc[p] = "loop"
    /\ \E e \in Typed(sess[p]) :
          /\ CodeOf(sess[p], e) = None
          /\ sess' = [sess EXCEPT ![p] = [sess[p] EXCEPT !.pw = e, !.mode = sess[p].mode + 1]]
    /\ Goto(p, IF sess[p].mode < LastMode(sess[p].par) THEN "loop" ELSE "conclude")
    /\ UNCHANGED <<shared, history>>
-------------------------------------------------------------------------------
(* After the loop.                                                           *)

\* Hands the rest of the password on, which may fail, and advances the counter
\* of an HOTP account after a failed attempt.
Conclude(p) ==
    LET advance == sess[p].adv /\ ~sess[p].par.no_increment_hotp
    IN  /\ pc[p] = "conclude"
        /\ \E rc \in {sess[p].rc} \cup (IF sess[p].par.forward_pass THEN {"SESSION_ERR"} ELSE {}) :
              LET l == [sess[p] EXCEPT !.rc  = rc,
                                       !.buf = IF advance THEN advance_counter(@) ELSE @,
                                       !.upd = @ \/ advance]
              IN  IF l.early \/ l.upd
                  THEN /\ Goto(p, "create")
                       /\ sess' = [sess EXCEPT ![p] = l]
                       /\ UNCHANGED grants
                  ELSE Return(p, l)
        /\ UNCHANGED <<shared, logins, version, seen>>

\* Mutant: O_TRUNC in place of O_EXCL.
CreateTmp_truncates(p) ==
    /\ pc[p] = "create"
    /\ tmp' = p
    /\ Goto(p, "stat")
    /\ UNCHANGED <<now, file, mtime, sess, history>>

\* write_file_contents(): the temporary file is created with O_EXCL.
CreateTmp(p) ==
    /\ pc[p] = "create"
    /\ tmp = NoOne
    /\ tmp' = p
    /\ Goto(p, "stat")
    /\ UNCHANGED <<now, file, mtime, sess, history>>

\* Mutants: the error path removes the temporary file; open() waits for it.
CreateFails_unlinks(p) ==
    /\ pc[p] = "create"
    /\ tmp' = NoOne
    /\ Deny(p)
    /\ UNCHANGED <<now, file, mtime, logins, version, seen>>
CreateFails_waits(p) ==
    /\ pc[p] = "create"
    /\ tmp = NoOne
    /\ Deny(p)
    /\ UNCHANGED <<shared, logins, version, seen>>

CreateFails(p) ==
    /\ pc[p] = "create"
    /\ Deny(p)
    /\ UNCHANGED <<shared, logins, version, seen>>

\* Mutants: one of the two comparisons is missing.
Unchanged_mtime(p) == file # NoFile /\ mtime = sess[p].mtime
Unchanged_size(p) == file # NoFile /\ FileSize(file) = sess[p].size

Unchanged(p) ==
    /\ file # NoFile
    /\ FileSize(file) = sess[p].size
    /\ mtime = sess[p].mtime

StatSame(p) ==
    /\ pc[p] = "stat"
    /\ Unchanged(p)
    /\ Goto(p, "write")
    /\ UNCHANGED <<sess, shared, history>>

StatChanged(p) ==
    /\ pc[p] = "stat"
    /\ ~Unchanged(p)
    /\ tmp' = NoOne
    /\ Deny(p)
    /\ UNCHANGED <<now, file, mtime, logins, version, seen>>

WriteTmp(p) ==
    /\ pc[p] = "write"
    /\ sess' = [sess EXCEPT ![p].wtime = now]
    /\ Goto(p, "rename")
    /\ UNCHANGED <<shared, history>>

\* The temporary file becomes the state file: the new version is in force.
Rename(p) ==
    /\ pc[p] = "rename"
    /\ file' = sess[p].buf
    /\ mtime' = sess[p].wtime
    /\ tmp' = NoOne
    /\ version' = version + 1
    /\ seen' = seen \cup {Stamp(version + 1, sess[p].buf, sess[p].wtime)}
    /\ Return(p, sess[p])
    /\ UNCHANGED <<now, logins>>

\* write() or rename() fails: the temporary file is removed.
SaveFails(p) ==
    /\ pc[p] \in {"write", "rename"}
    /\ tmp' = NoOne
    /\ Deny(p)
    /\ UNCHANGED <<now, file, mtime, logins, version, seen>>

\* The process is killed; a temporary file it has created stays behind.
Kill(p) ==
    /\ p \in Killable
    /\ pc[p] \notin {"idle", "killed"}
    /\ Goto(p, "killed")
    /\ sess' = [sess EXCEPT ![p] = Blank]
    /\ UNCHANGED <<shared, history>>

Tick ==
    /\ now < MaxTime
    /\ now' = now + 1
    /\ UNCHANGED <<file, mtime, tmp, pc, sess, history>>

Step(p) ==
    \/ RateLimit(p) \/ TryCode(p) \/ SkipMode(p) \/ Conclude(p)
    \/ CreateTmp(p) \/ CreateFails(p) \/ StatSame(p) \/ StatChanged(p)
    \/ WriteTmp(p) \/ Rename(p) \/ SaveFails(p)

Next ==
    \/ Tick
    \/ \E p \in Login : Open(p) \/ OpenMissing(p) \/ OpenFails(p) \/ Step(p) \/ Kill(p)

Spec == Init /\ [][Next]_vars
-------------------------------------------------------------------------------
(* Properties.                                                               *)

Working == Phase \ {"idle", "killed"}      \* in the middle of a login
Holding == {"stat", "write", "rename"}     \* has created the temporary file
Saving  == {"write", "rename"}             \* has found the file unchanged

LocalType ==
    [ buf : File \cup {NoFile}, size : Int, mtime : Nat, par : Params, mode : 0..4,
      pw : Entry \cup {NoEntry}, rc : {"SUCCESS", "SESSION_ERR"},
      early : BOOLEAN, upd : BOOLEAN, adv : BOOLEAN, wtime : Nat,
      ver : Nat, id : Nat, at : Nat, cred : CredType ]

\* The variables have their types; a login at work holds a copy of a file, and
\* the loop ends after mode 3.
LoginTypes ==
    /\ now \in Nat /\ mtime \in Nat /\ logins \in Nat /\ version \in Nat
    /\ file \in File \cup {NoFile}
    /\ pc \in [Login -> Phase]
    /\ sess \in [Login -> LocalType]
    /\ \A p \in Login : pc[p] \in Working => sess[p].buf \in File
    /\ \A p \in Login : pc[p] = "loop" => sess[p].mode <= 3
TypeOK == LoginTypes /\ tmp \in Login \cup {NoOne}

\* Two versions of the file never had both the same size and the same
\* modification time: what the comparison in write_file_contents() relies on.
FreshStamps == \A a, b \in seen : a.size = b.size /\ a.mtime = b.mtime => a.ver = b.ver

\* The behaviours in which that is so.
FreshNext == Next /\ FreshStamps'
FreshSpec == Init /\ [][FreshNext]_vars
\* A login that has begun runs on: no step of it waits for another login, and a
\* save may always fail.  Only the user at a prompt need not answer.
FreshFairSpec == FreshSpec /\ \A p \in Login : WF_vars(~AtPrompt(p) /\ Step(p))

\* Between open(O_EXCL) and unlink() or rename() the temporary file belongs to
\* the one login that created it, so the file cannot change after the stat().
TmpExclusive == \A p \in Login : pc[p] \in Holding => tmp = p

\* A login that is about to replace the file has read the version it replaces,
\* unless the size and time of two versions coincided.
NoLostUpdate == FreshStamps => \A p \in Login : pc[p] \in Saving => sess[p].ver = version

OneTime(c) == c.kind \in {"scratch", "hotp"}

\* No scratch code and no counter value lets two logins in, whatever number of
\* logins had read the file while it was still good.
SingleUse ==
    FreshStamps => \A g, h \in grants : g.cred = h.cred /\ OneTime(g.cred) => g.n = h.n

\* What the comment in write_file_contents() says of the comparison: "This
\* prevents attackers from opening a lot of pending sessions and then reusing
\* the same scratch code multiple times."
ScratchNeverReused ==
    \A g, h \in grants : g.cred = h.cred /\ g.cred.kind = "scratch" => g.n = h.n

\* What the comment of invalidate_timebased_code() says of DISALLOW_REUSE: "record
\* timestamps have been used to log in successfully and disallow their reuse."
StepNeverReused ==
    FreshStamps /\ file # NoFile /\ file.disallow_reuse =>
        \A g, h \in grants : g.cred = h.cred /\ g.cred.kind = "totp" => g.n = h.n

\* It is so as long as no login has taught a TIME_SKEW: a step that is pruned from
\* the list can no longer be named by any code of the window.
NoSkewTaught(f) == "TIME_SKEW" \notin f.lines
StepSingleUse ==
    file # NoFile /\ NoSkewTaught(file) => StepNeverReused

\* With RATE_LIMIT, no interval sees more logins let in than the option allows.  It
\* says nothing of codes that are only tried: any number of logins may pass
\* rate_limit() with the same copy of the file.
RateBound ==
    FreshStamps /\ file # NoFile /\ file.attempts > 0 =>
        \A g \in grants :
            Cardinality({h \in grants : h.at \in g.at - file.interval .. g.at}) <= file.attempts

\* A new skew s agrees with the skews i to Len(h) of the history h: all of them were
\* within one step of it.
Near(s, h, i) == \A k \in i..Len(h) : s - h[k].skew \in -1..1

\* The skew s is not farther from zero than the mean of the history h.
Moderate(s, h) == HISTORY * Abs(s) <= Abs(h[1].skew + h[2].skew + h[3].skew)

\* A login that teaches a TIME_SKEW agrees with the two attempts before it and with the
\* code it was accepted with, and truncation errs towards zero on either side of it;
\* the file it then replaces records the last two attempts it has agreed with.
SkewAgrees ==
    [][ /\ \A p \in Login :
             pc[p] = "loop" /\ pc'[p] = "conclude" /\ sess'[p].buf.skew # sess[p].buf.skew =>
                 LET own == [tm |-> get_timestamp(now), skew |-> sess'[p].cred.val - get_timestamp(now)]
                     h   == Recent(sess[p].buf.resetting, own)
                 IN  Len(h) = HISTORY /\ Near(sess'[p].buf.skew, h, 1) /\ Moderate(sess'[p].buf.skew, h)
        /\ FreshStamps' /\ file # NoFile /\ file'.skew # file.skew =>
             Near(file'.skew, file.resetting, Len(file.resetting) - 1) ]_vars

\* Seen through the file, logins consume codes in single steps.
Abstract == INSTANCE OneTimeAccess WITH
    scratch  <- IF file = NoFile THEN {} ELSE file.scratch,
    counter  <- IF file = NoFile THEN 0 ELSE file.hotp,
    admitted <- {g \in grants : OneTime(g.cred)}
Atomic == Abstract!Spec

\* Logins never set the HOTP counter back and never restore a scratch code.
OnlyConsumed ==
    [][FreshStamps' /\ file # NoFile =>
         /\ file'.hotp >= file.hotp
         /\ file'.scratch \subseteq file.scratch]_vars

\* "This error should never trigger": an attempt that falls through to the next
\* mode of the loop has left the buffer unchanged.
OopsUnreachable == \A p \in Login : pc[p] = "loop" => ~sess[p].upd

\* A temporary file left by a killed login is never removed: from then on the
\* file stays as it is and nobody is let in by a code that must be recorded.
Orphaned == tmp # NoOne /\ pc[tmp] = "killed"
OrphanLocks == [][Orphaned => /\ tmp' = tmp /\ file' = file
                              /\ \A g \in grants' \ grants : ~OneTime(g.cred)]_vars

\* Every login comes to an end or waits at a prompt for ever: nothing but the
\* user holds it up, in particular no other login and no left-over file.
LoginEnds == \A p \in Login : pc[p] \in Working ~> (pc[p] \notin Working \/ []AtPrompt(p))
-------------------------------------------------------------------------------
(* The invariant behind SingleUse and Atomic.                                *)

\* The version in force has been recorded.
Current == file # NoFile => Stamp(version, file, mtime) \in seen

\* A login at work has read a version of the file that existed.
HasRead(p) ==
    /\ sess[p].ver <= version
    /\ [ver |-> sess[p].ver, size |-> sess[p].size, mtime |-> sess[p].mtime] \in seen

\* The numbers of logins tell them apart.
Numbered ==
    /\ \A p \in Login : pc[p] \in Working => sess[p].id < logins
    /\ \A p, q \in Login : pc[p] \in Working /\ pc[q] \in Working /\ sess[p].id = sess[q].id => p = q
    /\ \A g \in grants : g.n \in 0..logins-1 /\ \A p \in Login : pc[p] \in Working => g.n # sess[p].id

\* A code that must not be used again is never accepted without marking the
\* buffer for saving, and the loop goes on only after a miss.
Marked(p) ==
    /\ pc[p] \in {"rate", "loop"} => sess[p].cred = NoCred /\ ~sess[p].upd
    /\ pc[p] \in Working /\ OneTime(sess[p].cred) =>
          sess[p].upd /\ sess[p].cred.secret = sess[p].buf.secret
    /\ pc[p] = "conclude" /\ sess[p].cred.kind = "hotp" => ~sess[p].adv

\* A login that has read the version in force has taken from its copy what it was
\* let in with, and has left the settings alone.
Derived(p) ==
    pc[p] \in Working /\ sess[p].ver = version /\ file # NoFile =>
        Consumes(file, sess[p]) /\ Keeps(file, sess[p].buf)

\* A one-time code that let somebody in is no longer in the file.
Consumed ==
    \A g \in grants : OneTime(g.cred) =>
        /\ file # NoFile
        /\ g.cred.kind = "scratch" => g.cred.val \notin file.scratch
        /\ g.cred.kind = "hotp" => g.cred.val \in Nat /\ g.cred.val < file.hotp

IInv ==
    /\ TypeOK
    /\ TmpExclusive
    /\ Current
    /\ \A p \in Login : pc[p] \in Working => file # NoFile /\ HasRead(p)
    /\ Numbered
    /\ \A p \in Login : Marked(p)
    /\ \A p \in Login : Derived(p)
    /\ NoLostUpdate
    /\ FreshStamps => Consumed
-------------------------------------------------------------------------------
(* The invariant behind StepSingleUse.                                       *)

\* The latest time at which a login has checked its code.
Clock(p) == IF pc[p] = "rename" THEN sess[p].wtime ELSE now

\* A login that has read the version in force lists the steps that version lists,
\* but for the one it was accepted with, in a step since that version was written.
StepTaken(p) ==
    pc[p] \in Working /\ sess[p].ver = version /\ NoSkewTaught(sess[p].buf) =>
        /\ sess[p].buf.skew = file.skew
        /\ IF sess[p].cred.kind # "totp" THEN sess[p].buf.blocked = file.blocked
           ELSE file.disallow_reuse =>
                    \E T \in get_timestamp(mtime)..get_timestamp(Clock(p)) : Spends(file, sess[p], T)

\* The step v is behind the present window, or in the list; it is not ahead of the
\* window, so that it is not dropped before it is behind.
OutOfReach(v) ==
    LET reach == Window(file, get_timestamp(mtime))
    IN  /\ window_size(file) # 0 /\ v \in Int
        /\ v \in file.blocked \/ \A x \in reach : v < x
        /\ v <= get_timestamp(mtime) + file.skew + window_size(file) \div 2

StepInv ==
    /\ mtime <= now
    /\ \A p \in Login :
          /\ pc[p] = "rename" => sess[p].wtime \in mtime..now
          /\ pc[p] \in Working => sess[p].buf.disallow_reuse = file.disallow_reuse
          /\ pc[p] \in Working /\ sess[p].cred.kind = "totp" /\ file.disallow_reuse => sess[p].upd
          /\ StepTaken(p)
    /\ FreshStamps /\ file # NoFile /\ file.disallow_reuse /\ NoSkewTaught(file) =>
          \A g \in grants : g.cred.kind = "totp" => OutOfReach(g.cred.val)
-------------------------------------------------------------------------------
(* The invariant behind RateBound.                                           *)

\* A login past rate_limit() is bound to save its attempt; one that has read the
\* version in force lists it with those of that version, and goes on to the codes
\* only if there were not too many of them.
RateTaken(p) ==
    pc[p] \in Working =>
        /\ sess[p].buf.attempts = file.attempts /\ Sorted(sess[p].buf.stamps)
        /\ pc[p] = "rate" =>
              sess[p].rc = "SESSION_ERR" /\ (sess[p].ver = version => sess[p].buf = file)
        /\ pc[p] # "rate" /\ file.attempts > 0 =>
              /\ sess[p].early
              /\ sess[p].ver = version =>
                   LET r == rate_limit(file, sess[p].at)
                   IN  /\ sess[p].at \in mtime..Clock(p)
                       /\ r.upd /\ sess[p].buf.stamps = r.buf.stamps
                       /\ pc[p] \in {"loop", "conclude"} \/ sess[p].rc = "SUCCESS" => r.rc = 0

\* The attempts that the file lists from time y on.
Listed(y) == UpTo(file.stamps, mtime) - UpTo(file.stamps, y - 1)

\* Every login that was let in during the last interval is listed, as far as the list
\* goes, which is never less than the limit.
Counted ==
    /\ IsFiniteSet(grants)
    /\ \A h \in grants : h.at \in 0..mtime
    /\ \A y \in mtime - file.interval .. mtime :
          Cardinality({h \in grants : h.at >= y}) <= Listed(y) \/ Listed(y) >= file.attempts

RateInv ==
    /\ \A p \in Login : RateTaken(p)
    /\ file # NoFile => Sorted(file.stamps)
    /\ FreshStamps /\ file # NoFile /\ file.attempts > 0 => Counted
===============================================================================
