-------------------------------- MODULE Setup --------------------------------
(****************************************************************************)
(* The command libpam/google-authenticator.c, which creates or replaces the  *)
(* state file: the options of its command line, the questions it asks for    *)
(* those that are missing, and the way it writes the file.  It shares the     *)
(* file and the temporary file with the logins of PamLogin and, unlike them,  *)
(* never looks at what it replaces.                                           *)
(****************************************************************************)
EXTENDS Integers

CONSTANTS
    Setter,       \* the processes that run the command
    Argument,     \* arguments that options -r, -R and -w may be given
    MaxOptions,   \* bound on the length of the command line of each
    Drawn,        \* the sets of scratch codes that may be drawn
    SecretOf(_),  \* the secret a process draws; no two draw the same
    FileSize(_),  \* the length of a file, see SecretFile
    NoFile, NoOne

VARIABLES
    now, file, mtime, tmp,   \* shared with the logins
    version, seen,           \* the history of the file
    spc,                     \* where each command is
    opt,                     \* its options
    draft,                   \* the file it is going to write
    wtime                    \* when it wrote the temporary file

local == <<spc, opt, draft, wtime>>

\* exit(0) in "done" and "declined", exit(1) in "failed".
SetupPhase == {"parse", "create", "write", "rename", "done", "declined", "failed", "killed"}

NoOptions == [mode |-> "ASK", reuse |-> "ASK", force |-> FALSE, r_limit |-> 0, r_time |-> 0,
              window_size |-> 0, count |-> 0]

SetupInit ==
    /\ spc = [s \in Setter |-> "parse"]
    /\ opt = [s \in Setter |-> NoOptions]
    /\ draft = [s \in Setter |-> NoFile]
    /\ wtime = [s \in Setter |-> 0]

To(s, phase) == spc' = [spc EXCEPT ![s] = phase]

\* The end of the process, and of its variables.
Exit(s, phase) ==
    /\ To(s, phase)
    /\ opt' = [opt EXCEPT ![s] = NoOptions]
    /\ draft' = [draft EXCEPT ![s] = NoFile]
    /\ wtime' = [wtime EXCEPT ![s] = 0]
-------------------------------------------------------------------------------
(* The command line.                                                         *)

Flag(name) == [name |-> name, arg |-> 0]
CommandOption ==
    {Flag(n) : n \in {"-c", "-t", "-d", "-D", "-f", "-u", "-W"}}
    \cup [name : {"-r", "-R", "-w"}, arg : Argument]

\* Mutant: the arguments are not checked.
Accepts_any_argument(o, c) ==
    CASE c.name = "-r" -> o.r_limit = 0
      [] c.name = "-R" -> o.r_time = 0
      [] c.name \in {"-w", "-W"} -> o.window_size = 0
      [] OTHER -> TRUE

\* Whether option c is accepted after the options o.
Accepts(o, c) ==
    CASE c.name = "-c"           -> o.mode = "ASK" /\ o.reuse = "ASK"
      [] c.name = "-t"           -> o.mode = "ASK"
      [] c.name \in {"-d", "-D"} -> o.reuse = "ASK" /\ o.mode # "HOTP"
      [] c.name = "-f"           -> ~o.force
      [] c.name = "-r"           -> o.r_limit = 0 /\ c.arg \in 1..10
      [] c.name = "-R"           -> o.r_time = 0 /\ c.arg \in 15..600
      [] c.name = "-u"           -> o.r_limit = 0 /\ o.r_time = 0
      [] c.name = "-w"           -> o.window_size = 0 /\ c.arg \in 1..21
      [] c.name = "-W"           -> o.window_size = 0

Apply(o, c) ==
    CASE c.name = "-c" -> [o EXCEPT !.mode = "HOTP"]
      [] c.name = "-t" -> [o EXCEPT !.mode = "TOTP"]
      [] c.name = "-d" -> [o EXCEPT !.reuse = "DISALLOW"]
      [] c.name = "-D" -> [o EXCEPT !.reuse = "ALLOW"]
      [] c.name = "-f" -> [o EXCEPT !.force = TRUE]
      [] c.name = "-r" -> [o EXCEPT !.r_limit = c.arg]
      [] c.name = "-R" -> [o EXCEPT !.r_time = c.arg]
      [] c.name = "-u" -> [o EXCEPT !.r_limit = -1, !.r_time = -1]
      [] c.name = "-w" -> [o EXCEPT !.window_size = c.arg]
      [] c.name = "-W" -> [o EXCEPT !.window_size = -1]

ParseOption(s) ==
    /\ spc[s] = "parse"
    /\ opt[s].count < MaxOptions[s]
    /\ \E c \in CommandOption :
          IF Accepts(opt[s], c)
          THEN /\ opt' = [opt EXCEPT ![s] = [Apply(opt[s], c) EXCEPT !.count = opt[s].count + 1]]
               /\ UNCHANGED <<spc, draft, wtime>>
          ELSE Exit(s, "failed")
    /\ UNCHANGED <<now, file, mtime, tmp, version, seen>>

\* The options go together.
Complete(o) ==
    /\ o.reuse # "ASK" => o.mode = "TOTP"
    /\ (o.r_limit = 0) = (o.r_time = 0)
-------------------------------------------------------------------------------
(* The new file: what the options leave open is asked.                       *)

\* -W stands for the smallest window; only the counter-based branch says so.
WindowOf(o, totp, bigger) ==
    IF o.window_size = 0 THEN (IF bigger THEN 17 ELSE 3)
    ELSE IF totp \/ o.window_size > 0 THEN o.window_size
    ELSE 1

NewFile(o, secret, codes, totp, disallow, bigger, limit) ==
    [ secret         |-> secret,
      totp           |-> totp,
      hotp           |-> IF totp THEN 0 ELSE 1,
      scratch        |-> codes,
      window         |-> WindowOf(o, totp, bigger),
      disallow_reuse |-> totp /\ disallow,
      blocked        |-> {},
      attempts       |-> IF o.r_limit > 0 THEN o.r_limit ELSE IF o.r_limit = 0 /\ limit THEN 3 ELSE 0,
      interval       |-> IF o.r_limit > 0 THEN o.r_time ELSE IF o.r_limit = 0 /\ limit THEN 30 ELSE 0,
      stamps         |-> <<>>,
      skew           |-> 0,
      resetting      |-> <<>>,
      lines          |-> IF o.window_size # 0 \/ bigger THEN {"WINDOW_SIZE"} ELSE {} ]

\* The end of the command line: the options are checked, secret and scratch
\* codes are drawn, the user is asked and agrees to the update.  The options are
\* not read again.
Prepare(s) ==
    /\ spc[s] = "parse"
    /\ Complete(opt[s])
    /\ \E codes \in Drawn, bigger, limit \in BOOLEAN,
          totp \in (IF opt[s].mode = "ASK" THEN BOOLEAN ELSE {opt[s].mode = "TOTP"}),
          disallow \in (IF opt[s].reuse = "ASK" THEN BOOLEAN ELSE {opt[s].reuse = "DISALLOW"}) :
          draft' = [draft EXCEPT ![s] =
                      NewFile(opt[s], SecretOf(s), codes, totp, disallow,
                              opt[s].window_size = 0 /\ bigger, limit)]
    /\ opt' = [opt EXCEPT ![s] = NoOptions]
    /\ To(s, "create")
    /\ UNCHANGED <<now, file, mtime, tmp, version, seen, wtime>>

\* Options that do not go together, no random numbers, no home directory.
PrepareFails(s) ==
    /\ spc[s] = "parse"
    /\ Exit(s, "failed")
    /\ UNCHANGED <<now, file, mtime, tmp, version, seen>>

\* The user does not want the file to be updated.
Decline(s) ==
    /\ spc[s] = "parse"
    /\ Complete(opt[s])
    /\ ~opt[s].force
    /\ Exit(s, "declined")
    /\ UNCHANGED <<now, file, mtime, tmp, version, seen>>
-------------------------------------------------------------------------------
(* Writing it.                                                               *)

\* Mutant: the temporary file of a login is overwritten.
SetupCreate_truncates(s) ==
    /\ spc[s] = "create"
    /\ tmp' = s
    /\ To(s, "write")
    /\ UNCHANGED <<now, file, mtime, version, seen, opt, draft, wtime>>

SetupCreate(s) ==
    /\ spc[s] = "create"
    /\ tmp = NoOne
    /\ tmp' = s
    /\ To(s, "write")
    /\ UNCHANGED <<now, file, mtime, version, seen, opt, draft, wtime>>

SetupCreateFails(s) ==
    /\ spc[s] = "create"
    /\ Exit(s, "failed")
    /\ UNCHANGED <<now, file, mtime, tmp, version, seen>>

SetupWrite(s) ==
    /\ spc[s] = "write"
    /\ wtime' = [wtime EXCEPT ![s] = now]
    /\ To(s, "rename")
    /\ UNCHANGED <<now, file, mtime, tmp, version, seen, opt, draft>>

SetupRename(s) ==
    /\ spc[s] = "rename"
    /\ file' = draft[s]
    /\ mtime' = wtime[s]
    /\ tmp' = NoOne
    /\ version' = version + 1
    /\ seen' = seen \cup {[ver |-> version + 1, size |-> FileSize(draft[s]), mtime |-> wtime[s]]}
    /\ Exit(s, "done")
    /\ UNCHANGED now

\* Mutant: the temporary file is removed after the state file.
SetupSaveFails_unlinks(s) ==
    /\ spc[s] \in {"write", "rename"}
    /\ file' = NoFile
    /\ tmp' = NoOne
    /\ Exit(s, "failed")
    /\ UNCHANGED <<now, mtime, version, seen>>

\* When write() or rename() fails it is the state file that is removed, and not
\* the temporary file.
SetupSaveFails(s) ==
    /\ spc[s] \in {"write", "rename"}
    /\ file' = NoFile
    /\ Exit(s, "failed")
    /\ UNCHANGED <<now, mtime, tmp, version, seen>>

SetupKill(s) ==
    /\ spc[s] \notin {"done", "declined", "failed", "killed"}
    /\ Exit(s, "killed")
    /\ UNCHANGED <<now, file, mtime, tmp, version, seen>>

SetupStep(s) ==
    \/ ParseOption(s) \/ Prepare(s) \/ PrepareFails(s) \/ Decline(s)
    \/ SetupCreate(s) \/ SetupCreateFails(s) \/ SetupWrite(s) \/ SetupRename(s)
    \/ SetupSaveFails(s) \/ SetupKill(s)
===============================================================================
