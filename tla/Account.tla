------------------------------- MODULE Account -------------------------------
(****************************************************************************)
(* One account: logins (PamLogin) while its owner runs the setup command     *)
(* (Setup).  They share the state file and the temporary file.               *)
(****************************************************************************)
EXTENDS PamLogin

CONSTANTS Setter, Argument, MaxOptions, Drawn, SecretOf(_)

ASSUME SetterAssumption == Setter \cap (Login \cup {NoOne}) = {}
ASSUME DrawAssumption ==
    /\ Argument \subseteq Int
    /\ \A s \in Setter : SecretOf(s) \in Secret
    /\ \A codes \in Drawn : codes \subseteq ScratchCode /\ IsFiniteSet(codes)

VARIABLES spc, opt, draft, wtime

Command == INSTANCE Setup

accountVars == <<vars, spc, opt, draft, wtime>>

AccountInit == Init /\ Command!SetupInit

LoginNext == Next /\ UNCHANGED <<spc, opt, draft, wtime>>
SetupNext == /\ \E s \in Setter : Command!SetupStep(s)
             /\ UNCHANGED <<pc, sess, logins, grants>>

AccountNext == LoginNext \/ SetupNext

AccountSpec == AccountInit /\ [][AccountNext]_accountVars
-------------------------------------------------------------------------------
\* The temporary file is written by one process, be it a login or the command.
OneWriter ==
    /\ TmpExclusive
    /\ \A s \in Setter : spc[s] \in {"write", "rename"} => tmp = s

\* When a login is let in by a code that has to be recorded, the secret of that
\* code is still the one in force: the command has not replaced the file since
\* the login copied it.
NoStaleSecret ==
    [][FreshStamps' =>
         \A g \in grants' \ grants : OneTime(g.cred) =>
             file # NoFile /\ file.secret = g.cred.secret]_accountVars

\* When the command fails to save, it has removed the file and left the temporary
\* file, which keeps every later login and command from writing another one: a
\* file that is lost is lost for good.
Lost == file = NoFile /\ seen # {}
LostForGood == [][Lost => Lost']_accountVars

\* A file the command has written is one that logins can use: the window and the
\* rate limit are in the range pam_google_authenticator.c accepts, the file is
\* for one kind of code, and what has no meaning for it is not in it.
Usable(f) == /\ window_size(f) # 0
             /\ rate_limit(f, now).rc = 0
             /\ f.totp = (f.hotp = 0)
             /\ f.disallow_reuse => f.totp
WrittenUsable ==
    \A s \in Setter : draft[s] # NoFile /\ draft[s].window # -1 => Usable(draft[s])

\* usage(): "-W, --minimal-window     Disable window of concurrently valid codes".
\* Whatever the options, the file can be used.
MinimalWindowUsable ==
    \A s \in Setter : draft[s] # NoFile => Usable(draft[s])
-------------------------------------------------------------------------------
(* The invariant behind them.                                                *)

\* What the options may have been set to: the limit and its interval are
\* switched off together.
OptionType ==
    [ mode : {"ASK", "HOTP", "TOTP"}, reuse : {"ASK", "DISALLOW", "ALLOW"}, force : BOOLEAN,
      r_limit : -1..10, r_time : {-1, 0} \cup 15..600, window_size : -1..21, count : Int ]
Parsed(o) == o \in OptionType /\ (o.r_limit = -1) = (o.r_time = -1)

\* What a new file may look like.
Drafted(f) ==
    /\ f \in File
    /\ f.window \in -1..21 /\ f.window # 0
    /\ f.stamps = <<>>
    /\ f.attempts = 0 \/ (f.attempts \in 1..10 /\ f.interval \in 15..600)
    /\ f.totp = (f.hotp = 0)
    /\ f.disallow_reuse => f.totp

SetupTypes ==
    /\ tmp \in Login \cup Setter \cup {NoOne}
    /\ spc \in [Setter -> Command!SetupPhase]
    /\ opt \in [Setter -> OptionType] /\ \A s \in Setter : Parsed(opt[s])
    /\ wtime \in [Setter -> Nat]
    /\ draft \in [Setter -> File \cup {NoFile}]
    /\ \A s \in Setter : IF spc[s] \in {"create", "write", "rename"}
                         THEN Drafted(draft[s]) ELSE draft[s] = NoFile

AccountInv ==
    /\ LoginTypes /\ SetupTypes
    /\ OneWriter
    /\ Lost => tmp \in Setter /\ spc[tmp] = "failed"
    /\ Current
    /\ \A p \in Login : pc[p] \in Working => HasRead(p)
    /\ \A p \in Login : Marked(p) /\ Derived(p)
    /\ NoLostUpdate
    /\ \A p \in Login : pc[p] \in Saving => file # NoFile
===============================================================================
