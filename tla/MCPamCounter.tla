----------------------------- MODULE MCPamCounter -----------------------------
(* Logins of an HOTP account with scratch codes, and of a user without file. *)
EXTENDS PamLogin, TLC

\* A perfect hash: the code of a counter is the counter.
MCcompute_code(k, t) == t

\* A window of two, no rate limit.
Account(hotp, scratch) ==
    [ secret |-> "k", totp |-> FALSE, hotp |-> hotp, scratch |-> scratch, window |-> 2,
      disallow_reuse |-> FALSE, blocked |-> {}, attempts |-> 0, interval |-> 0,
      stamps |-> <<>>, skew |-> 0, resetting |-> <<>>, lines |-> {"WINDOW_SIZE"} ]

CONSTANTS a, b

MCScratch == {a, b}
MCSecret == {"k"}
MCSixDigit == 8..12
\* Counters 9 and 10 differ in their number of digits.
MCInitFile == {NoFile, Account(9, {a, b})}

Param(mode, fwd, keep) ==
    [pass_mode |-> mode, forward_pass |-> fwd, nullok |-> fwd,
     noskewadj |-> FALSE, no_increment_hotp |-> keep]
MCParams == {Param("PROMPT", FALSE, FALSE), Param("TRY_FIRST_PASS", TRUE, FALSE)}

Symmetric == Permutations(Login)

\* A code alone, a scratch code whose last six digits are no or some code.
Code(c) == [six |-> c, eight |-> None, alone |-> 6]
MCEntry == {Code(9), Code(10), Code(8)}
           \cup {[six |-> 12, eight |-> a, alone |-> 8]}
===============================================================================
