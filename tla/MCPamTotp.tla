------------------------------- MODULE MCPamTotp -------------------------------
(* Logins of a time-based account, one second per step.  Time is counted from *)
(* an arbitrary origin, so that steps before the first login are negative.    *)
EXTENDS PamLogin, TLC

\* A perfect hash: the code of a step is the step.
MCcompute_code(k, t) == t

CONSTANTS a

MCScratch == {a}
MCSecret == {"k"}
MCSixDigit == -20..20

Account(attempts, scratch, window, tried) ==
    [ secret |-> "k", totp |-> TRUE, hotp |-> 0, scratch |-> scratch, window |-> window,
      disallow_reuse |-> TRUE, blocked |-> {}, attempts |-> attempts, interval |-> 1,
      stamps |-> <<>>, skew |-> 0, resetting |-> tried,
      lines |-> {"WINDOW_SIZE"} \cup (IF tried = <<>> THEN {} ELSE {"RESETTING_TIME_SKEW"}) ]

Param(noskew) ==
    [pass_mode |-> "PROMPT", forward_pass |-> FALSE, nullok |-> FALSE,
     noskewadj |-> noskew, no_increment_hotp |-> FALSE]

Symmetric == Permutations(Login)

Code(c) == [six |-> c, eight |-> None, alone |-> 6]
Scratch(c) == [six |-> None, eight |-> c, alone |-> 8]

\* Accounts without and with a rate limit, and accounts whose owner has twice
\* entered the code of a generator that runs ahead or is behind.
AnyParam == {Param(FALSE)}
Tried(s, t) == <<[tm |-> -2, skew |-> s], [tm |-> -1, skew |-> t]>>
Accounts == {Account(0, {}, 2, <<>>), Account(1, {}, 2, <<>>)}
            \cup {Account(0, {}, 2, tried) :
                     tried \in {Tried(2, 4), Tried(4, 3), Tried(-2, -2), Tried(-2, -1)}}
Steps    == {Code(c) : c \in {-1, 0, 1, 3}}

\* The third code of a teaching sequence, entered twice.
Taught   == {Account(0, {}, 3, Tried(3, 3))}
Third    == {Code(3)}

\* A scratch code beside a time-based one.
WithScratch  == {Account(0, {a}, 3, <<>>)}
CodeOrScratch == {Code(0), Scratch(a)}
===============================================================================
