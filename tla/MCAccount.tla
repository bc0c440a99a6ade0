------------------------------- MODULE MCAccount -------------------------------
(* Logins to an HOTP account that is set up again.                            *)
EXTENDS Account, TLC

CONSTANTS a, s1, s2

\* The code of a counter is the counter, whatever the secret: codes of different
\* secrets may coincide.
MCcompute_code(k, t) == t
MCSixDigit == 0..4
MCScratch == {a}
MCSecret == {"old"} \cup Setter
MCSecretOf(s) == s
MCDrawn == {{a}}
\* The second command is run without options.
MCMaxOptions == (s1 :> 2) @@ (s2 :> 0)
\* -w and -R accept 15, -r and -w accept 3, nothing accepts 101.
MCArgument == {3, 15, 101}

MCInitFile ==
    {NoFile,
     [ secret |-> "old", totp |-> FALSE, hotp |-> 1, scratch |-> {a}, window |-> 3,
       disallow_reuse |-> FALSE, blocked |-> {}, attempts |-> 0, interval |-> 0,
       stamps |-> <<>>, skew |-> 0, resetting |-> <<>>, lines |-> {} ]}
MCParams == {[pass_mode |-> "PROMPT", forward_pass |-> FALSE, nullok |-> TRUE,
              noskewadj |-> FALSE, no_increment_hotp |-> FALSE]}
MCEntry == {[six |-> 1, eight |-> None, alone |-> 6], [six |-> None, eight |-> a, alone |-> 8]}
===============================================================================
