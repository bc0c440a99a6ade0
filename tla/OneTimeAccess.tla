---------------------------- MODULE OneTimeAccess ----------------------------
(****************************************************************************)
(* What one-time codes promise, without files, copies or processes: a code  *)
(* is checked and consumed in one step.  PamLogin implements this           *)
(* specification (PamLogin!Atomic) as long as no two versions of the state  *)
(* file have the same size and modification time.                           *)
(****************************************************************************)
EXTENDS Integers

VARIABLES
    scratch,   \* the scratch codes that are still good
    counter,   \* the first counter value that is still good
    admitted   \* the logins that were let in: [n, cred, ...], n names the login

vars == <<scratch, counter, admitted>>

Init == /\ counter \in Nat
        /\ admitted = {}

New(g) == \A h \in admitted : h.n # g.n

\* Codes may be lost: a failed attempt advances the counter, and a login whose
\* code was consumed may still fail.
Forfeit == /\ scratch' \subseteq scratch
           /\ counter' \in Nat /\ counter' >= counter
           /\ UNCHANGED admitted

\* The counter may advance as well, when the string that was typed ended like
\* a counter-based code.
AdmitScratch(g) == /\ g.cred.kind = "scratch" /\ New(g)
                   /\ g.cred.val \in scratch
                   /\ scratch' = scratch \ {g.cred.val}
                   /\ counter' \in Nat /\ counter' >= counter
                   /\ admitted' = admitted \cup {g}

AdmitCounter(g) == /\ g.cred.kind = "hotp" /\ New(g)
                   /\ g.cred.val \in Int /\ g.cred.val >= counter
                   /\ counter' = g.cred.val + 1
                   /\ scratch' = scratch
                   /\ admitted' = admitted \cup {g}

Next == \/ Forfeit
        \/ \E g \in admitted' \ admitted : AdmitScratch(g) \/ AdmitCounter(g)

Spec == Init /\ [][Next]_vars
-------------------------------------------------------------------------------
\* No code lets two logins in.
NoReuse == \A g, h \in admitted : g.cred = h.cred => g.n = h.n

\* What makes it so: a code that let somebody in is no longer good.
Spent == \A g \in admitted :
            \/ g.cred.kind = "scratch" /\ g.cred.val \notin scratch
            \/ g.cred.kind = "hotp" /\ g.cred.val \in Int /\ g.cred.val < counter
===============================================================================
