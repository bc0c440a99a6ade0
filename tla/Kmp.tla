---------------------------------- MODULE Kmp ----------------------------------
(****************************************************************************)
(* The string search of kmp/kmp.c, for a pattern that is not empty.           *)
(*                                                                          *)
(* makeNext() reads the pattern with the loop with which kmp() then reads the *)
(* text: upto is q of the first and i of the second, have is k and q.         *)
(****************************************************************************)
EXTENDS Integers, Sequences, SequencesExt

CONSTANTS KmpPattern, KmpText     \* the patterns and the texts

\* A string holds no 0, which is its end.
ASSUME KmpAssumption ==
    /\ KmpPattern \subseteq Seq(Nat \ {0}) /\ <<>> \notin KmpPattern
    /\ KmpText \subseteq Seq(Nat \ {0})

VARIABLES
    P, T,        \* the pattern and the text
    making,      \* makeNext() has not returned
    kmp_next,    \* next: of every beginning of P that was read, how much of it to keep
    upto,        \* the place that is read next
    have,        \* how much of the pattern ends before it
    shifts       \* the shifts printed

kmpVars == <<P, T, making, kmp_next, upto, have, shifts>>

KmpInit ==
    /\ P \in KmpPattern /\ T \in KmpText
    /\ making = TRUE /\ kmp_next = <<0>> /\ upto = 1 /\ have = 0
    /\ shifts = <<>>

Reading == IF making THEN P ELSE T
\* P[j]; behind its last character the string ends.
PChar(j) == IF j < Len(P) THEN P[j + 1] ELSE 0
Unread == upto < Len(Reading)
Agrees == PChar(have) = Reading[upto + 1]

\* Mutant: the pattern is started again.
FallBack_to_start ==
    /\ Unread /\ have > 0 /\ ~Agrees
    /\ have' = 0
    /\ UNCHANGED <<P, T, making, kmp_next, upto, shifts>>
\* while (have > 0 && P[have] != ...) have = next[have - 1].
FallBack ==
    /\ Unread /\ have > 0 /\ ~Agrees
    /\ have' = kmp_next[have]
    /\ UNCHANGED <<P, T, making, kmp_next, upto, shifts>>

\* One character, behind which the loop goes on.
Reads == /\ Unread /\ (have = 0 \/ Agrees)
         /\ have' = IF Agrees THEN have + 1 ELSE have
         /\ upto' = upto + 1
         /\ UNCHANGED <<P, T, making>>

makeNext == /\ making /\ Reads
            /\ kmp_next' = Append(kmp_next, have')
            /\ UNCHANGED shifts

makeNextReturns == /\ making /\ ~Unread
                   /\ making' = FALSE /\ upto' = 0 /\ have' = 0
                   /\ UNCHANGED <<P, T, kmp_next, shifts>>

kmp == /\ ~making /\ Reads
       /\ shifts' = IF have' = Len(P) THEN Append(shifts, upto - Len(P) + 1) ELSE shifts
       /\ UNCHANGED kmp_next

KmpNext == FallBack \/ makeNext \/ makeNextReturns \/ kmp
KmpSpec == KmpInit /\ [][KmpNext]_kmpVars
-------------------------------------------------------------------------------
(* Properties.                                                               *)

\* Where the pattern is in the first n characters of the text.
ShiftsIn(n) == {s \in 0..n - Len(P) : \A j \in 1..Len(P) : T[s + j] = P[j]}

\* However far the pattern falls back, the shifts printed are those at which it
\* occurs in the text read so far, all of them and in order, overlapping ones too.
ShiftsExact ==
    /\ Range(shifts) = IF making THEN {} ELSE ShiftsIn(upto)
    /\ \A a, b \in DOMAIN shifts : a < b => shifts[a] < shifts[b]
===============================================================================
