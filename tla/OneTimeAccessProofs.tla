-------------------------- MODULE OneTimeAccessProofs --------------------------
(* The abstract specification keeps its promise.                             *)
EXTENDS OneTimeAccess, TLAPS

\* A code that is consumed in the step that accepts it lets one login in: what
\* PamLogin inherits through PamLogin!Atomic.
THEOREM Promise == Spec => []NoReuse
<1> DEFINE Inv == counter \in Nat /\ Spent /\ NoReuse
<1>1. Init => Inv
  BY DEF Init, Spent, NoReuse
<1>2. Inv /\ [Next]_vars => Inv'
  <2> SUFFICES ASSUME Inv, [Next]_vars PROVE Inv'
    OBVIOUS
  <2>1. CASE UNCHANGED vars
    BY <2>1 DEF vars, Spent, NoReuse
  <2>2. CASE Forfeit
    BY <2>2 DEF Forfeit, Spent, NoReuse
  <2>3. ASSUME NEW g, AdmitScratch(g) PROVE Inv'
    BY <2>3 DEF AdmitScratch, Spent, NoReuse
  <2>4. ASSUME NEW g, AdmitCounter(g) PROVE Inv'
    BY <2>4 DEF AdmitCounter, Spent, NoReuse
  <2> QED BY <2>1, <2>2, <2>3, <2>4 DEF Next
<1> QED BY <1>1, <1>2, PTL DEF Spec
===============================================================================
