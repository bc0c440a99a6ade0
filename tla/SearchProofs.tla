----------------------------- MODULE SearchProofs -----------------------------
(****************************************************************************)
(* Proofs about the searches in texts: for any keys, patterns and texts, no   *)
(* step jumps over an occurrence, but in lists of patterns that differ in     *)
(* case_sen (AcBm), whose matches are occurrences up to case only.            *)
(****************************************************************************)
EXTENDS Kmp, AcBm, MultiKeyMatch, WellFoundedInduction, SequenceTheorems, TLAPS

-------------------------------------------------------------------------------
(* Least numbers.                                                            *)

\* Min() of a nonempty set of numbers is its least one.
LEMMA MinIsLeast ==
    ASSUME NEW S \in SUBSET Nat, S # {}
    PROVE  Min(S) \in S /\ \A n \in S : Min(S) <= n
<1> DEFINE R == OpToRel(<, Nat)
<1>1. PICK m \in S : \A n \in S : ~(<<n, m>> \in R)
  BY NatLessThanWellFounded, WFMin
<1>2. ASSUME NEW n \in S, n < m PROVE FALSE
  <2>1. n \in Nat /\ m \in Nat
    OBVIOUS
  <2>2. <<n, m>> \in R
    BY <1>2, <2>1 DEF OpToRel
  <2> QED BY <1>1, <2>2
<1>3. \A n \in S : m <= n
  BY <1>2
<1> QED BY <1>3 DEF Min

\* Max() of a nonempty set of numbers up to b is its greatest one.
LEMMA MaxIsGreatest ==
    ASSUME NEW b \in Nat, NEW S \in SUBSET (0..b), S # {}
    PROVE  Max(S) \in S /\ \A n \in S : n <= Max(S)
<1> DEFINE D == {b - n : n \in S}
<1>1. D \in SUBSET Nat /\ D # {}
  <2>1. \A n \in S : n \in Nat /\ n <= b
    OBVIOUS
  <2>2. \A n \in S : b - n \in Nat
    BY <2>1
  <2> QED BY <2>2
<1>2. Min(D) \in D /\ \A n \in D : Min(D) <= n
  BY <1>1, MinIsLeast
<1>3. PICK m \in S : Min(D) = b - m
  BY <1>2
<1>4. ASSUME NEW n \in S PROVE m >= n
  <2>1. b - n \in D
    OBVIOUS
  <2>2. b - m <= b - n
    BY <1>2, <1>3, <2>1
  <2> QED BY <2>2
<1>5. (CHOOSE x \in S : \A y \in S : x >= y) \in S /\ \A y \in S : (CHOOSE x \in S : \A z \in S : x >= z) >= y
  BY <1>4
<1> QED BY <1>5 DEF Max

LEMMA MaxOfTwo ==
    ASSUME NEW a \in Int, NEW b \in Int
    PROVE  Max({a, b}) = IF a >= b THEN a ELSE b
BY DEF Max

LEMMA InRange ==
    ASSUME NEW E, NEW s \in Seq(E)
    PROVE  /\ Range(s) \subseteq E
           /\ \A i \in DOMAIN s : s[i] \in Range(s)
           /\ \A x \in Range(s) : \E i \in DOMAIN s : x = s[i]
BY DEF Range
-------------------------------------------------------------------------------
(* Kmp.                                                                      *)

\* The first j characters of the pattern are the last j of the first n of w.
Ends(j, w, n) == j <= n /\ \A x \in 1..j : P[x] = w[n - j + x]
\* So much of the pattern may have been read before place n, and goes on there.
GoesOn(j) == /\ j < Len(P) /\ (making => j < upto)
             /\ Ends(j, Reading, upto) /\ P[j + 1] = Reading[upto + 1]

KmpType ==
    /\ P \in Seq(Nat \ {0}) /\ T \in Seq(Nat \ {0}) /\ Len(P) >= 1 /\ making \in BOOLEAN
    /\ upto \in Nat /\ upto <= Len(Reading) /\ (making => upto >= 1)
    /\ have \in Nat /\ have <= Len(P) /\ (making => have < upto)
    /\ kmp_next \in Seq(Nat) /\ Len(kmp_next) = IF making THEN upto ELSE Len(P)
    /\ shifts \in Seq(Nat)

\* next holds, for every beginning of the pattern, the longest shorter beginning it ends with.
LongestKept ==
    \A m \in 1..Len(kmp_next) : /\ kmp_next[m] < m /\ Ends(kmp_next[m], P, m)
                                /\ \A j \in Nat : j < m /\ Ends(j, P, m) => j <= kmp_next[m]

KmpInv ==
    /\ KmpType /\ LongestKept /\ ShiftsExact
    /\ Ends(have, Reading, upto)
    /\ Unread => \A j \in Nat : GoesOn(j) => j <= have

LEMMA EndsOfEnds ==
    ASSUME NEW w, NEW n \in Nat, NEW m \in Nat, NEW j \in Nat, Ends(m, w, n), Ends(j, P, m)
    PROVE  Ends(j, w, n)
<1>1. j <= m /\ m <= n /\ \A x \in 1..j : P[x] = P[m - j + x]
  BY DEF Ends
<1>2. \A x \in 1..m : P[x] = w[n - m + x]
  BY DEF Ends
<1>3. ASSUME NEW x \in 1..j PROVE P[x] = w[n - j + x]
  <2>1. m - j + x \in 1..m /\ n - m + (m - j + x) = n - j + x
    BY <1>1
  <2> QED BY <1>1, <1>2, <2>1
<1> QED BY <1>1, <1>3 DEF Ends

LEMMA EndsBetween ==
    ASSUME NEW w, NEW n \in Nat, NEW m \in Nat, NEW j \in Nat, Ends(m, w, n), Ends(j, w, n), j <= m
    PROVE  Ends(j, P, m)
<1>1. m <= n /\ \A x \in 1..j : P[x] = w[n - j + x]
  BY DEF Ends
<1>2. \A x \in 1..m : P[x] = w[n - m + x]
  BY DEF Ends
<1>3. ASSUME NEW x \in 1..j PROVE P[x] = P[m - j + x]
  <2>1. m - j + x \in 1..m /\ n - m + (m - j + x) = n - j + x
    BY <1>1
  <2> QED BY <1>1, <1>2, <2>1
<1> QED BY <1>3 DEF Ends

\* One character more.
LEMMA EndsLonger ==
    ASSUME NEW w, NEW n \in Nat, NEW j \in Nat
    PROVE  Ends(j + 1, w, n + 1) <=> Ends(j, w, n) /\ P[j + 1] = w[n + 1]
<1>1. n + 1 - (j + 1) = n - j /\ (j + 1 <= n + 1 <=> j <= n) /\ n - j + (j + 1) = n + 1
  OBVIOUS
<1>2. \A x : x \in 1..j + 1 <=> x \in 1..j \/ x = j + 1
  OBVIOUS
<1>3. Ends(j + 1, w, n + 1) <=> j <= n /\ \A x \in 1..j + 1 : P[x] = w[n - j + x]
  BY <1>1 DEF Ends
<1>4. Ends(j, w, n) <=> j <= n /\ \A x \in 1..j : P[x] = w[n - j + x]
  BY DEF Ends
<1> QED BY <1>1, <1>2, <1>3, <1>4

LEMMA KmpInitially == KmpInit => KmpInv
<1> SUFFICES ASSUME KmpInit PROVE KmpInv
  OBVIOUS
<1>1. P \in Seq(Nat \ {0}) /\ T \in Seq(Nat \ {0}) /\ P # <<>>
  BY KmpAssumption DEF KmpInit
<1>2. making = TRUE /\ kmp_next = <<0>> /\ upto = 1 /\ have = 0 /\ shifts = <<>>
  BY DEF KmpInit
<1>3. Len(P) \in Nat /\ Len(P) >= 1
  BY <1>1
<1>4. Reading = P
  BY <1>2 DEF Reading
<1>5. KmpType
  <2>1. making \in BOOLEAN
    BY <1>2, Zenon
  <2>2. kmp_next \in Seq(Nat) /\ Len(kmp_next) = 1 /\ shifts \in Seq(Nat)
    BY <1>2
  <2> QED BY <1>1, <1>2, <1>3, <1>4, <2>1, <2>2 DEF KmpType
<1>6. \A w, n : n \in Nat => Ends(0, w, n)
  BY DEF Ends
<1>7. LongestKept
  <2>1. Len(kmp_next) = 1 /\ kmp_next[1] = 0
    BY <1>2
  <2>2. \A m \in 1..1 : m = 1
    OBVIOUS
  <2> QED BY <1>6, <2>1, <2>2 DEF LongestKept
<1>8. ShiftsExact
  BY <1>2 DEF ShiftsExact, Range
<1>9. \A j \in Nat : GoesOn(j) => j <= 0
  BY <1>2 DEF GoesOn
<1> QED BY <1>2, <1>5, <1>6, <1>7, <1>8, <1>9 DEF KmpInv

LEMMA KmpFallingBack == KmpInv /\ FallBack => KmpInv'
<1> SUFFICES ASSUME KmpInv, FallBack PROVE KmpInv'
  OBVIOUS
<1>1. /\ P' = P /\ T' = T /\ making' = making /\ kmp_next' = kmp_next /\ upto' = upto /\ shifts' = shifts
      /\ Unread /\ have > 0 /\ ~Agrees /\ have' = kmp_next[have]
  BY DEF FallBack
<1>2. KmpType /\ LongestKept /\ upto \in Nat /\ have \in Nat /\ have <= Len(P) /\ Len(P) \in Nat
  BY DEF KmpInv, KmpType
<1>3. have \in 1..Len(kmp_next)
  <2>1. Len(kmp_next) = IF making THEN upto ELSE Len(P)
    BY <1>2 DEF KmpType
  <2>2. making => have < upto
    BY <1>2 DEF KmpType
  <2> QED BY <1>1, <1>2, <2>1, <2>2
<1> DEFINE f == kmp_next[have]
<1>4. f \in Nat /\ f < have /\ Ends(f, P, have) /\ \A j \in Nat : j < have /\ Ends(j, P, have) => j <= f
  <2>1. f \in Nat
    BY <1>2, <1>3 DEF KmpType
  <2> QED BY <1>2, <1>3, <2>1 DEF LongestKept
<1> HIDE DEF f
<1>5. Reading' = Reading /\ (Unread' <=> Unread) /\ have' = f
  BY <1>1 DEF Reading, Unread, f
<1>6. Ends(have, Reading, upto)
  BY DEF KmpInv
<1>7. Ends(f, Reading, upto)
  BY <1>2, <1>4, <1>6, EndsOfEnds
<1>8. ASSUME NEW j \in Nat, GoesOn(j) PROVE j <= f
  <2>1. j <= have
    BY <1>1, <1>8 DEF KmpInv
  <2>2. j # have
    BY <1>1, <1>8 DEF GoesOn, Agrees, PChar
  <2>3. Ends(j, P, have)
    BY <1>2, <1>6, <1>8, <2>1, EndsBetween DEF GoesOn
  <2> QED BY <1>2, <1>4, <2>1, <2>2, <2>3
<1>9. KmpType'
  BY <1>1, <1>2, <1>4, <1>5 DEF KmpType
<1>10. LongestKept' /\ ShiftsExact'
  BY <1>1, <1>2 DEF LongestKept, Ends, ShiftsExact, ShiftsIn, KmpInv
<1>11. Ends(have, Reading, upto)' /\ \A j : GoesOn(j)' <=> GoesOn(j)
  BY <1>1, <1>5, <1>7 DEF Ends, GoesOn
<1> QED BY <1>5, <1>8, <1>9, <1>10, <1>11 DEF KmpInv

\* A character is read: what is left is the longest that may have been read.
LEMMA KmpReads ==
    ASSUME KmpInv, Reads
    PROVE  /\ have' \in Nat /\ have' <= Len(P) /\ have' <= have + 1 /\ Ends(have', Reading, upto + 1)
           /\ \A j \in Nat : j <= Len(P) /\ (making => j <= upto) /\ Ends(j, Reading, upto + 1) => j <= have'
           /\ upto < Len(Reading) /\ upto \in Nat /\ Len(Reading) \in Nat
<1>1. Unread /\ (have = 0 \/ Agrees) /\ have' = IF Agrees THEN have + 1 ELSE have
  BY DEF Reads
<1>2. KmpType /\ upto \in Nat /\ have \in Nat /\ have <= Len(P) /\ Len(P) \in Nat
  BY DEF KmpInv, KmpType
<1>3. Reading \in Seq(Nat \ {0}) /\ Len(Reading) \in Nat
  BY <1>2 DEF KmpType, Reading
<1>4. upto < Len(Reading)
  BY <1>1 DEF Unread
<1>5. Reading[upto + 1] \in Nat \ {0}
  BY <1>2, <1>3, <1>4
<1>6. Agrees <=> have < Len(P) /\ P[have + 1] = Reading[upto + 1]
  BY <1>5 DEF Agrees, PChar
<1>7. Ends(have, Reading, upto)
  BY DEF KmpInv
<1>8. Ends(have', Reading, upto + 1)
  <2>1. CASE Agrees
    BY <1>1, <1>2, <1>6, <1>7, <2>1, EndsLonger
  <2>2. CASE ~Agrees
    <3>1. have' = 0
      BY <1>1, <2>2
    <3> QED BY <1>2, <3>1 DEF Ends
  <2> QED BY <2>1, <2>2
<1>9. ASSUME NEW j \in Nat, j <= Len(P), making => j <= upto, Ends(j, Reading, upto + 1) PROVE j <= have'
  <2>1. CASE j = 0
    BY <1>1, <1>2, <2>1
  <2>2. CASE j > 0
    <3>0. PICK h \in Nat : j = h + 1
      <4>1. j - 1 \in Nat /\ j = (j - 1) + 1
        BY <2>2
      <4> QED BY <4>1
    <3>1. h + 1 = j /\ h < Len(P) /\ (making => h < upto)
      BY <1>2, <1>9, <3>0
    <3>2. Ends(h, Reading, upto) /\ P[h + 1] = Reading[upto + 1]
      <4>1. Ends(h + 1, Reading, upto + 1)
        BY <1>9, <3>0
      <4>2. Ends(h + 1, Reading, upto + 1) <=> Ends(h, Reading, upto) /\ P[h + 1] = Reading[upto + 1]
        <5>1. \A w : \A n, i \in Nat : Ends(i + 1, w, n + 1) <=> Ends(i, w, n) /\ P[i + 1] = w[n + 1]
          BY EndsLonger
        <5>2. upto \in Nat /\ h \in Nat
          BY <1>2
        <5> QED BY <5>1, <5>2
      <4> QED BY <4>1, <4>2
    <3>3. h <= have
      BY <1>1, <3>1, <3>2 DEF KmpInv, GoesOn
    <3>4. Agrees
      <4>1. CASE have = 0
        <5>1. h = 0
          BY <3>1, <3>3, <4>1
        <5> QED BY <1>6, <3>1, <3>2, <4>1, <5>1
      <4> QED BY <1>1, <4>1
    <3> QED BY <1>1, <1>2, <3>1, <3>3, <3>4
  <2> QED BY <1>9, <2>1, <2>2
<1>10. have' \in Nat /\ have' <= Len(P) /\ have' <= have + 1
  BY <1>1, <1>2, <1>6
<1> QED BY <1>2, <1>3, <1>4, <1>8, <1>9, <1>10

LEMMA KmpMaking == KmpInv /\ makeNext => KmpInv'
<1> SUFFICES ASSUME KmpInv, makeNext PROVE KmpInv'
  OBVIOUS
<1>1. /\ P' = P /\ T' = T /\ making' = making /\ making /\ upto' = upto + 1 /\ shifts' = shifts
      /\ kmp_next' = Append(kmp_next, have') /\ Reads
  BY DEF makeNext, Reads
<1>2. /\ KmpType /\ Len(kmp_next) = upto /\ have < upto /\ Reading = P /\ Reading' = P
      /\ kmp_next \in Seq(Nat) /\ have \in Nat /\ Len(P) \in Nat
  BY <1>1 DEF KmpInv, KmpType, Reading
<1>3. /\ have' \in Nat /\ have' <= Len(P) /\ have' <= have + 1 /\ Ends(have', P, upto + 1)
      /\ \A j \in Nat : j <= Len(P) /\ j <= upto /\ Ends(j, P, upto + 1) => j <= have'
      /\ upto < Len(P) /\ upto \in Nat
  BY <1>1, <1>2, KmpReads
<1>4. KmpType'
  BY <1>1, <1>2, <1>3 DEF KmpType
<1>5. \A j, w, n : Ends(j, w, n)' <=> Ends(j, w, n)
  BY <1>1 DEF Ends
<1>6. /\ Len(kmp_next') = upto + 1 /\ kmp_next'[upto + 1] = have'
      /\ \A m \in 1..upto : kmp_next'[m] = kmp_next[m]
  BY <1>1, <1>2, <1>3
<1>7. LongestKept'
  <2> SUFFICES ASSUME NEW m \in 1..upto + 1
               PROVE  /\ kmp_next'[m] < m /\ Ends(kmp_next'[m], P, m)
                      /\ \A j \in Nat : j < m /\ Ends(j, P, m) => j <= kmp_next'[m]
    BY <1>1, <1>6 DEF LongestKept, Ends
  <2>1. CASE m = upto + 1
    <3>1. \A j \in Nat : j < m => j <= upto /\ j <= Len(P)
      BY <1>2, <1>3, <2>1
    <3> QED BY <1>2, <1>3, <1>6, <2>1, <3>1
  <2>2. CASE m \in 1..upto
    BY <1>2, <1>6, <2>2 DEF KmpInv, LongestKept
  <2> QED BY <1>3, <2>1, <2>2
<1>8. ShiftsExact'
  BY <1>1 DEF KmpInv, ShiftsExact
<1>9. Ends(have, Reading, upto)'
  BY <1>1, <1>2, <1>3 DEF Ends
<1>10. ASSUME NEW j \in Nat, GoesOn(j)' PROVE j <= have'
  <2>1. j < Len(P) /\ j < upto + 1 /\ Ends(j, P, upto + 1)
    BY <1>1, <1>2, <1>10 DEF GoesOn, Ends
  <2> QED BY <1>2, <1>3, <2>1
<1> QED BY <1>4, <1>7, <1>8, <1>9, <1>10 DEF KmpInv

LEMMA KmpMade == KmpInv /\ makeNextReturns => KmpInv'
<1> SUFFICES ASSUME KmpInv, makeNextReturns PROVE KmpInv'
  OBVIOUS
<1>1. /\ P' = P /\ T' = T /\ making /\ ~making' /\ upto' = 0 /\ have' = 0 /\ shifts' = shifts /\ kmp_next' = kmp_next
      /\ making' = FALSE /\ ~Unread
  BY DEF makeNextReturns
<1>2. /\ KmpType /\ Len(kmp_next) = upto /\ Reading = P /\ Reading' = T /\ upto <= Len(P) /\ upto \in Nat /\ Len(P) \in Nat
      /\ T \in Seq(Nat \ {0}) /\ Len(P) >= 1
  BY <1>1 DEF KmpInv, KmpType, Reading
<1>3. Len(kmp_next) = Len(P)
  BY <1>1, <1>2 DEF Unread
<1>4. KmpType'
  <2>1. making' \in BOOLEAN
    BY <1>1, Zenon
  <2>2. Len(T) \in Nat
    BY <1>2
  <2> QED BY <1>1, <1>2, <1>3, <2>1, <2>2 DEF KmpType
<1>5. LongestKept'
  BY <1>1 DEF KmpInv, LongestKept, Ends
<1>6. ShiftsExact'
  <2>1. ShiftsIn(0) = {}
    BY <1>2 DEF ShiftsIn
  <2>2. ShiftsIn(upto)' = ShiftsIn(0)
    BY <1>1 DEF ShiftsIn
  <2> QED BY <1>1, <2>1, <2>2 DEF KmpInv, ShiftsExact
<1>7. Ends(have, Reading, upto)'
  BY <1>1 DEF Ends
<1>8. ASSUME NEW j \in Nat, GoesOn(j)' PROVE j <= 0
  BY <1>1, <1>8 DEF GoesOn, Ends
<1> QED BY <1>1, <1>4, <1>5, <1>6, <1>7, <1>8 DEF KmpInv

LEMMA KmpSearching == KmpInv /\ kmp => KmpInv'
<1> SUFFICES ASSUME KmpInv, kmp PROVE KmpInv'
  OBVIOUS
<1> DEFINE M == Len(P)
           s == upto - M + 1
<1>1. /\ P' = P /\ T' = T /\ making' = making /\ ~making /\ upto' = upto + 1 /\ kmp_next' = kmp_next /\ Reads
      /\ shifts' = IF have' = M THEN Append(shifts, s) ELSE shifts
  BY DEF kmp, Reads
<1>2. /\ KmpType /\ Reading = T /\ Reading' = T /\ M \in Nat /\ M >= 1 /\ shifts \in Seq(Nat)
      /\ T \in Seq(Nat \ {0})
  BY <1>1 DEF KmpInv, KmpType, Reading
<1>3. /\ have' \in Nat /\ have' <= M /\ Ends(have', T, upto + 1)
      /\ \A j \in Nat : j <= M /\ Ends(j, T, upto + 1) => j <= have'
      /\ upto < Len(T) /\ upto \in Nat
  BY <1>1, <1>2, KmpReads
<1>4. have' = M <=> Ends(M, T, upto + 1)
  BY <1>2, <1>3
<1>5. ShiftsIn(upto + 1) = ShiftsIn(upto) \cup (IF Ends(M, T, upto + 1) THEN {s} ELSE {})
  <2>1. \A n : ShiftsIn(n) = {x \in 0..n - M : \A j \in 1..M : T[x + j] = P[j]}
    BY DEF ShiftsIn
  <2>2. Ends(M, T, upto + 1) <=> s \in Nat /\ \A j \in 1..M : T[s + j] = P[j]
    <3>1. (upto + 1) - M = s /\ (M <= upto + 1 <=> s \in Nat)
      BY <1>2, <1>3
    <3>2. Ends(M, T, upto + 1) <=> M <= upto + 1 /\ \A j \in 1..M : P[j] = T[(upto + 1) - M + j]
      BY DEF Ends
    <3> HIDE DEF M, s
    <3> QED BY <3>1, <3>2
  <2>3. (upto + 1) - M = s /\ s \in Int
    BY <1>2, <1>3
  <2>4. \A x : x \in 0..(upto + 1) - M <=> x \in 0..upto - M \/ (x = s /\ s \in Nat)
    BY <1>2, <1>3
  <2> HIDE DEF M, s
  <2>5. ShiftsIn(upto + 1) = {x \in 0..(upto + 1) - M : \A j \in 1..M : T[x + j] = P[j]}
    BY <1>3, <2>1
  <2>6. ShiftsIn(upto) = {x \in 0..upto - M : \A j \in 1..M : T[x + j] = P[j]}
    BY <1>3, <2>1
  <2> QED BY <2>2, <2>4, <2>5, <2>6
<1>6. Range(shifts) = ShiftsIn(upto) /\ \A a, b \in DOMAIN shifts : a < b => shifts[a] < shifts[b]
  BY <1>1 DEF KmpInv, ShiftsExact
<1>7. Ends(M, T, upto + 1) => s \in Nat
  BY <1>2, <1>3 DEF Ends
<1>8. \A x \in ShiftsIn(upto) : x < s /\ x \in Nat
  BY <1>2, <1>3 DEF ShiftsIn
<1>9. ShiftsExact' /\ shifts' \in Seq(Nat)
  <2>1. \A n : ShiftsIn(n)' = ShiftsIn(n)
    BY <1>1 DEF ShiftsIn
  <2>2. ShiftsIn(upto)' = ShiftsIn(upto + 1)
    BY <1>1 DEF ShiftsIn
  <2> HIDE DEF M, s
  <2>3. CASE have' = M
    <3> DEFINE N == Len(shifts)
    <3>1. shifts' = Append(shifts, s) /\ s \in Nat /\ ShiftsIn(upto + 1) = ShiftsIn(upto) \cup {s}
      BY <1>1, <1>4, <1>5, <1>7, <2>3
    <3>2. /\ shifts' \in Seq(Nat) /\ N \in Nat /\ DOMAIN shifts = 1..N /\ DOMAIN shifts' = 1..N + 1
          /\ shifts'[N + 1] = s /\ \A x \in 1..N : shifts'[x] = shifts[x]
      BY <1>2, <3>1
    <3>3. \A x \in 1..N + 1 : x \in 1..N \/ x = N + 1
      BY <3>2
    <3>4. Range(shifts') = Range(shifts) \cup {s}
      <4>1. \A y : y \in Range(shifts') <=> \E x \in 1..N + 1 : y = shifts'[x]
        BY <3>2 DEF Range
      <4>2. \A y : y \in Range(shifts) <=> \E x \in 1..N : y = shifts[x]
        BY <3>2 DEF Range
      <4>3. \A x \in 1..N : x \in 1..N + 1
        BY <3>2
      <4>4. N + 1 \in 1..N + 1
        BY <3>2
      <4> HIDE DEF N
      <4> QED BY <3>2, <3>3, <4>1, <4>2, <4>3, <4>4
    <3>5. \A x \in 1..N : shifts[x] < s
      BY <1>6, <1>8, <3>2 DEF Range
    <3>6. \A a, b \in 1..N + 1 : a < b => shifts'[a] < shifts'[b]
      <4> SUFFICES ASSUME NEW a \in 1..N + 1, NEW b \in 1..N + 1, a < b PROVE shifts'[a] < shifts'[b]
        OBVIOUS
      <4>1. a \in 1..N
        BY <3>2
      <4>2. CASE b \in 1..N
        BY <1>6, <3>2, <4>1, <4>2
      <4>3. CASE b = N + 1
        BY <3>2, <3>5, <4>1, <4>3
      <4> QED BY <3>3, <4>2, <4>3
    <3> QED BY <1>1, <1>6, <2>2, <3>1, <3>2, <3>4, <3>6 DEF ShiftsExact
  <2>4. CASE have' # M
    <3>1. shifts' = shifts /\ ShiftsIn(upto + 1) = ShiftsIn(upto)
      BY <1>1, <1>4, <1>5, <2>4
    <3> QED BY <1>1, <1>2, <1>6, <2>2, <3>1 DEF ShiftsExact
  <2> QED BY <2>3, <2>4
<1>10. KmpType'
  BY <1>1, <1>2, <1>3, <1>9 DEF KmpType
<1>11. LongestKept'
  BY <1>1 DEF KmpInv, LongestKept, Ends
<1>12. Ends(have, Reading, upto)'
  BY <1>1, <1>2, <1>3 DEF Ends
<1>13. ASSUME NEW j \in Nat, GoesOn(j)' PROVE j <= have'
  <2>1. j < M /\ Ends(j, T, upto + 1)
    BY <1>1, <1>2, <1>13 DEF GoesOn, Ends
  <2> QED BY <1>2, <1>3, <2>1
<1> QED BY <1>9, <1>10, <1>11, <1>12, <1>13 DEF KmpInv

\* The shifts printed are the right ones, for any pattern and any text.
THEOREM ShiftsAreExact == KmpSpec => []ShiftsExact
<1>1. KmpInv /\ [KmpNext]_kmpVars => KmpInv'
  <2>1. ASSUME KmpInv, UNCHANGED kmpVars PROVE KmpInv'
    <3>1. P' = P /\ T' = T /\ making' = making /\ kmp_next' = kmp_next /\ upto' = upto /\ have' = have /\ shifts' = shifts
      BY <2>1 DEF kmpVars
    <3> QED BY <2>1, <3>1 DEF KmpInv, KmpType, LongestKept, ShiftsExact, ShiftsIn, Ends, Reading, GoesOn, Unread
  <2> QED BY <2>1, KmpFallingBack, KmpMaking, KmpMade, KmpSearching DEF KmpNext
<1>2. KmpInv => ShiftsExact
  BY DEF KmpInv
<1> QED BY <1>1, <1>2, KmpInitially, PTL DEF KmpSpec
-------------------------------------------------------------------------------
(* MultiKeyMatch.                                                            *)

LEMMA TakenLength == \A n \in KeyLength : n >= 2
<1>1. \A b \in Nat : \A n \in 2..b : n >= 2
  OBVIOUS
<1> QED BY <1>1 DEF KeyLength

MkResult == [res : Int, key : DOMAIN mk.keys]

MkType ==
    /\ mk \in [calls : Seq(Seq(Int)), keys : Seq(Seq(Int)), source : Seq(Int), front : InFront]
    /\ \A i \in DOMAIN mk.keys : Len(mk.keys[i]) >= 2
    /\ at_pos \in Nat
    /\ results \in Seq(MkResult)
    /\ matching \in {"adding", "searching", "returned"}

\* The places where keys end have been found up to the position, in order.
MkFound ==
    /\ \A i \in DOMAIN results :
          LET e == EndOf(results[i])
          IN  e \in Nat /\ e < at_pos /\ MatchByte(e, mk.keys[results[i].key])
    /\ \A i, j \in DOMAIN results : i < j => EndOf(results[i]) < EndOf(results[j])
    /\ matching # "adding" /\ mk.keys # <<>> =>
          \A s \in 0..len - 2 : (s < at_pos \/ matching = "returned") /\ EndsAt(s) # {} =>
              \E i \in DOMAIN results : EndOf(results[i]) = s

MkInv ==
    /\ MkType
    /\ MkFound
    /\ matching = "adding" => results = <<>> /\ at_pos = 0
    /\ matching = "searching" => mk.keys # <<>>

LEMMA MaxBounds ==
    ASSUME MkType, mk.keys # <<>>
    PROVE  max \in Nat /\ max >= 1 /\ \A i \in DOMAIN mk.keys : max < Len(mk.keys[i])
<1> DEFINE S == {Len(k) : k \in Range(mk.keys)}
<1>1. mk.keys \in Seq(Seq(Int)) /\ 1 \in DOMAIN mk.keys
  BY DEF MkType
<1>2. \A i \in DOMAIN mk.keys : Len(mk.keys[i]) \in S
  BY <1>1, InRange
<1>3. \A n \in S : n \in Nat /\ n >= 2
  BY <1>1, InRange DEF MkType
<1>4. Min(S) \in S /\ \A n \in S : Min(S) <= n
  BY <1>1, <1>2, <1>3, MinIsLeast
<1>5. Min(S) \in Nat /\ Min(S) >= 2
  BY <1>3, <1>4
<1>6. max = Min(S) - 1
  BY DEF max
<1>7. \A i \in DOMAIN mk.keys : Min(S) <= Len(mk.keys[i]) /\ Len(mk.keys[i]) \in Nat
  BY <1>2, <1>3, <1>4
<1> HIDE DEF S
<1> QED BY <1>5, <1>6, <1>7

LEMMA SpaceBounds ==
    ASSUME MkType, mk.keys # <<>>, NEW pair
    PROVE  /\ Spaces(pair) \subseteq Nat
           /\ space(pair) \in Nat /\ space(pair) <= max
           /\ \A n \in Spaces(pair) : space(pair) <= n
<1>1. mk.keys \in Seq(Seq(Int))
  BY DEF MkType
<1>2. Spaces(pair) \subseteq Nat
  BY <1>1, InRange DEF Spaces
<1>3. max \in Nat
  BY MaxBounds
<1>4. space(pair) \in {max} \cup Spaces(pair) /\ \A n \in {max} \cup Spaces(pair) : space(pair) <= n
  BY <1>2, <1>3, MinIsLeast DEF space
<1> QED BY <1>2, <1>3, <1>4

\* The pair of the text d characters before the end of an occurrence is in the key.
LEMMA PairInKey ==
    ASSUME MkType, NEW i \in DOMAIN mk.keys, NEW s \in Nat, NEW d \in Nat,
           MatchByte(s, mk.keys[i]), d <= s, d <= Len(mk.keys[i]) - 2
    PROVE  d \in Spaces(Pair(s - d))
<1> DEFINE k == mk.keys[i]
           n == Len(k)
           j == n - 1 - d
<1>1. k \in Seq(Int) /\ n \in Nat /\ n >= 2 /\ k \in Range(mk.keys)
  BY InRange DEF MkType
<1>2. d <= n - 2 /\ \A m \in 1..n : Source(s + 2 - m) = k[n + 1 - m]
  BY DEF MatchByte
<1> HIDE DEF k, n
<1>3. j \in 1..n - 1 /\ n - j - 1 = d
  BY <1>1, <1>2
<1>4. d + 2 \in 1..n /\ d + 1 \in 1..n
  BY <1>1, <1>2
<1>5. Source(s + 2 - (d + 2)) = k[n + 1 - (d + 2)] /\ Source(s + 2 - (d + 1)) = k[n + 1 - (d + 1)]
  BY <1>2, <1>4
<1>6. s + 2 - (d + 2) = s - d /\ s + 2 - (d + 1) = s - d + 1 /\ n + 1 - (d + 2) = j /\ n + 1 - (d + 1) = j + 1
  BY <1>1
<1>7. <<k[j], k[j + 1]>> = Pair(s - d)
  BY <1>5, <1>6 DEF Pair
<1> HIDE DEF j
<1> QED BY <1>1, <1>3, <1>7 DEF Spaces, n

\* No occurrence ends at a place that a step passes.
LEMMA NothingPassed ==
    ASSUME MkType, mk.keys # <<>>, NEW s \in Nat, EndsAt(s) # {}, s >= at_pos
    PROVE  /\ s >= at_pos + space(Pair(at_pos))
           /\ Spaces(Pair(at_pos)) = {} => s >= at_pos + max
<1>1. PICK i \in DOMAIN mk.keys : MatchByte(s, mk.keys[i])
  BY DEF EndsAt
<1> DEFINE d == s - at_pos
<1>2. d \in Nat /\ at_pos \in Nat /\ d <= s /\ s - d = at_pos
  BY DEF MkType
<1>3. max \in Nat /\ max < Len(mk.keys[i]) /\ Len(mk.keys[i]) \in Nat
  BY MaxBounds DEF MkType
<1>4. space(Pair(at_pos)) \in Nat /\ space(Pair(at_pos)) <= max
  BY SpaceBounds
<1>5. CASE d <= Len(mk.keys[i]) - 2
  <2>1. d \in Spaces(Pair(at_pos))
    BY <1>1, <1>2, <1>5, PairInKey
  <2>2. space(Pair(at_pos)) <= d
    BY <2>1, SpaceBounds
  <2> QED BY <1>2, <1>4, <2>1, <2>2
<1>6. CASE d > Len(mk.keys[i]) - 2
  BY <1>2, <1>3, <1>4, <1>6
<1> QED BY <1>2, <1>3, <1>5, <1>6

LEMMA MkInitially == MkInit => MkInv
<1> SUFFICES ASSUME MkInit PROVE MkInv
  OBVIOUS
<1>1. PICK l \in KeyLists, s \in Sources, f \in InFront :
          mk = [calls |-> l, keys |-> <<>>, source |-> s, front |-> f]
  BY DEF MkInit
<1>2. at_pos = 0 /\ results = <<>> /\ matching = "adding"
  BY DEF MkInit
<1>3. MkType
  BY <1>1, <1>2, MultiKeyAssumption DEF MkType
<1> QED BY <1>2, <1>3 DEF MkInv, MkFound

LEMMA MkAdding == MkInv /\ AddKey => MkInv'
<1> SUFFICES ASSUME MkInv, AddKey PROVE MkInv'
  OBVIOUS
<1>1. results = <<>> /\ at_pos = 0 /\ matching = "adding"
  BY DEF MkInv, AddKey
<1>2. results' = <<>> /\ at_pos' = 0 /\ matching' = "adding"
  BY <1>1 DEF AddKey
<1>3. MkType'
  <2>1. Head(mk.calls) \in Seq(Int) /\ Tail(mk.calls) \in Seq(Seq(Int))
    <3>1. mk.calls \in Seq(Seq(Int)) /\ mk.calls # <<>>
      BY DEF MkInv, MkType, AddKey
    <3> QED BY <3>1
  <2> DEFINE new == IF Len(Head(mk.calls)) \in KeyLength THEN Append(mk.keys, Head(mk.calls)) ELSE mk.keys
  <2>2. mk' = [mk EXCEPT !.calls = Tail(@), !.keys = new]
    BY DEF AddKey
  <2>3. mk.keys \in Seq(Seq(Int)) /\ \A i \in DOMAIN mk.keys : Len(mk.keys[i]) >= 2
    BY DEF MkInv, MkType
  <2>4. new \in Seq(Seq(Int)) /\ \A i \in DOMAIN new : Len(new[i]) >= 2
    <3> DEFINE x == Head(mk.calls)
    <3>1. x \in Seq(Int) /\ Len(x) \in Nat
      BY <2>1
    <3> HIDE DEF x
    <3>2. Len(x) >= 2 => Append(mk.keys, x) \in Seq(Seq(Int)) /\ \A i \in DOMAIN Append(mk.keys, x) : Len(Append(mk.keys, x)[i]) >= 2
      BY <2>3, <3>1
    <3>3. new = IF Len(x) \in KeyLength THEN Append(mk.keys, x) ELSE mk.keys
      BY DEF x
    <3> HIDE DEF new
    <3>4. CASE Len(x) \in KeyLength
      BY <3>2, <3>3, <3>4, TakenLength
    <3>5. CASE Len(x) \notin KeyLength
      BY <2>3, <3>3, <3>5
    <3> QED BY <3>4, <3>5
  <2> HIDE DEF new
  <2>5. mk'.keys = new /\ mk' \in [calls : Seq(Seq(Int)), keys : Seq(Seq(Int)), source : Seq(Int), front : InFront]
    BY <2>1, <2>2, <2>4 DEF MkInv, MkType
  <2> QED BY <1>2, <2>4, <2>5 DEF MkType
<1> QED BY <1>2, <1>3 DEF MkInv, MkFound

LEMMA MkStarting == MkInv /\ MatchInit => MkInv'
<1> SUFFICES ASSUME MkInv, MatchInit PROVE MkInv'
  OBVIOUS
<1>1. results = <<>> /\ at_pos = 0
  BY DEF MkInv, MatchInit
<1>2. results' = <<>> /\ at_pos' = 0 /\ mk' = mk /\ matching' \in {"searching", "returned"}
  BY <1>1 DEF MatchInit
<1>3. MkType'
  BY <1>2 DEF MkInv, MkType
<1>4. matching' = "searching" => mk'.keys # <<>>
  BY <1>2 DEF MatchInit
<1>5. ASSUME mk.keys # <<>>, matching' = "returned", NEW s \in 0..len - 2, NEW i \in EndsAt(s)
      PROVE  FALSE
  <2>1. len <= max
    BY <1>5 DEF MatchInit
  <2>2. i \in DOMAIN mk.keys /\ s + 2 >= Len(mk.keys[i])
    BY <1>5 DEF EndsAt
  <2>3. max \in Nat /\ max < Len(mk.keys[i]) /\ Len(mk.keys[i]) \in Nat /\ len \in Nat
    <3>1. MkType /\ max \in Nat /\ max < Len(mk.keys[i])
      BY <1>5, <2>2, MaxBounds DEF MkInv
    <3>2. mk.source \in Seq(Int) /\ mk.keys[i] \in Seq(Int)
      BY <2>2, <3>1 DEF MkType
    <3> QED BY <3>1, <3>2 DEF len
  <2> QED BY <1>5, <2>1, <2>2, <2>3
<1>6. MkFound'
  <2>1. \A s : EndsAt(s)' = EndsAt(s) /\ len' = len
    BY <1>2 DEF EndsAt, MatchByte, Source, len
  <2>2. len \in Nat
    BY DEF MkInv, MkType, len
  <2>3. ASSUME mk.keys # <<>>, NEW s \in 0..len - 2, s < 0 \/ matching' = "returned" PROVE EndsAt(s) = {}
    BY <1>5, <2>2, <2>3
  <2> QED BY <1>2, <2>1, <2>3 DEF MkFound
<1> QED BY <1>2, <1>3, <1>4, <1>6 DEF MkInv

LEMMA MkSame ==
    ASSUME mk' = mk
    PROVE  /\ len' = len
           /\ \A s : EndsAt(s)' = EndsAt(s)
           /\ \A s, p : MatchByte(s, p)' = MatchByte(s, p)
           /\ \A r : EndOf(r)' = EndOf(r)
BY DEF EndsAt, MatchByte, Source, len, EndOf

LEMMA MkMoving == MkInv /\ Moves => MkInv'
<1> SUFFICES ASSUME MkInv, Moves PROVE MkInv'
  OBVIOUS
<1> DEFINE step == IF Spaces(Pair(at_pos)) = {} THEN max ELSE space(Pair(at_pos))
<1>1. mk' = mk /\ results' = results /\ matching' = matching /\ matching = "searching" /\ at_pos' = at_pos + step
  BY DEF Moves
<1>2. MkType /\ mk.keys # <<>>
  BY <1>1 DEF MkInv
<1>3. step \in Nat /\ at_pos \in Nat
  BY <1>2, MaxBounds, SpaceBounds DEF MkType
<1>4. MkType'
  BY <1>1, <1>2, <1>3, SMTT(30) DEF MkType, MkResult
<1>5. MkFound'
  <2> USE <1>1, <1>3, MkSame
  <2> HIDE DEF step
  <2>1. \A i \in DOMAIN results :
            EndOf(results[i]) \in Nat /\ EndOf(results[i]) < at_pos' /\ MatchByte(EndOf(results[i]), mk.keys[results[i].key])
    BY DEF MkInv, MkFound
  <2>2. \A i, j \in DOMAIN results : i < j => EndOf(results[i]) < EndOf(results[j])
    BY DEF MkInv, MkFound
  <2>3. ASSUME NEW s \in 0..len - 2, s < at_pos', EndsAt(s) # {}
        PROVE  \E i \in DOMAIN results : EndOf(results[i]) = s
    <3>1. s \in Nat
      OBVIOUS
    <3>2. s < at_pos
      <4>1. SUFFICES ASSUME s >= at_pos PROVE FALSE
        BY <3>1
      <4>2. s >= at_pos + step
        BY <1>2, <2>3, <3>1, <4>1, NothingPassed DEF step
      <4> QED BY <2>3, <3>1, <4>2
    <3> QED BY <1>2, <2>3, <3>2 DEF MkInv, MkFound
  <2> QED BY <1>2, <2>1, <2>2, <2>3 DEF MkFound
<1> QED BY <1>1, <1>2, <1>4, <1>5 DEF MkInv

\* A comparison finds a key that ends at the position, if one does.
LEMMA BackMatchFinds ==
    ASSUME MkType
    PROVE  LET k == BackMatch(at_pos, Pair(at_pos))
           IN  /\ k # 0 => k \in DOMAIN mk.keys /\ MatchByte(at_pos, mk.keys[k])
               /\ EndsAt(at_pos) # {} => k # 0
<1> DEFINE K == {i \in listarr(Pair(at_pos)) : MatchByte(at_pos, mk.keys[i])}
<1>1. K \in SUBSET Nat /\ K \in SUBSET DOMAIN mk.keys
  BY DEF MkType, listarr
<1>2. K # {} => Min(K) \in K
  BY <1>1, MinIsLeast
<1>3. BackMatch(at_pos, Pair(at_pos)) = IF K = {} THEN 0 ELSE Min(K)
  BY DEF BackMatch
<1>4. 0 \notin DOMAIN mk.keys
  BY DEF MkType
<1>5. ASSUME NEW i \in EndsAt(at_pos) PROVE i \in K
  <2> DEFINE p == mk.keys[i]
  <2>1. i \in DOMAIN mk.keys /\ MatchByte(at_pos, p) /\ Len(p) \in Nat /\ Len(p) >= 2 /\ at_pos \in Nat
    BY DEF EndsAt, MkType
  <2>2. Source(at_pos + 2 - 1) = p[Len(p) + 1 - 1] /\ Source(at_pos + 2 - 2) = p[Len(p) + 1 - 2]
    BY <2>1 DEF MatchByte
  <2>3. Source(at_pos + 1) = p[Len(p)] /\ Source(at_pos) = p[Len(p) - 1]
    BY <2>1, <2>2
  <2> QED BY <2>1, <2>3 DEF listarr, Pair
<1> HIDE DEF K
<1>6. K # {} => Min(K) \in DOMAIN mk.keys /\ MatchByte(at_pos, mk.keys[Min(K)])
  BY <1>1, <1>2 DEF K
<1> QED BY <1>1, <1>2, <1>3, <1>4, <1>5, <1>6

LEMMA MkComparing == MkInv /\ Compares => MkInv'
<1> SUFFICES ASSUME MkInv, Compares PROVE MkInv'
  OBVIOUS
<1> DEFINE k == BackMatch(at_pos, Pair(at_pos))
           r == [res |-> at_pos - (Len(mk.keys[k]) - 2), key |-> k]
<1>1. mk' = mk /\ matching' = matching /\ matching = "searching" /\ at_pos' = at_pos + 1
  BY DEF Compares
<1>2. results' = IF k = 0 THEN results ELSE Append(results, r)
  BY DEF Compares
<1>3. MkType /\ mk.keys # <<>> /\ at_pos \in Nat /\ results \in Seq(MkResult)
  BY <1>1 DEF MkInv, MkType
<1>4. k # 0 => k \in DOMAIN mk.keys /\ MatchByte(at_pos, mk.keys[k])
  BY <1>3, BackMatchFinds
<1>5. EndsAt(at_pos) # {} => k # 0
  BY <1>3, BackMatchFinds
<1> HIDE DEF k
<1>6. k # 0 => r \in MkResult /\ EndOf(r) = at_pos /\ r.key = k
  <2>1. k # 0 => Len(mk.keys[k]) \in Nat
    BY <1>3, <1>4 DEF MkType
  <2>2. k # 0 => at_pos - (Len(mk.keys[k]) - 2) \in Int
    BY <1>3, <2>1
  <2>3. r.key = k /\ r.res = at_pos - (Len(mk.keys[k]) - 2)
    OBVIOUS
  <2>4. k # 0 => r \in MkResult
    BY <1>4, <2>2 DEF MkResult
  <2>5. k # 0 => EndOf(r) = at_pos
    <3>1. EndOf(r) = r.res + Len(mk.keys[r.key]) - 2
      BY DEF EndOf
    <3> HIDE DEF r
    <3> QED BY <1>3, <2>1, <2>3, <3>1
  <2> QED BY <2>3, <2>4, <2>5
<1> HIDE DEF r
<1>7. MkType'
  <2>1. results' \in Seq(MkResult)
    BY <1>2, <1>3, <1>6
  <2> QED BY <1>1, <1>3, <2>1 DEF MkType, MkResult
<1>8. /\ \A i \in DOMAIN results :
            EndOf(results[i]) \in Nat /\ EndOf(results[i]) < at_pos /\ MatchByte(EndOf(results[i]), mk.keys[results[i].key])
      /\ \A i, j \in DOMAIN results : i < j => EndOf(results[i]) < EndOf(results[j])
      /\ \A s \in 0..len - 2 : s < at_pos /\ EndsAt(s) # {} => \E i \in DOMAIN results : EndOf(results[i]) = s
  BY <1>1, <1>3 DEF MkInv, MkFound
<1>9. MkFound'
  <2>1. CASE k = 0
    <3>1. \A s \in 0..len - 2 : s < at_pos + 1 /\ EndsAt(s) # {} => s < at_pos
      BY <1>3, <1>5, <2>1
    <3>2. results' = results
      BY <1>2, <2>1
    <3> QED BY <1>1, <1>3, <1>8, <3>1, <3>2, MkSame DEF MkFound
  <2>2. CASE k # 0
    <3> DEFINE n == Len(results)
    <3>1. results' = Append(results, r) /\ n \in Nat
      BY <1>2, <1>3, <2>2
    <3>2. DOMAIN results' = 1..n + 1 /\ DOMAIN results = 1..n /\ results'[n + 1] = r
          /\ \A i \in 1..n : results'[i] = results[i]
      BY <1>3, <3>1
    <3> DEFINE e(i) == EndOf(results'[i])
    <3>3. /\ \A i \in 1..n : e(i) \in Nat /\ e(i) < at_pos /\ MatchByte(e(i), mk.keys[results'[i].key])
          /\ e(n + 1) = at_pos /\ MatchByte(e(n + 1), mk.keys[results'[n + 1].key])
      BY <1>4, <1>6, <1>8, <2>2, <3>2
    <3>4. \A i \in 1..n + 1 : e(i) \in Nat /\ e(i) < at_pos + 1 /\ MatchByte(e(i), mk.keys[results'[i].key])
      BY <1>3, <3>1, <3>3
    <3>5. \A i, j \in 1..n : i < j => e(i) < e(j)
      BY <1>8, <3>2
    <3>6. \A i, j \in 1..n + 1 : i < j => e(i) < e(j)
      BY <3>1, <3>3, <3>5
    <3>7. ASSUME NEW s \in 0..len - 2, s < at_pos + 1, EndsAt(s) # {} PROVE \E i \in 1..n + 1 : e(i) = s
      <4>1. CASE s = at_pos
        BY <3>1, <3>3, <4>1
      <4>2. CASE s < at_pos
        <5>1. PICK i \in 1..n : EndOf(results[i]) = s
          BY <1>8, <3>2, <3>7, <4>2
        <5> QED BY <3>1, <3>2, <5>1
      <4> QED BY <1>3, <3>7, <4>1, <4>2
    <3> QED BY <1>1, <3>2, <3>4, <3>6, <3>7, MkSame DEF MkFound
  <2> QED BY <2>1, <2>2
<1> QED BY <1>1, <1>3, <1>7, <1>9 DEF MkInv

LEMMA MkReturning == MkInv /\ MatchMainReturns => MkInv'
<1> SUFFICES ASSUME MkInv, MatchMainReturns PROVE MkInv'
  OBVIOUS
<1>1. mk' = mk /\ results' = results /\ at_pos' = at_pos /\ matching = "searching" /\ matching' = "returned" /\ at_pos >= len - 1
  BY DEF MatchMainReturns
<1>2. at_pos \in Nat /\ len \in Nat
  BY DEF MkInv, MkType, len
<1>3. \A s \in 0..len - 2 : s < at_pos
  BY <1>1, <1>2
<1>4. MkType'
  BY <1>1 DEF MkInv, MkType, MkResult
<1>5. MkFound'
  BY <1>1, <1>3, MkSame DEF MkInv, MkFound
<1> QED BY <1>1, <1>4, <1>5 DEF MkInv

\* The steps of MatchMain() jump over no occurrence, for any keys and any text.
THEOREM NoEndMissed == MkSpec => []EndsFound
<1>1. MkInv /\ [MkNext]_mkVars => MkInv'
  <2>1. ASSUME MkInv, UNCHANGED mkVars PROVE MkInv'
    <3>1. mk' = mk /\ results' = results /\ at_pos' = at_pos /\ matching' = matching
      BY <2>1 DEF mkVars
    <3>2. MkType'
      BY <2>1, <3>1 DEF MkInv, MkType, MkResult
    <3>3. MkFound'
      BY <2>1, <3>1, MkSame DEF MkInv, MkFound
    <3> QED BY <2>1, <3>1, <3>2, <3>3 DEF MkInv
  <2> QED BY <2>1, MkAdding, MkStarting, MkMoving, MkComparing, MkReturning DEF MkNext
<1>2. MkInv => EndsFound
  <2> SUFFICES ASSUME MkInv PROVE EndsFound
    OBVIOUS
  <2>1. results \in Seq(MkResult)
    BY DEF MkInv, MkType
  <2>2. \A r \in Range(results) : \E i \in DOMAIN results : r = results[i]
    BY <2>1, InRange
  <2>3. \A i \in DOMAIN results : results[i].key \in DOMAIN mk.keys /\ results[i].res \in Int
    <3>1. \A i \in DOMAIN results : results[i] \in MkResult
      BY <2>1
    <3> QED BY <3>1 DEF MkResult
  <2>4. ASSUME NEW i \in DOMAIN results, results[i].res >= 0
        PROVE  results[i].key \in EndsAt(EndOf(results[i]))
    <3>1. Len(mk.keys[results[i].key]) \in Nat
      <4>1. mk.keys \in Seq(Seq(Int))
        BY DEF MkInv, MkType
      <4> QED BY <2>3, <4>1
    <3>2. EndOf(results[i]) + 2 >= Len(mk.keys[results[i].key])
      BY <2>3, <2>4, <3>1 DEF EndOf
    <3> QED BY <2>3, <3>2 DEF MkInv, MkFound, EndsAt
  <2>5. ASSUME matching = "returned", mk.keys # <<>>, NEW s \in 0..len - 2, EndsAt(s) # {}
        PROVE  s \in {EndOf(r) : r \in Range(results)}
    <3>1. PICK i \in DOMAIN results : EndOf(results[i]) = s
      BY <2>5 DEF MkInv, MkFound
    <3>2. results[i] \in Range(results)
      BY <2>1, InRange
    <3> QED BY <3>1, <3>2
  <2> QED BY <2>2, <2>4, <2>5 DEF EndsFound, MkInv, MkFound
<1> QED BY <1>1, <1>2, MkInitially, PTL DEF MkSpec
-------------------------------------------------------------------------------
(* AcBm: the tree and the shifts.                                            *)

\* n is a prefix of p.
Pre(n, p) == Len(n) <= Len(p) /\ \A k \in 1..Len(n) : n[k] = p[k]
\* n and p differ in the case of their letters at most.
Similar(n, p) == Len(n) = Len(p) /\ \A k \in 1..Len(n) : Lower(n[k]) = Lower(p[k])

\* What AcInit and acbm_init choose.
ListOK ==
    /\ ac.list \in Seq([case_sen : BOOLEAN, data : Seq(Nat)]) /\ ac.list # <<>>
    /\ \A j \in DOMAIN ac.list : Len(ac.list[j].data) >= 1
    /\ ac.text \in Seq(Nat) /\ ac.nmax \in Nat

\* The nodes of any list: what is a node, who added it and whose pattern ends there.
TreeOK ==
    /\ adding \in Nat \ {0}
    /\ Tree \subseteq Seq(Nat) /\ <<>> \in Tree
    /\ \A n \in Tree : \A m \in Seq(Nat) : Pre(m, n) => m \in Tree
    /\ ac.adder \in [Tree -> 0..Len(ac.list)] /\ \A n \in Tree : n # <<>> => ac.adder[n] >= 1
    /\ ac.label \in [Tree -> Int]
    /\ \A n \in Tree : ac.label[n] >= 0 => ac.label[n] \in DOMAIN ac.list /\ Similar(n, ac.list[ac.label[n]].data)

\* In a list with one case_sen, the nodes are the prefixes of the patterns that are added.
OneFlagTree ==
    /\ \A n \in Tree : n # <<>> => Pre(n, Pattern[ac.adder[n]])
    /\ \A n \in Tree : ac.label[n] >= 0 => Pattern[ac.label[n]] = n
    /\ \A j \in DOMAIN ac.list : j < adding => Pattern[j] \in Tree /\ ac.label[Pattern[j]] >= j

LEMMA LowerIs ==
    ASSUME NEW c \in Nat
    PROVE  /\ Lower(c) \in Nat /\ Lower(Lower(c)) = Lower(c) /\ Lower(c) \notin Capital
           /\ c \notin Capital => Lower(c) = c
BY DEF Lower, Capital

LEMMA FoldIs ==
    ASSUME NEW c \in Nat
    PROVE  Fold(c) \in Nat /\ Fold(Fold(c)) = Fold(c) /\ Lower(Fold(c)) = Lower(c)
BY LowerIs DEF Fold, FoldAs

\* The patterns as the shifts compare them.
LEMMA PatternIs ==
    ASSUME ListOK
    PROVE  /\ Pattern \in Seq(Seq(Nat)) /\ 1 \in DOMAIN Pattern
           /\ DOMAIN Pattern = DOMAIN ac.list /\ DOMAIN ac.list = 1..Len(ac.list) /\ Len(ac.list) \in Nat
           /\ \A j \in DOMAIN ac.list :
                 /\ ac.list[j].data \in Seq(Nat) /\ ac.list[j].case_sen \in BOOLEAN
                 /\ Pattern[j] \in Seq(Nat) /\ Len(Pattern[j]) \in Nat /\ Len(Pattern[j]) >= 1
                 /\ Len(Pattern[j]) = Len(ac.list[j].data)
                 /\ \A k \in 1..Len(Pattern[j]) : ac.list[j].data[k] \in Nat /\ Pattern[j][k] = Fold(ac.list[j].data[k])
<1> DEFINE l == ac.list
<1>1. /\ l \in Seq([case_sen : BOOLEAN, data : Seq(Nat)]) /\ l # <<>>
      /\ \A j \in DOMAIN l : Len(l[j].data) >= 1
  BY DEF ListOK
<1>2. Pattern = [j \in DOMAIN l |-> [k \in DOMAIN l[j].data |-> Fold(l[j].data[k])]]
  BY DEF Pattern
<1> HIDE DEF l
<1>3. DOMAIN l = 1..Len(l) /\ Len(l) \in Nat /\ 1 \in DOMAIN l
  BY <1>1
<1>4. ASSUME NEW j \in DOMAIN l
      PROVE  /\ l[j].data \in Seq(Nat) /\ l[j].case_sen \in BOOLEAN
             /\ Pattern[j] \in Seq(Nat) /\ Len(Pattern[j]) \in Nat /\ Len(Pattern[j]) >= 1
             /\ Len(Pattern[j]) = Len(l[j].data)
             /\ \A k \in 1..Len(Pattern[j]) : l[j].data[k] \in Nat /\ Pattern[j][k] = Fold(l[j].data[k])
  <2> DEFINE d == l[j].data
             e == [k \in DOMAIN d |-> Fold(d[k])]
  <2>1. l[j] \in [case_sen : BOOLEAN, data : Seq(Nat)]
    <3> DEFINE R == [case_sen : BOOLEAN, data : Seq(Nat)]
    <3>1. l \in Seq(R)
      BY <1>1
    <3> HIDE DEF R
    <3>2. l[j] \in R
      BY <3>1
    <3> QED BY <3>2 DEF R
  <2>2. d \in Seq(Nat) /\ l[j].case_sen \in BOOLEAN
    BY <2>1
  <2>3. Len(d) >= 1
    BY <1>1
  <2>4. Pattern[j] = e
    BY <1>2
  <2> HIDE DEF d
  <2>5. DOMAIN d = 1..Len(d) /\ Len(d) \in Nat /\ \A k \in 1..Len(d) : d[k] \in Nat
    BY <2>2
  <2>6. \A k \in 1..Len(d) : Fold(d[k]) \in Nat
    BY <2>5, FoldIs
  <2>7. e \in Seq(Nat) /\ Len(e) = Len(d) /\ \A k \in 1..Len(d) : e[k] = Fold(d[k])
    BY <2>5, <2>6
  <2> HIDE DEF e
  <2>8. /\ Pattern[j] \in Seq(Nat) /\ Len(Pattern[j]) = Len(d)
        /\ \A k \in 1..Len(d) : Pattern[j][k] = Fold(d[k])
    BY <2>4, <2>7
  <2>9. d = l[j].data
    BY DEF d
  <2> QED BY <2>2, <2>3, <2>5, <2>8, <2>9
<1>5. Pattern \in Seq(Seq(Nat)) /\ DOMAIN Pattern = DOMAIN l
  BY <1>2, <1>3, <1>4
<1> QED BY <1>3, <1>4, <1>5 DEF l

LEMMA PreIsPrefix ==
    ASSUME NEW n \in Seq(Nat), NEW p \in Seq(Nat)
    PROVE  IsPrefix(n, p) <=> Pre(n, p)
<1>1. ASSUME NEW l \in 0..Len(p)
      PROVE  /\ SubSeq(p, 1, l) \in Seq(Nat) /\ Len(SubSeq(p, 1, l)) = l
             /\ \A k \in 1..l : SubSeq(p, 1, l)[k] = p[k]
  OBVIOUS
<1>2. SubSeq(n, 1, Len(n)) = n
  OBVIOUS
<1>3. Pre(n, p) => n = SubSeq(p, 1, Len(n))
  <2> SUFFICES ASSUME Pre(n, p) PROVE n = SubSeq(p, 1, Len(n))
    OBVIOUS
  <2>1. Len(n) \in 0..Len(p)
    BY DEF Pre
  <2> DEFINE m == SubSeq(p, 1, Len(n))
  <2>2. m \in Seq(Nat) /\ Len(m) = Len(n) /\ \A k \in 1..Len(n) : m[k] = n[k]
    BY <1>1, <2>1 DEF Pre
  <2> HIDE DEF m
  <2>3. m = n
    BY <2>2, SeqEqual
  <2> QED BY <2>3 DEF m
<1>4. ASSUME NEW l \in 0..Len(p), n = SubSeq(p, 1, l) PROVE Pre(n, p)
  BY <1>1, <1>4 DEF Pre
<1>5. Pre(n, p) => Len(n) \in 0..Len(p)
  BY DEF Pre
<1>6. IsPrefix(n, p) <=> Len(n) <= Len(p) /\ n = SubSeq(p, 1, Len(n))
  BY <1>2 DEF IsPrefix
<1>7. Len(n) <= Len(p) => Len(n) \in 0..Len(p)
  OBVIOUS
<1>8. Pre(n, p) => Len(n) <= Len(p)
  BY DEF Pre
<1> QED BY <1>3, <1>4, <1>5, <1>6, <1>7, <1>8

\* The first k characters of a node are one, and lead to it.
LEMMA PrefixSteps ==
    ASSUME NEW n \in Seq(Nat), NEW k \in 1..Len(n)
    PROVE  /\ SubSeq(n, 1, k - 1) \in Seq(Nat) /\ SubSeq(n, 1, k) \in Seq(Nat)
           /\ SubSeq(n, 1, k) = Append(SubSeq(n, 1, k - 1), n[k]) /\ n[k] \in Nat
           /\ Pre(SubSeq(n, 1, k - 1), n) /\ Pre(SubSeq(n, 1, k), n)
<1>1. k - 1 \in 0..Len(n) /\ k \in 0..Len(n) /\ n[k] \in Nat
  OBVIOUS
<1>2. ASSUME NEW l \in 0..Len(n)
      PROVE  /\ SubSeq(n, 1, l) \in Seq(Nat) /\ Len(SubSeq(n, 1, l)) = l
             /\ \A i \in 1..l : SubSeq(n, 1, l)[i] = n[i]
  OBVIOUS
<1> DEFINE a == SubSeq(n, 1, k - 1)
           b == SubSeq(n, 1, k)
           c == Append(a, n[k])
<1>3. a \in Seq(Nat) /\ Len(a) = k - 1 /\ \A i \in 1..k - 1 : a[i] = n[i]
  BY <1>1, <1>2
<1>4. b \in Seq(Nat) /\ Len(b) = k /\ \A i \in 1..k : b[i] = n[i]
  BY <1>1, <1>2
<1> HIDE DEF a, b
<1>5. c \in Seq(Nat) /\ Len(c) = k /\ \A i \in 1..k : c[i] = n[i]
  <2>1. c \in Seq(Nat) /\ Len(c) = k /\ c[k] = n[k] /\ \A i \in 1..k - 1 : c[i] = a[i]
    BY <1>1, <1>3
  <2>2. \A i \in 1..k : i \in 1..k - 1 \/ i = k
    OBVIOUS
  <2> QED BY <1>3, <2>1, <2>2
<1> HIDE DEF c
<1>6. b = c
  BY <1>4, <1>5, SeqEqual
<1>7. Pre(a, n) /\ Pre(b, n)
  BY <1>1, <1>3, <1>4 DEF Pre
<1> QED BY <1>1, <1>3, <1>4, <1>6, <1>7 DEF a, b, c

\* A string and one character more.
LEMMA AppendIs ==
    ASSUME NEW n \in Seq(Nat), NEW c \in Nat
    PROVE  /\ Append(n, c) \in Seq(Nat) /\ Append(n, c) # <<>> /\ Len(Append(n, c)) = Len(n) + 1 /\ Len(n) \in Nat
           /\ Append(n, c)[Len(n) + 1] = c /\ \A k \in 1..Len(n) : Append(n, c)[k] = n[k]
           /\ \A k \in 1..Len(Append(n, c)) : k \in 1..Len(n) \/ k = Len(n) + 1
OBVIOUS

LEMMA AppendPre ==
    ASSUME NEW n \in Seq(Nat), NEW p \in Seq(Nat), NEW c \in Nat
    PROVE  Pre(Append(n, c), p) <=> Pre(n, p) /\ Len(n) + 1 <= Len(p) /\ p[Len(n) + 1] = c
<1> DEFINE x == Append(n, c)
<1>1. /\ Len(x) = Len(n) + 1 /\ Len(n) \in Nat /\ Len(p) \in Nat /\ x[Len(n) + 1] = c
      /\ \A k \in 1..Len(n) : x[k] = n[k]
      /\ \A k \in 1..Len(x) : k \in 1..Len(n) \/ k = Len(n) + 1
      /\ \A k \in 1..Len(n) : k \in 1..Len(x)
      /\ Len(n) + 1 \in 1..Len(x)
  OBVIOUS
<1> HIDE DEF x
<1>2. ASSUME Pre(x, p) PROVE Pre(n, p) /\ Len(n) + 1 <= Len(p) /\ p[Len(n) + 1] = c
  BY <1>1, <1>2 DEF Pre
<1>3. ASSUME Pre(n, p), Len(n) + 1 <= Len(p), p[Len(n) + 1] = c PROVE Pre(x, p)
  BY <1>1, <1>3 DEF Pre
<1> QED BY <1>2, <1>3 DEF x

\* What a character leads to differs from it in its case at most.
LEMMA ChildOr ==
    ASSUME NEW n, NEW c
    PROVE  child(n, c) = Append(n, c) \/ child(n, c) = Append(n, Lower(c))
BY DEF child

\* In a list with one case_sen, a character leads to a node as the shifts compare it.
LEMMA ChildIs ==
    ASSUME ListOK, TreeOK, OneFlag, OneFlagTree, NEW n \in Seq(Nat), NEW c \in Nat
    PROVE  /\ child(n, c) \in Tree <=> Append(n, Fold(c)) \in Tree
           /\ child(n, c) \in Tree => child(n, c) = Append(n, Fold(c))
<1> DEFINE f == ac.list[1].case_sen
           small == Append(n, Lower(c))
<1>1. Lower(c) \in Nat /\ Fold(c) = IF f THEN c ELSE Lower(c)
  BY LowerIs DEF Fold, FoldAs
<1>2. f \in BOOLEAN
  BY PatternIs
<1>3. ASSUME NEW m \in Tree, m # <<>> PROVE ac.adder[m] \in DOMAIN ac.list /\ (CaseSen(m) <=> f)
  <2>1. ac.adder[m] \in DOMAIN ac.list
    <3>1. ac.adder[m] \in 0..Len(ac.list) /\ ac.adder[m] >= 1
      BY <1>3 DEF TreeOK
    <3>2. DOMAIN ac.list = 1..Len(ac.list) /\ Len(ac.list) \in Nat
      BY PatternIs
    <3> QED BY <3>1, <3>2
  <2> QED BY <2>1 DEF CaseSen, OneFlag
<1>4. small # <<>> /\ small \in Seq(Nat)
  BY <1>1, AppendIs
<1> HIDE DEF f, small
<1>5. CASE f
  <2>1. ~(small \in Tree /\ ~CaseSen(small))
    BY <1>3, <1>4, <1>5
  <2>2. child(n, c) = Append(n, c) /\ Fold(c) = c
    BY <1>1, <1>5, <2>1 DEF child, small
  <2> QED BY <2>2
<1>6. CASE ~f
  <2>1. Append(n, Fold(c)) = small
    BY <1>1, <1>6 DEF small
  <2>2. CASE c \notin Capital
    <3>1. Lower(c) = c
      BY <2>2, LowerIs
    <3>2. child(n, c) = Append(n, c)
      BY <2>2 DEF child
    <3> QED BY <2>1, <3>1, <3>2 DEF small
  <2>3. CASE c \in Capital /\ small \in Tree
    <3>1. ~CaseSen(small)
      BY <1>3, <1>4, <1>6, <2>3
    <3>2. child(n, c) = small
      BY <2>3, <3>1 DEF child, small
    <3> QED BY <2>1, <3>2
  <2>4. CASE c \in Capital /\ small \notin Tree
    <3>1. child(n, c) = Append(n, c)
      BY <2>4 DEF child, small
    <3>2. ASSUME Append(n, c) \in Tree PROVE FALSE
      <4> DEFINE m == Append(n, c)
      <4>1. m # <<>> /\ m \in Seq(Nat)
        BY AppendIs
      <4> DEFINE j == ac.adder[m]
      <4>2. j \in DOMAIN ac.list
        BY <1>3, <3>2, <4>1
      <4>3. Pre(m, Pattern[j])
        BY <3>2, <4>1 DEF OneFlagTree
      <4> HIDE DEF j
      <4>4. Pattern[j] \in Seq(Nat)
        BY <4>2, PatternIs
      <4>5. Len(n) + 1 <= Len(Pattern[j]) /\ Pattern[j][Len(n) + 1] = c
        BY <4>3, <4>4, AppendPre
      <4>6. Len(n) + 1 \in 1..Len(Pattern[j])
        BY <4>4, <4>5
      <4>7. ac.list[j].data[Len(n) + 1] \in Nat /\ c = Fold(ac.list[j].data[Len(n) + 1])
        BY <4>2, <4>5, <4>6, PatternIs
      <4>8. c = Lower(ac.list[j].data[Len(n) + 1])
        BY <1>6, <4>7 DEF Fold, FoldAs, f
      <4> QED BY <2>4, <4>7, <4>8, LowerIs
    <3> QED BY <2>1, <2>4, <3>1, <3>2
  <2> QED BY <2>2, <2>3, <2>4
<1> QED BY <1>2, <1>5, <1>6

\* There, a pattern leads to every node that is a prefix of it.
LEMMA LeadsIs ==
    ASSUME ListOK, TreeOK, OneFlag, OneFlagTree, NEW n \in Tree, NEW j \in DOMAIN ac.list, Pre(n, Pattern[j])
    PROVE  Leads(j, n)
<1> DEFINE d == ac.list[j].data
<1>1. n \in Seq(Nat) /\ \A m \in Seq(Nat) : Pre(m, n) => m \in Tree
  BY DEF TreeOK
<1>2. d \in Seq(Nat) /\ Len(Pattern[j]) = Len(d) /\ \A k \in 1..Len(Pattern[j]) : d[k] \in Nat /\ Pattern[j][k] = Fold(d[k])
  BY PatternIs
<1> HIDE DEF d
<1>3. Len(n) <= Len(d) /\ Len(n) \in Nat /\ Len(d) \in Nat
  BY <1>1, <1>2 DEF Pre
<1>4. ASSUME NEW k \in 1..Len(n) PROVE child(SubSeq(n, 1, k - 1), d[k]) = SubSeq(n, 1, k)
  <2>1. d[k] \in Nat /\ n[k] = Fold(d[k])
    <3>1. k \in 1..Len(Pattern[j])
      BY <1>2, <1>3
    <3> QED BY <1>2, <3>1 DEF Pre
  <2>2. /\ SubSeq(n, 1, k - 1) \in Seq(Nat) /\ SubSeq(n, 1, k) \in Seq(Nat)
        /\ SubSeq(n, 1, k) = Append(SubSeq(n, 1, k - 1), n[k]) /\ Pre(SubSeq(n, 1, k), n)
    BY <1>1, PrefixSteps
  <2>3. SubSeq(n, 1, k) \in Tree
    BY <1>1, <2>2
  <2> QED BY <2>1, <2>2, <2>3, ChildIs
<1> QED BY <1>3, <1>4 DEF Leads, d

LEMMA MinSize ==
    ASSUME ListOK
    PROVE  /\ min_pattern_size \in Nat /\ min_pattern_size >= 1
           /\ \A j \in DOMAIN Pattern : min_pattern_size <= Len(Pattern[j])
<1> DEFINE S == {Len(p) : p \in Range(Pattern)}
<1>1. /\ Pattern \in Seq(Seq(Nat)) /\ 1 \in DOMAIN Pattern
      /\ \A j \in DOMAIN Pattern : Len(Pattern[j]) \in Nat /\ Len(Pattern[j]) >= 1
  BY PatternIs
<1>2. \A j \in DOMAIN Pattern : Len(Pattern[j]) \in S
  BY <1>1, InRange
<1>3. \A n \in S : n \in Nat /\ n >= 1
  BY <1>1, InRange
<1>4. Min(S) \in S /\ \A n \in S : Min(S) <= n
  BY <1>1, <1>2, <1>3, MinIsLeast
<1>5. min_pattern_size = Min(S)
  BY DEF min_pattern_size
<1> HIDE DEF S
<1> QED BY <1>2, <1>3, <1>4, <1>5

\* The last child that was added is a child.
LEMMA OneChild ==
    ASSUME ListOK, TreeOK, NEW n, childs(n) # {}
    PROVE  one_child(n) \in childs(n)
<1> DEFINE b == Len(ac.list)
           adder(m) == ac.adder[m]
           D == {b - adder(m) : m \in childs(n)}
<1>1. b \in Nat
  BY PatternIs
<1>2. ASSUME NEW m \in childs(n) PROVE adder(m) \in 0..b
  BY DEF TreeOK, childs
<1>7. one_child(n) = CHOOSE x \in childs(n) : \A k \in childs(n) : adder(k) <= adder(x)
  BY DEF one_child
<1> HIDE DEF adder, b
<1>3. D \in SUBSET Nat /\ D # {}
  BY <1>1, <1>2
<1>4. Min(D) \in D /\ \A d \in D : Min(D) <= d
  BY <1>3, MinIsLeast
<1>5. PICK m \in childs(n) : Min(D) = b - adder(m)
  BY <1>4
<1>6. ASSUME NEW k \in childs(n) PROVE adder(k) <= adder(m)
  <2>1. b - adder(m) <= b - adder(k)
    BY <1>4, <1>5
  <2> QED BY <1>1, <1>2, <2>1
<1> QED BY <1>6, <1>7

LEMMA BadCharacter ==
    ASSUME ListOK, NEW c
    PROVE  /\ BCshift(c) \in Nat /\ BCshift(c) <= min_pattern_size
           /\ \A i \in 1..min_pattern_size - 1 :
                 \A j \in DOMAIN Pattern : Pattern[j][i + 1] = Fold(c) => BCshift(c) <= i
<1> DEFINE S == {i \in 1..min_pattern_size - 1 : \E p \in Range(Pattern) : p[i + 1] = Fold(c)}
           D == {min_pattern_size} \cup S
<1>1. min_pattern_size \in Nat
  BY MinSize
<1>2. D \in SUBSET Nat
  BY <1>1
<1>3. Min(D) \in D /\ \A n \in D : Min(D) <= n
  BY <1>2, MinIsLeast
<1>4. BCshift(c) = Min(D)
  BY DEF BCshift
<1>5. Pattern \in Seq(Seq(Nat))
  BY PatternIs
<1>6. ASSUME NEW i \in 1..min_pattern_size - 1, NEW j \in DOMAIN Pattern, Pattern[j][i + 1] = Fold(c)
      PROVE  i \in D
  BY <1>5, <1>6, InRange
<1>7. min_pattern_size \in D
  OBVIOUS
<1> HIDE DEF D
<1> QED BY <1>2, <1>3, <1>4, <1>6, <1>7

\* The characters two patterns have in common, from their definition.
LEMMA CommonIs ==
    ASSUME NEW p \in Seq(Nat), NEW q \in Seq(Nat), NEW o \in Nat, NEW k \in Nat,
           k <= Len(p), o + k <= Len(q),
           \A i \in 1..k : p[i] = q[o + i],
           k = Len(p) \/ o + k = Len(q) \/ p[k + 1] # q[o + k + 1]
    PROVE  Common(p, q, o) = k
<1> DEFINE M == {Len(p), Len(q) - o}
           b == Min(M)
           S == {n \in 0..b : \A i \in 1..n : p[i] = q[o + i]}
<1>1. M \in SUBSET Nat
  OBVIOUS
<1>2. b \in M /\ \A n \in M : b <= n
  BY <1>1, MinIsLeast
<1>3. b \in Nat /\ b <= Len(p) /\ b <= Len(q) - o /\ (b = Len(p) \/ b = Len(q) - o)
  BY <1>1, <1>2
<1> HIDE DEF b, M
<1>4. k \in S
  <2>1. k \in 0..b
    BY <1>3
  <2> QED BY <2>1
<1>5. S \in SUBSET (0..b)
  OBVIOUS
<1>6. Max(S) \in S /\ \A n \in S : n <= Max(S)
  BY <1>3, <1>4, <1>5, MaxIsGreatest
<1>7. Max(S) \in 0..b /\ \A i \in 1..Max(S) : p[i] = q[o + i]
  BY <1>6
<1>8. k <= Max(S)
  BY <1>4, <1>6
<1>9. Common(p, q, o) = Max(S)
  BY DEF Common, b, M
<1> HIDE DEF S
<1>10. ASSUME k < Max(S) PROVE FALSE
  <2>1. k < Len(p) /\ o + k < Len(q) /\ k + 1 \in 1..Max(S)
    BY <1>3, <1>7, <1>10, SMTT(30)
  <2>2. p[k + 1] = q[o + (k + 1)]
    BY <1>7, <2>1
  <2>3. o + (k + 1) = o + k + 1
    OBVIOUS
  <2> QED BY <2>1, <2>2, <2>3
<1> QED BY <1>3, <1>7, <1>8, <1>9, <1>10

\* What compute_GSshift() sets, without its LETs.
First(p, q) == {i \in 1..Len(q) : i = Len(q) \/ q[i + 1] # p[1]}
Offsets(p, q) == {o \in 1..Len(q) - 1 : o <= min_pattern_size /\ q[o + 1] = p[1]}
SetAt(p, q, o) ==
    LET k == Common(p, q, o)
    IN  IF k = Len(p) THEN {}
        ELSE IF o + k = Len(q) THEN {<<j + 1, o>> : j \in k..Len(p) - 1}
        ELSE {<<k + 1, o>>}

LEMMA PairShiftsIs ==
    ASSUME NEW p, NEW q
    PROVE  PairShifts(p, q) = {<<1, Min(First(p, q))>>} \cup UNION {SetAt(p, q, o) : o \in Offsets(p, q)}
BY DEF PairShifts, First, Offsets, SetAt

LEMMA FirstIs ==
    ASSUME NEW p \in Seq(Nat), NEW q \in Seq(Nat), Len(q) >= 1
    PROVE  Min(First(p, q)) \in Nat /\ Min(First(p, q)) >= 1 /\ \A i \in First(p, q) : Min(First(p, q)) <= i
<1> DEFINE F == First(p, q)
<1>1. Len(q) \in F /\ F \in SUBSET Nat /\ \A i \in F : i >= 1
  BY DEF First
<1>2. Min(F) \in F /\ \A i \in F : Min(F) <= i
  BY <1>1, MinIsLeast
<1> QED BY <1>1, <1>2

LEMMA PairShiftsPositive ==
    ASSUME NEW p \in Seq(Nat), NEW q \in Seq(Nat), Len(q) >= 1, NEW s \in PairShifts(p, q)
    PROVE  s[2] \in Nat /\ s[2] >= 1
<1>1. CASE s = <<1, Min(First(p, q))>>
  BY <1>1, FirstIs
<1>2. ASSUME NEW o \in Offsets(p, q), s \in SetAt(p, q, o) PROVE s[2] = o
  BY <1>2 DEF SetAt
<1>3. \A o \in Offsets(p, q) : o \in Nat /\ o >= 1
  BY DEF Offsets
<1> QED BY <1>1, <1>2, <1>3, PairShiftsIs
\* Good suffix shifts that were set are at least 1; the others are 0.
LEMMA GoodSuffix ==
    ASSUME ListOK, NEW n
    PROVE  /\ Visited(n) => GSshift(n) \in Nat /\ GSshift(n) >= 1 /\ GSshift(n) <= min_pattern_size
           /\ Visited(n) =>
                 \A a, b \in DOMAIN Pattern : \A s \in PairShifts(Pattern[a], Pattern[b]) :
                    Leads(a, n) /\ s[1] = Len(n) => GSshift(n) <= s[2]
           /\ ~Visited(n) => GSshift(n) = 0
<1> DEFINE A == {Pattern[i] : i \in {i \in DOMAIN Pattern : Leads(i, n)}}
           U == UNION {PairShifts(p, q) : p \in A, q \in Range(Pattern)}
           S == {s \in U : s[1] = Len(n)}
           D == {min_pattern_size} \cup {s[2] : s \in S}
<1>1. Pattern \in Seq(Seq(Nat)) /\ \A j \in DOMAIN Pattern : Pattern[j] \in Seq(Nat) /\ Len(Pattern[j]) >= 1
  BY PatternIs
<1>2. \A p \in Range(Pattern) : p \in Seq(Nat) /\ Len(p) >= 1
  BY <1>1, InRange
<1>3. min_pattern_size \in Nat /\ min_pattern_size >= 1
  BY MinSize
<1>4. ASSUME NEW s \in S PROVE s[2] \in Nat /\ s[2] >= 1
  <2>1. PICK p \in A, q \in Range(Pattern) : s \in PairShifts(p, q)
    OBVIOUS
  <2> QED BY <1>1, <1>2, <2>1, PairShiftsPositive
<1>5. D \in SUBSET Nat /\ \A d \in D : d >= 1
  BY <1>3, <1>4
<1>9. min_pattern_size \in D
  OBVIOUS
<1>6. Min(D) \in D /\ \A d \in D : Min(D) <= d
  <2> HIDE DEF D
  <2> QED BY <1>5, <1>9, MinIsLeast
<1>7. GSshift(n) = IF Visited(n) THEN Min(D) ELSE 0
  BY DEF GSshift
<1>8. ASSUME NEW a \in DOMAIN Pattern, NEW b \in DOMAIN Pattern, NEW s \in PairShifts(Pattern[a], Pattern[b]),
             Leads(a, n), s[1] = Len(n)
      PROVE  s[2] \in D
  <2>1. Pattern[a] \in A /\ Pattern[b] \in Range(Pattern)
    BY <1>1, <1>8, InRange
  <2>2. s \in S
    BY <1>8, <2>1
  <2> QED BY <2>2
<1> HIDE DEF D
<1> QED BY <1>5, <1>6, <1>7, <1>8, <1>9

\* In a list with one case_sen, it is at most what any pair of patterns sets.
LEMMA GoodSuffixOneFlag ==
    ASSUME ListOK, TreeOK, OneFlag, OneFlagTree, NEW n \in Tree, Visited(n)
    PROVE  \A a, b \in DOMAIN Pattern : \A s \in PairShifts(Pattern[a], Pattern[b]) :
              Pre(n, Pattern[a]) /\ s[1] = Len(n) => GSshift(n) <= s[2]
BY GoodSuffix, LeadsIs, PatternIs
-------------------------------------------------------------------------------
(* AcBm: no shift passes an occurrence.                                       *)

TextAt(i) == Fold(ac.text[i])
\* Pattern q is in the text at offset o.
OccursAt(q, o) == o + Len(q) <= Len(ac.text) /\ \A k \in 1..Len(q) : q[k] = TextAt(o + k)

\* The shifts have been computed.
ShiftsSet ==
    /\ ac.bc = [c \in Range(ac.text) |-> BCshift(c)]
    /\ ac.gs = [n \in Tree |-> GSshift(n)]

\* The text from base_index on leads to tree_node.
OnPath ==
    /\ tree_node \in Tree
    /\ tree_node # <<>> => base_index + Len(tree_node) <= Len(ac.text)
    /\ \A k \in 1..Len(tree_node) : Lower(tree_node[k]) = Lower(ac.text[base_index + k])
    /\ OneFlag => \A k \in 1..Len(tree_node) : tree_node[k] = TextAt(base_index + k)

\* The tree of a list with one case_sen is complete.
Whole == ListOK /\ TreeOK /\ OneFlag /\ OneFlagTree /\ adding > Len(ac.list)

\* Its nodes are the prefixes of the patterns.
LEMMA TreeIs ==
    ASSUME Whole
    PROVE  /\ \A n \in Tree : \E j \in DOMAIN Pattern : Pre(n, Pattern[j])
           /\ \A n \in Seq(Nat) : \A j \in DOMAIN Pattern : Pre(n, Pattern[j]) => n \in Tree
<1>1. ListOK /\ TreeOK /\ OneFlagTree /\ adding > Len(ac.list) /\ adding \in Nat
  BY DEF Whole, TreeOK
<1>2. /\ 1 \in DOMAIN Pattern /\ DOMAIN Pattern = DOMAIN ac.list /\ DOMAIN ac.list = 1..Len(ac.list) /\ Len(ac.list) \in Nat
      /\ \A j \in DOMAIN Pattern : Pattern[j] \in Seq(Nat)
  BY <1>1, PatternIs
<1>3. ASSUME NEW n \in Tree PROVE \E j \in DOMAIN Pattern : Pre(n, Pattern[j])
  <2>1. CASE n = <<>>
    <3>1. Pre(n, Pattern[1])
      BY <1>2, <2>1 DEF Pre
    <3> QED BY <1>2, <3>1
  <2>2. CASE n # <<>>
    <3>1. ac.adder[n] \in 0..Len(ac.list) /\ ac.adder[n] >= 1 /\ Pre(n, Pattern[ac.adder[n]])
      BY <1>1, <2>2 DEF TreeOK, OneFlagTree
    <3>2. ac.adder[n] \in DOMAIN Pattern
      BY <1>2, <3>1
    <3> QED BY <3>1, <3>2
  <2> QED BY <2>1, <2>2
<1>4. ASSUME NEW n \in Seq(Nat), NEW j \in DOMAIN Pattern, Pre(n, Pattern[j]) PROVE n \in Tree
  <2>1. j < adding
    <3>1. j \in 1..Len(ac.list)
      BY <1>2
    <3> QED BY <1>1, <1>2, <3>1
  <2>2. Pattern[j] \in Tree
    BY <1>1, <1>2, <2>1 DEF OneFlagTree
  <2> QED BY <1>1, <1>4, <2>2 DEF TreeOK
<1> QED BY <1>3, <1>4

\* There, the text leads on if the node with its character is in the tree.
LEMMA OnwardIs ==
    ASSUME Whole, OnPath, base_index \in Nat
    PROVE  /\ Onward <=> /\ base_index + Len(tree_node) < Len(ac.text)
                          /\ Append(tree_node, TextAt(base_index + Len(tree_node) + 1)) \in Tree
           /\ Onward => Below = Append(tree_node, TextAt(base_index + Len(tree_node) + 1))
<1> DEFINE L == Len(tree_node)
           c == ac.text[base_index + L + 1]
<1>1. tree_node \in Seq(Nat) /\ ac.text \in Seq(Nat)
  BY DEF OnPath, Whole, TreeOK, ListOK
<1>2. L \in Nat /\ Len(ac.text) \in Nat /\ DOMAIN ac.text = 1..Len(ac.text)
  BY <1>1
<1>3. cur_index = base_index + L /\ Below = child(tree_node, c) /\ TextAt(base_index + L + 1) = Fold(c)
  BY DEF cur_index, Below, Text, TextAt
<1>4. CASE base_index + L < Len(ac.text)
  <2>1. c \in Nat
    BY <1>1, <1>2, <1>4
  <2>2. /\ child(tree_node, c) \in Tree <=> Append(tree_node, Fold(c)) \in Tree
        /\ child(tree_node, c) \in Tree => child(tree_node, c) = Append(tree_node, Fold(c))
    BY <1>1, <2>1, ChildIs DEF Whole
  <2> QED BY <1>3, <1>4, <2>2 DEF Onward
<1>5. CASE ~(base_index + L < Len(ac.text))
  BY <1>3, <1>5 DEF Onward
<1> QED BY <1>4, <1>5

\* A child of the node the text does not lead past has a good suffix shift that is not
\* larger than the distance to an occurrence in front.
LEMMA GoodSuffixSafe ==
    ASSUME Whole, OnPath, base_index \in Nat, ~Onward, NEW m \in childs(tree_node),
           NEW b \in DOMAIN Pattern, NEW d \in Nat, d >= 1, d <= base_index,
           OccursAt(Pattern[b], base_index - d)
    PROVE  GSshift(m) <= d
<1> DEFINE n == tree_node
           L == Len(n)
           q == Pattern[b]
<1>19. SUFFICES ASSUME Visited(m) PROVE GSshift(m) <= d
  BY GoodSuffix DEF Whole
<1>1. n \in Seq(Nat) /\ L \in Nat /\ m \in Tree /\ m \in Seq(Nat) /\ Len(m) = L + 1 /\ Visited(m)
  BY <1>19 DEF OnPath, childs, Whole, TreeOK
<1>2. PICK a \in DOMAIN Pattern : Pre(m, Pattern[a])
  BY <1>1, TreeIs
<1> DEFINE p == Pattern[a]
<1>3. p \in Seq(Nat) /\ q \in Seq(Nat) /\ Len(q) \in Nat /\ Len(p) \in Nat /\ L + 1 <= Len(p) /\ Len(q) >= 1
  <2>2. p \in Seq(Nat) /\ q \in Seq(Nat) /\ Len(q) >= 1
    BY PatternIs DEF Whole
  <2>3. Len(m) <= Len(p)
    BY <1>2 DEF Pre
  <2> HIDE DEF p, q
  <2> QED BY <1>1, <2>2, <2>3
<1>4. Pre(n, m)
  BY <1>1, PreIsPrefix DEF childs
<1>5. \A k \in 1..L : p[k] = n[k] /\ n[k] = TextAt(base_index + k)
  <2>1. \A k \in 1..Len(n) : n[k] = m[k] /\ n[k] = TextAt(base_index + k)
    BY <1>4 DEF Pre, OnPath, Whole
  <2>2. \A k \in 1..Len(m) : m[k] = p[k]
    BY <1>2 DEF Pre
  <2> HIDE DEF n, p
  <2>3. \A k \in 1..L : k \in 1..Len(m)
    BY <1>1
  <2> QED BY <2>1, <2>2, <2>3
<1>6. \A k \in 1..Len(q) : q[k] = TextAt(base_index - d + k)
  BY DEF OccursAt
<1>17. base_index - d + Len(q) <= Len(ac.text)
  BY DEF OccursAt
<1>7. min_pattern_size \in Nat /\ min_pattern_size <= Len(q) /\ GSshift(m) \in Nat /\ GSshift(m) <= min_pattern_size
  BY <1>1, MinSize, GoodSuffix DEF Whole
<1>8. \A s \in PairShifts(p, q) : s[1] = L + 1 => GSshift(m) <= s[2]
  BY <1>1, <1>2, GoodSuffixOneFlag DEF Whole
<1>9. Len(ac.text) \in Nat
  BY DEF Whole, ListOK
<1>10. n \in Tree
  BY DEF OnPath
<1>11. ~(base_index + L < Len(ac.text) /\ Append(n, TextAt(base_index + L + 1)) \in Tree)
  BY OnwardIs
<1> HIDE DEF n, L, p, q
<1>18. L \in Nat /\ Len(q) \in Nat
  BY <1>1, <1>3
<1>12. \A k \in 1..L : d + k <= Len(q) => p[k] = q[d + k]
  <2> SUFFICES ASSUME NEW k \in 1..L, d + k <= Len(q) PROVE p[k] = q[d + k]
    OBVIOUS
  <2>1. d + k \in 1..Len(q) /\ base_index - d + (d + k) = base_index + k
    BY <1>1, <1>3
  <2>2. q[d + k] = TextAt(base_index - d + (d + k))
    BY <1>6, <2>1
  <2> QED BY <1>5, <2>1, <2>2
<1>13. ASSUME d + L + 1 <= Len(q) PROVE p[L + 1] # q[d + L + 1]
  <2>1. d + L + 1 \in 1..Len(q) /\ base_index - d + (d + L + 1) = base_index + L + 1
    BY <1>1, <1>3, <1>13
  <2>2. q[d + L + 1] = TextAt(base_index + L + 1)
    BY <1>6, <2>1
  <2>3. base_index + L < Len(ac.text)
    BY <1>9, <1>13, <1>17, <1>18
  <2>4. Append(n, p[L + 1]) \in Tree
    <3> DEFINE x == Append(n, p[L + 1])
    <3>1. p[L + 1] \in Nat
      BY <1>1, <1>3
    <3>2. x \in Seq(Nat) /\ Len(x) = L + 1 /\ x[L + 1] = p[L + 1] /\ \A k \in 1..L : x[k] = n[k]
      BY <1>1, <3>1 DEF L
    <3> HIDE DEF x
    <3>3. Pre(x, p)
      <4>1. \A k \in 1..L + 1 : x[k] = p[k]
        <5>1. \A k \in 1..L + 1 : k \in 1..L \/ k = L + 1
          BY <1>18
        <5> QED BY <1>5, <3>2, <5>1
      <4> QED BY <1>3, <3>2, <4>1 DEF Pre
    <3> QED BY <3>2, <3>3, TreeIs DEF p, x
  <2> QED BY <1>11, <2>2, <2>3, <2>4
<1>14. CASE d >= min_pattern_size
  BY <1>7, <1>14
<1>15. CASE d < min_pattern_size /\ L = 0
  <2>1. d \in First(p, q)
    BY <1>3, <1>7, <1>13, <1>15 DEF First
  <2>2. <<1, Min(First(p, q))>> \in PairShifts(p, q)
    BY PairShiftsIs
  <2>3. GSshift(m) <= Min(First(p, q))
    BY <1>8, <1>15, <2>2
  <2> QED BY <1>3, <1>7, <2>1, <2>3, FirstIs
<1>16. CASE d < min_pattern_size /\ L >= 1
  <2>1. d \in Offsets(p, q)
    <3>1. q[d + 1] = p[1]
      BY <1>1, <1>3, <1>7, <1>12, <1>16
    <3> QED BY <1>3, <1>7, <1>16, <3>1 DEF Offsets
  <2>2. <<L + 1, d>> \in SetAt(p, q, d)
    <3>1. CASE d + L + 1 <= Len(q)
      <4>1. Common(p, q, d) = L
        <5>1. \A i \in 1..L : p[i] = q[d + i]
          <6>1. \A i \in 1..L : d + i <= Len(q)
            BY <1>18, <3>1
          <6> QED BY <1>12, <6>1
        <5>2. p[L + 1] # q[d + L + 1]
          BY <1>13, <3>1
        <5>3. L <= Len(p) /\ d + L <= Len(q)
          BY <1>1, <1>3, <3>1
        <5> QED BY <1>1, <1>3, <5>1, <5>2, <5>3, CommonIs
      <4>2. L # Len(p) /\ d + L # Len(q)
        BY <1>1, <1>3, <3>1
      <4> QED BY <4>1, <4>2 DEF SetAt
    <3>2. CASE d + L + 1 > Len(q)
      <4> DEFINE k == Len(q) - d
      <4>1. k \in Nat /\ k <= L /\ k < Len(p) /\ d + k = Len(q)
        BY <1>1, <1>3, <1>7, <1>16, <3>2, SMTT(30)
      <4> HIDE DEF k
      <4>2. \A i \in 1..k : p[i] = q[d + i]
        <5>1. \A i \in 1..k : i \in 1..L /\ d + i <= Len(q)
          BY <1>1, <1>3, <4>1
        <5> QED BY <1>12, <5>1
      <4>3. Common(p, q, d) = k
        <5>1. k <= Len(p) /\ d + k <= Len(q)
          BY <1>3, <4>1
        <5> QED BY <1>3, <4>1, <4>2, <5>1, CommonIs
      <4>4. k # Len(p) /\ L \in k..Len(p) - 1
        BY <1>1, <1>3, <4>1
      <4> QED BY <4>1, <4>3, <4>4 DEF SetAt
    <3> QED BY <1>1, <1>3, <3>1, <3>2
  <2>3. <<L + 1, d>> \in PairShifts(p, q)
    BY <2>1, <2>2, PairShiftsIs
  <2> QED BY <1>8, <2>3
<1> QED BY <1>1, <1>7, <1>14, <1>15, <1>16

\* Neither is the bad character shift.
LEMMA BadCharacterSafe ==
    ASSUME ListOK, TreeOK, ShiftsSet, OnPath, base_index \in Nat,
           NEW b \in DOMAIN Pattern, NEW d \in Nat, d >= 1, d <= base_index,
           OccursAt(Pattern[b], base_index - d)
    PROVE  bc_shift \in Int /\ bc_shift <= d
<1> DEFINE L == Len(tree_node)
           q == Pattern[b]
<1>1. L \in Nat /\ Len(ac.text) \in Nat /\ q \in Seq(Nat) /\ Len(q) \in Nat
  <2>1. tree_node \in Seq(Nat)
    BY DEF OnPath, TreeOK
  <2>2. ac.text \in Seq(Nat) /\ Pattern \in Seq(Seq(Nat))
    BY PatternIs DEF ListOK
  <2> QED BY <2>1, <2>2
<1>2. CASE base_index + L >= Len(ac.text)
  <2>1. bc_shift = 1
    BY <1>1, <1>2 DEF bc_shift, cur_index
  <2> QED BY <2>1
<1>3. CASE base_index + L < Len(ac.text)
  <2> DEFINE c == ac.text[base_index + L + 1]
  <2>1. base_index + L + 1 \in DOMAIN ac.text /\ c \in Range(ac.text)
    <3>1. ac.text \in Seq(Nat)
      BY DEF ListOK
    <3>2. base_index + L + 1 \in DOMAIN ac.text
      BY <1>1, <1>3, <3>1
    <3> QED BY <3>1, <3>2, InRange
  <2>2. bc_shift = BCshift(c) + base_index - (base_index + L)
    BY <1>1, <1>3, <2>1 DEF bc_shift, cur_index, Text, ShiftsSet
  <2>3. BCshift(c) \in Nat /\ BCshift(c) <= min_pattern_size
    BY BadCharacter
  <2>4. bc_shift = BCshift(c) - L
    BY <1>1, <2>2, <2>3
  <2>5. min_pattern_size \in Nat /\ min_pattern_size <= Len(q)
    BY MinSize
  <2>6. SUFFICES ASSUME L + d < BCshift(c) PROVE FALSE
    BY <1>1, <2>3, <2>4
  <2>7. L + d \in 1..min_pattern_size - 1 /\ L + d + 1 \in 1..Len(q) /\ base_index - d + (L + d + 1) = base_index + L + 1
    BY <1>1, <2>3, <2>5, <2>6
  <2>8. q[L + d + 1] = TextAt(base_index - d + (L + d + 1))
    BY <2>7 DEF OccursAt
  <2>9. q[L + d + 1] = Fold(c)
    BY <2>7, <2>8 DEF TextAt
  <2>10. BCshift(c) <= L + d
    BY <2>7, <2>9, BadCharacter
  <2> QED BY <1>1, <2>3, <2>6, <2>10
<1> QED BY <1>1, <1>2, <1>3

\* A shift, 0 included, is a number.
LEMMA ShiftType ==
    ASSUME ListOK, TreeOK, ShiftsSet, OnPath, base_index \in Nat
    PROVE  real_shift \in Int /\ bc_shift \in Int
<1>1. Len(tree_node) \in Nat
  <2>1. tree_node \in Seq(Nat)
    BY DEF OnPath, TreeOK
  <2> QED BY <2>1
<1>2. ac.text \in Seq(Nat) /\ Len(ac.text) \in Nat
  BY DEF ListOK
<1>3. bc_shift \in Int
  <2>1. CASE base_index + Len(tree_node) < Len(ac.text)
    <3> DEFINE c == ac.text[base_index + Len(tree_node) + 1]
    <3>1. c \in Range(ac.text)
      BY <1>1, <1>2, <2>1, InRange
    <3>2. bc_shift = BCshift(c) + base_index - (base_index + Len(tree_node))
      BY <1>1, <1>2, <2>1, <3>1 DEF bc_shift, cur_index, Text, ShiftsSet
    <3> QED BY <1>1, <3>2, BadCharacter
  <2>2. CASE ~(base_index + Len(tree_node) < Len(ac.text))
    BY <2>2 DEF bc_shift, cur_index
  <2> QED BY <2>1, <2>2
<1>4. CASE childs(tree_node) = {}
  BY <1>3, <1>4 DEF real_shift
<1>5. CASE childs(tree_node) # {}
  <2> DEFINE g == ac.gs[one_child(tree_node)]
             r == bc_shift
  <2>1. one_child(tree_node) \in Tree
    BY <1>5, OneChild DEF childs
  <2>2. g \in Int
    <3>1. g = GSshift(one_child(tree_node))
      BY <2>1 DEF ShiftsSet
    <3>2. CASE Visited(one_child(tree_node))
      BY <2>1, <3>1, <3>2, GoodSuffix
    <3>3. CASE ~Visited(one_child(tree_node))
      BY <3>1, <3>3 DEF GSshift
    <3> QED BY <3>2, <3>3
  <2>3. r \in Int /\ real_shift = Max({g, r})
    BY <1>3, <1>5 DEF real_shift
  <2> HIDE DEF g, r
  <2>4. real_shift = IF g >= r THEN g ELSE r
    BY <2>2, <2>3, MaxOfTwo
  <2>5. real_shift \in Int
    BY <2>2, <2>3, <2>4
  <2> QED BY <1>3, <2>5
<1> QED BY <1>4, <1>5

\* A shift moves the tree, unless the search is stuck.
LEMMA ShiftMoves ==
    ASSUME ListOK, TreeOK, ShiftsSet, OnPath, Searching, base_index \in Nat, ~Onward
    PROVE  /\ real_shift \in Int /\ (Stuck => real_shift = 0)
           /\ ~Stuck => real_shift >= 1
<1>1. CASE childs(tree_node) = {}
  BY <1>1 DEF real_shift, Stuck
<1>2. CASE childs(tree_node) # {}
  <2> DEFINE m == one_child(tree_node)
             g == GSshift(m)
             r == bc_shift
  <2>1. m \in Tree
    BY <1>2, OneChild DEF childs
  <2>2. ac.gs[m] = g
    BY <2>1 DEF ShiftsSet
  <2>3. r \in Int
    BY ShiftType
  <2>4. real_shift = Max({g, r})
    BY <1>2, <2>2 DEF real_shift
  <2>5. (Visited(m) => g \in Nat /\ g >= 1) /\ (~Visited(m) => g = 0)
    BY GoodSuffix
  <2>6. Stuck <=> ~Visited(m) /\ r <= 0
    BY <1>2 DEF Stuck
  <2> HIDE DEF g, r, m
  <2>7. real_shift = IF g >= r THEN g ELSE r
    BY <2>3, <2>4, <2>5, MaxOfTwo
  <2> QED BY <2>3, <2>5, <2>6, <2>7
<1> QED BY <1>1, <1>2

\* In a list with one case_sen, it passes no occurrence.
LEMMA ShiftSafe ==
    ASSUME Whole, ShiftsSet, OnPath, base_index \in Nat, ~Onward
    PROVE  \A b \in DOMAIN Pattern : \A o \in Nat :
              o < base_index /\ OccursAt(Pattern[b], o) => o <= base_index - real_shift
<1>1. CASE childs(tree_node) = {}
  BY <1>1 DEF real_shift
<1>2. CASE childs(tree_node) # {}
  <2> DEFINE m == one_child(tree_node)
             g == GSshift(m)
             r == bc_shift
  <2>1. m \in childs(tree_node) /\ m \in Tree
    BY <1>2, OneChild DEF childs, Whole
  <2>2. ac.gs[m] = g
    BY <2>1 DEF ShiftsSet
  <2>3. r \in Int /\ g \in Nat
    BY ShiftType, GoodSuffix DEF Whole
  <2>4. real_shift = Max({g, r})
    BY <1>2, <2>2 DEF real_shift
  <2>5. ASSUME NEW b \in DOMAIN Pattern, NEW d \in Nat, d >= 1, d <= base_index, OccursAt(Pattern[b], base_index - d)
        PROVE  g <= d /\ r <= d
    BY <2>1, <2>5, GoodSuffixSafe, BadCharacterSafe DEF Whole
  <2> HIDE DEF g, r, m
  <2>6. real_shift = IF g >= r THEN g ELSE r
    BY <2>3, <2>4, MaxOfTwo
  <2>7. ASSUME NEW b \in DOMAIN Pattern, NEW o \in Nat, o < base_index, OccursAt(Pattern[b], o)
        PROVE  o <= base_index - real_shift
    <3> DEFINE d == base_index - o
    <3>1. d \in Nat /\ d >= 1 /\ d <= base_index /\ base_index - d = o
      BY <2>7
    <3> HIDE DEF d
    <3>2. g <= d /\ r <= d
      BY <2>5, <2>7, <3>1
    <3> QED BY <2>3, <2>6, <2>7, <3>1, <3>2
  <2> QED BY <2>7
<1> QED BY <1>1, <1>2
-------------------------------------------------------------------------------
(* AcBm: what the steps preserve.                                            *)

AcFields == {"list", "adder", "label", "bc", "gs", "text", "nmax"}
AcMatch == [pattern_i : DOMAIN ac.list, offset : 0..Len(ac.text)]

AcType ==
    /\ ListOK /\ TreeOK
    /\ ac = [f \in AcFields |-> ac[f]]
    /\ base_index \in Int /\ returned \in BOOLEAN
    /\ matched \in Seq(AcMatch)

\* The characters of the pattern that is added have led to tree_node.
BuildPath ==
    /\ tree_node \in Tree
    /\ adding > Len(ac.list) => tree_node = <<>>
    /\ adding <= Len(ac.list) =>
          /\ Len(tree_node) <= Len(Adding.data)
          /\ \A k \in 1..Len(tree_node) : Lower(tree_node[k]) = Lower(Adding.data[k])
          /\ OneFlag => Pre(tree_node, Pattern[adding])

\* The text has p at offset o, up to the case of its letters.
AlikeAt(p, o) == o + Len(p) <= Len(ac.text) /\ \A k \in 1..Len(p) : Lower(p[k]) = Lower(ac.text[o + k])
\* Pattern b, the last of equal ones, is in the text at offset o.
Right(b, o) == OccursAt(Pattern[b], o) /\ \A j \in DOMAIN Pattern : j > b => Pattern[j] # Pattern[b]
\* The search has been where pattern b at offset o is found.
Passed(b, o) == o > base_index \/ (o = base_index /\ Len(Pattern[b]) <= Len(tree_node))
Returned(b, o) == \E j \in DOMAIN matched : matched[j] = [pattern_i |-> b, offset |-> o]

AcInv ==
    /\ AcType
    /\ OneFlag => OneFlagTree
    /\ left # {} \/ returned => adding > Len(ac.list)
    /\ left = {} /\ ~returned => matched = <<>> /\ BuildPath
    /\ left # {} /\ ~returned => ShiftsSet /\ OnPath
    /\ \A j \in DOMAIN matched : AlikeAt(ac.list[matched[j].pattern_i].data, matched[j].offset)
    /\ AllVisited =>
          /\ \A i, j \in DOMAIN matched : matched[i] = matched[j] => i = j
          /\ ~returned => \A j \in DOMAIN matched : Passed(matched[j].pattern_i, matched[j].offset)
    /\ OneFlag =>
          /\ \A j \in DOMAIN matched : Right(matched[j].pattern_i, matched[j].offset)
          /\ left # {} /\ ~returned =>
                \A b \in DOMAIN Pattern : \A o \in 0..Len(ac.text) : Right(b, o) /\ Passed(b, o) => Returned(b, o)
          /\ returned => \/ Len(matched) = ac.nmax
                         \/ \A b \in DOMAIN Pattern : \A o \in 0..Len(ac.text) : Right(b, o) => Returned(b, o)

\* What is computed from the list and the tree stays while they do.
LEMMA TreeSame ==
    ASSUME ac'.list = ac.list, ac'.adder = ac.adder, ac'.label = ac.label, adding' = adding
    PROVE  /\ Pattern' = Pattern /\ Tree' = Tree /\ min_pattern_size' = min_pattern_size
           /\ TreeOK' <=> TreeOK
           /\ OneFlag' <=> OneFlag
           /\ OneFlagTree' <=> OneFlagTree
           /\ AllVisited' <=> AllVisited
           /\ \A c : Fold(c)' = Fold(c) /\ BCshift(c)' = BCshift(c)
           /\ \A n : label(n)' = label(n) /\ GSshift(n)' = GSshift(n)
<1>1. Pattern' = Pattern /\ Tree' = Tree /\ \A c : Fold(c)' = Fold(c)
  BY DEF Pattern, Tree, Fold
<1>2. min_pattern_size' = min_pattern_size
  BY <1>1 DEF min_pattern_size
<1>3. \A n, c : child(n, c)' = child(n, c)
  BY <1>1 DEF child, CaseSen
<1>4. \A n : Visited(n)' <=> Visited(n)
  BY <1>3 DEF Visited, CaseSen
<1>5. \A i, n : Leads(i, n)' <=> Leads(i, n)
  BY <1>1 DEF Leads, child, CaseSen
<1>6. \A p, q : PairShifts(p, q)' = PairShifts(p, q)
  BY <1>2 DEF PairShifts
<1>7. \A n : GSshift(n)' = GSshift(n)
  BY <1>1, <1>2, <1>4, <1>5, <1>6 DEF GSshift
<1>8. \A c : BCshift(c)' = BCshift(c)
  BY <1>1, <1>2 DEF BCshift
<1>9. (TreeOK' <=> TreeOK) /\ (OneFlag' <=> OneFlag) /\ (OneFlagTree' <=> OneFlagTree) /\ (AllVisited' <=> AllVisited)
  BY <1>1, <1>4 DEF TreeOK, OneFlag, OneFlagTree, AllVisited
<1>10. \A n : label(n)' = label(n)
  BY DEF label
<1> QED BY <1>1, <1>2, <1>7, <1>8, <1>9, <1>10

\* And so does what is computed from the text.
LEMMA AcSame ==
    ASSUME ac'.list = ac.list, ac'.adder = ac.adder, ac'.label = ac.label, ac'.text = ac.text, ac'.nmax = ac.nmax,
           adding' = adding
    PROVE  /\ AcMatch' = AcMatch
           /\ ListOK' <=> ListOK
           /\ \A i : TextAt(i)' = TextAt(i)
           /\ \A b, o : Right(b, o)' <=> Right(b, o)
           /\ \A p, o : AlikeAt(p, o)' <=> AlikeAt(p, o)
<1>1. Pattern' = Pattern /\ \A c : Fold(c)' = Fold(c)
  BY TreeSame
<1>2. \A i : TextAt(i)' = TextAt(i)
  BY <1>1 DEF TextAt, Fold
<1>3. \A b, o : Right(b, o)' <=> Right(b, o)
  BY <1>1, <1>2 DEF Right, OccursAt
<1> QED BY <1>2, <1>3 DEF AcMatch, ListOK, AlikeAt

LEMMA AcInitially == AcInit => AcInv
<1> SUFFICES ASSUME AcInit PROVE AcInv
  OBVIOUS
<1>1. PICK l \in Lists :
          ac = [list |-> l, adder |-> [n \in {<<>>} |-> 0], label |-> [n \in {<<>>} |-> -2], bc |-> <<>>, gs |-> <<>>,
                text |-> <<>>, nmax |-> 0]
  BY DEF AcInit
<1>2. adding = 1 /\ base_index = 0 /\ tree_node = <<>> /\ matched = <<>> /\ returned = FALSE /\ left = {}
  BY DEF AcInit
<1>3. l \in Seq([case_sen : BOOLEAN, data : Seq(Nat)]) /\ l # <<>> /\ \A j \in DOMAIN l : Len(l[j].data) \in 1..PATTERN_LEN
  BY AcBmAssumption
<1>4. ASSUME NEW j \in DOMAIN l PROVE Len(l[j].data) >= 1
  <2> DEFINE x == Len(l[j].data)
  <2>1. x \in 1..PATTERN_LEN
    BY <1>3
  <2> HIDE DEF x
  <2>2. x >= 1
    BY <2>1 DEF PATTERN_LEN
  <2> QED BY <2>2 DEF x
<1>5. ListOK
  BY <1>1, <1>3, <1>4 DEF ListOK
<1>6. /\ Tree = {<<>>} /\ ac.adder \in [Tree -> {0}] /\ ac.label \in [Tree -> {-2}]
      /\ \A n \in Tree : ac.label[n] = -2
  BY <1>1 DEF Tree
<1>7. DOMAIN ac.list = 1..Len(ac.list) /\ Len(ac.list) \in Nat /\ Len(ac.list) >= 1 /\ 1 \in DOMAIN ac.list
  <2>1. DOMAIN ac.list = 1..Len(ac.list) /\ Len(ac.list) \in Nat /\ 1 \in DOMAIN ac.list
    BY <1>5, PatternIs
  <2> QED BY <2>1
<1>8. TreeOK
  <2>1. <<>> \in Seq(Nat) /\ Tree \subseteq Seq(Nat)
    BY <1>6
  <2>2. \A m \in Seq(Nat) : Pre(m, <<>>) => m = <<>>
    BY DEF Pre
  <2>3. 0 \in 0..Len(ac.list)
    BY <1>7
  <2> QED BY <1>2, <1>6, <2>1, <2>2, <2>3 DEF TreeOK
<1>9. OneFlagTree
  BY <1>2, <1>6, <1>7 DEF OneFlagTree
<1>10. ac = [f \in AcFields |-> ac[f]]
  BY <1>1 DEF AcFields
<1>11. matched \in Seq(AcMatch) /\ DOMAIN matched = {} /\ base_index \in Int
  BY <1>2
<1>12. returned \in BOOLEAN
  BY <1>2, Zenon
<1>13. AcType
  BY <1>5, <1>8, <1>10, <1>11, <1>12 DEF AcType
<1>14. BuildPath
  <2>1. tree_node = <<>> /\ Len(tree_node) = 0 /\ tree_node \in Tree
    BY <1>2, <1>6
  <2>2. 1 \in DOMAIN ac.list /\ Len(ac.list[1].data) \in Nat /\ Len(Pattern[1]) \in Nat
    BY <1>5, <1>7, PatternIs
  <2>3. Pre(tree_node, Pattern[1])
    BY <2>1, <2>2 DEF Pre
  <2> QED BY <1>2, <1>7, <2>1, <2>2, <2>3 DEF BuildPath, Adding
<1> QED BY <1>2, <1>9, <1>11, <1>13, <1>14 DEF AcInv

\* While the tree is built, the rest of AcInv holds by itself.
LEMMA BuildingOn ==
    ASSUME AcType', (OneFlag => OneFlagTree)', BuildPath', matched' = <<>>, ~returned', left' = {}
    PROVE  AcInv'
<1>1. DOMAIN matched' = {}
  OBVIOUS
<1> QED BY <1>1 DEF AcInv

LEMMA AcAdding == AcInv /\ AddCharacter => AcInv'
<1> SUFFICES ASSUME AcInv, AddCharacter PROVE AcInv'
  OBVIOUS
<1> DEFINE d == Adding.data
           L == Len(tree_node)
           ch == FoldAs(Adding.case_sen, d[L + 1])
           new == Append(tree_node, ch)
           c == child(tree_node, ch)
<1>1. /\ left = {} /\ ~returned /\ adding <= Len(ac.list) /\ L < Len(d)
      /\ adding' = adding /\ base_index' = base_index /\ matched' = matched /\ returned' = returned /\ left' = left
  BY DEF AddCharacter, Building
<1>2. /\ AcType /\ ListOK /\ TreeOK /\ (OneFlag => OneFlagTree) /\ BuildPath /\ matched = <<>>
  BY <1>1 DEF AcInv, AcType
<1>3. adding \in DOMAIN ac.list /\ adding \in Nat /\ Len(ac.list) \in Nat
  <2>1. adding \in Nat \ {0} /\ DOMAIN ac.list = 1..Len(ac.list) /\ Len(ac.list) \in Nat
    BY <1>2, PatternIs DEF TreeOK
  <2> QED BY <1>1, <2>1
<1>4. /\ d \in Seq(Nat) /\ Adding.case_sen \in BOOLEAN /\ Pattern[adding] \in Seq(Nat) /\ Len(Pattern[adding]) = Len(d)
      /\ \A k \in 1..Len(d) : d[k] \in Nat /\ Pattern[adding][k] = Fold(d[k])
  BY <1>2, <1>3, PatternIs DEF Adding
<1>5. tree_node \in Seq(Nat) /\ tree_node \in Tree /\ L \in Nat
  <2>1. tree_node \in Seq(Nat) /\ tree_node \in Tree
    BY <1>2 DEF BuildPath, TreeOK
  <2> QED BY <2>1
<1>6. L + 1 \in 1..Len(d) /\ d[L + 1] \in Nat
  BY <1>1, <1>4, <1>5
<1>7. ch \in Nat /\ Lower(ch) = Lower(d[L + 1]) /\ Lower(Lower(ch)) = Lower(d[L + 1]) /\ Lower(ch) \in Nat
  <2>1. ch = d[L + 1] \/ ch = Lower(d[L + 1])
    BY DEF FoldAs
  <2> QED BY <1>6, <2>1, LowerIs
<1>8. OneFlag => ch = Pattern[adding][L + 1] /\ Fold(ch) = ch
  <2> SUFFICES ASSUME OneFlag PROVE ch = Pattern[adding][L + 1] /\ Fold(ch) = ch
    OBVIOUS
  <2>1. Adding.case_sen = ac.list[1].case_sen
    BY <1>3 DEF OneFlag, Adding
  <2>2. ch = Fold(d[L + 1])
    BY <2>1 DEF Fold
  <2> QED BY <1>4, <1>6, <2>2, FoldIs
<1>9. /\ tree_node' = IF c \in Tree THEN c ELSE new
      /\ c \in Tree => ac' = ac
      /\ c \notin Tree => ac' = [ac EXCEPT !.adder = Grown(ac.adder, new, adding), !.label = Grown(ac.label, new, -1)]
  BY DEF AddCharacter
<1>10. c = new \/ c = Append(tree_node, Lower(ch))
  BY ChildOr
<1>11. c \notin Tree => c = new
  BY DEF child
<1> HIDE DEF d, L, ch, new, c
<1>12. /\ new \in Seq(Nat) /\ Len(new) = L + 1 /\ new[L + 1] = ch /\ (\A k \in 1..L : new[k] = tree_node[k]) /\ new # <<>>
       /\ \A k \in 1..Len(new) : k \in 1..L \/ k = L + 1
  BY <1>5, <1>7, AppendIs DEF new, L
<1>13. /\ c \in Seq(Nat) /\ Len(c) = L + 1 /\ Lower(c[L + 1]) = Lower(d[L + 1])
       /\ (\A k \in 1..L : c[k] = tree_node[k])
       /\ \A k \in 1..Len(c) : k \in 1..L \/ k = L + 1
  <2>1. ASSUME NEW x \in {ch, Lower(ch)}, c = Append(tree_node, x)
        PROVE  /\ c \in Seq(Nat) /\ Len(c) = L + 1 /\ Lower(c[L + 1]) = Lower(d[L + 1])
               /\ (\A k \in 1..L : c[k] = tree_node[k])
               /\ \A k \in 1..Len(c) : k \in 1..L \/ k = L + 1
    BY <1>5, <1>7, <2>1, AppendIs DEF L
  <2> QED BY <1>10, <2>1 DEF new
<1>14. OneFlag => c = new /\ Pre(new, Pattern[adding])
  <2> SUFFICES ASSUME OneFlag PROVE c = new /\ Pre(new, Pattern[adding])
    OBVIOUS
  <2>1. c \in Tree => c = new
    BY <1>2, <1>5, <1>7, <1>8, ChildIs DEF c, new
  <2>2. Pre(tree_node, Pattern[adding])
    BY <1>1, <1>2 DEF BuildPath
  <2>3. L + 1 <= Len(Pattern[adding]) /\ Pattern[adding][L + 1] = ch
    BY <1>4, <1>6, <1>8
  <2>4. Pre(new, Pattern[adding])
    BY <1>4, <1>5, <1>7, <2>2, <2>3, AppendPre DEF new, L
  <2> QED BY <1>11, <2>1, <2>4
<1>15. tree_node' = c
  BY <1>9, <1>11
<1>16. /\ Len(c) <= Len(d)
       /\ \A k \in 1..Len(c) : Lower(c[k]) = Lower(d[k])
  <2>1. \A k \in 1..L : Lower(tree_node[k]) = Lower(d[k])
    BY <1>1, <1>2 DEF BuildPath, d, L
  <2> QED BY <1>6, <1>13, <2>1
<1>17. CASE c \in Tree
  <2>1. ac' = ac
    BY <1>9, <1>17
  <2>2. /\ Pattern' = Pattern /\ Tree' = Tree /\ AcMatch' = AcMatch /\ ListOK' /\ TreeOK'
        /\ (OneFlag' <=> OneFlag) /\ (OneFlagTree' <=> OneFlagTree)
    BY <1>1, <1>2, <2>1, TreeSame, AcSame
  <2>3. AcType'
    BY <1>1, <1>2, <2>1, <2>2 DEF AcType
  <2>4. Adding' = Adding
    BY <1>1, <2>1 DEF Adding
  <2>5. BuildPath'
    BY <1>1, <1>3, <1>14, <1>15, <1>16, <1>17, <2>1, <2>2, <2>4 DEF BuildPath, Pre, d
  <2> QED BY <1>1, <1>2, <2>2, <2>3, <2>5, BuildingOn
<1>18. CASE c \notin Tree
  <2>1. c = new /\ new \notin Tree
    BY <1>11, <1>18
  <2>2. DOMAIN ac.adder = Tree /\ DOMAIN ac.label = Tree
    BY <1>2 DEF TreeOK, Tree
  <2>3. /\ ac'.list = ac.list /\ ac'.text = ac.text /\ ac'.nmax = ac.nmax
        /\ ac'.adder = Grown(ac.adder, new, adding) /\ ac'.label = Grown(ac.label, new, -1)
        /\ ac' = [f \in AcFields |-> ac'[f]]
    <3> DEFINE x == Grown(ac.adder, new, adding)
               y == Grown(ac.label, new, -1)
    <3>1. ac' = [ac EXCEPT !.adder = x, !.label = y]
      BY <1>9, <1>18
    <3>2. ac = [f \in AcFields |-> ac[f]]
      BY <1>2 DEF AcType
    <3> HIDE DEF x, y
    <3>3. /\ ac'.list = ac.list /\ ac'.text = ac.text /\ ac'.nmax = ac.nmax /\ ac'.adder = x /\ ac'.label = y
      BY <3>1, <3>2 DEF AcFields
    <3>4. ac' = [f \in AcFields |-> ac'[f]]
      BY <3>1, <3>2 DEF AcFields
    <3> QED BY <3>3, <3>4 DEF x, y
  <2>4. /\ Tree' = Tree \cup {new} /\ DOMAIN ac'.label = Tree'
        /\ ac'.adder[new] = adding /\ ac'.label[new] = -1
        /\ \A n \in Tree : ac'.adder[n] = ac.adder[n] /\ ac'.label[n] = ac.label[n]
    BY <2>1, <2>2, <2>3 DEF Grown, Tree
  <2>5. ListOK'
    BY <1>2, <2>3 DEF ListOK
  <2>6. Pattern' = Pattern /\ (OneFlag' <=> OneFlag) /\ AcMatch' = AcMatch
    BY <2>3 DEF Pattern, Fold, OneFlag, AcMatch
  <2>7. TreeOK'
    <3>1. adding' \in Nat \ {0} /\ Tree' \subseteq Seq(Nat) /\ <<>> \in Tree'
      BY <1>1, <1>2, <1>12, <2>4 DEF TreeOK
    <3>2. ASSUME NEW n \in Tree', NEW m \in Seq(Nat), Pre(m, n) PROVE m \in Tree'
      <4>1. CASE n \in Tree
        BY <1>2, <2>4, <3>2, <4>1 DEF TreeOK
      <4>2. CASE n = new
        <5>1. CASE Len(m) = L + 1
          <6>1. \A k \in 1..Len(m) : m[k] = new[k]
            BY <3>2, <4>2 DEF Pre
          <6>2. m = new
            BY <1>12, <5>1, <6>1, SeqEqual
          <6> QED BY <2>4, <6>2
        <5>2. CASE Len(m) # L + 1
          <6>1. Len(m) <= L /\ \A k \in 1..Len(m) : m[k] = new[k] /\ k \in 1..L
            BY <1>5, <1>12, <3>2, <4>2, <5>2 DEF Pre
          <6>2. Pre(m, tree_node)
            BY <1>12, <6>1 DEF Pre, L
          <6> QED BY <1>2, <1>5, <2>4, <6>2 DEF TreeOK
        <5> QED BY <5>1, <5>2
      <4> QED BY <2>4, <4>1, <4>2
    <3>3. ac'.adder \in [Tree' -> 0..Len(ac'.list)] /\ \A n \in Tree' : n # <<>> => ac'.adder[n] >= 1
      <4>1. adding \in 0..Len(ac.list) /\ adding >= 1
        BY <1>1, <1>2, PatternIs DEF TreeOK
      <4>2. \A n \in Tree : ac.adder[n] \in 0..Len(ac.list) /\ (n # <<>> => ac.adder[n] >= 1)
        BY <1>2 DEF TreeOK
      <4>3. \A n \in Tree' : ac'.adder[n] \in 0..Len(ac.list) /\ (n # <<>> => ac'.adder[n] >= 1)
        BY <2>4, <4>1, <4>2
      <4>4. ac'.adder = [n \in Tree' |-> ac'.adder[n]]
        BY <2>2, <2>3, <2>4 DEF Grown
      <4> QED BY <2>3, <4>3, <4>4
    <3>4. ac'.label \in [Tree' -> Int]
      <4>1. \A n \in Tree' : ac'.label[n] \in Int
        BY <1>2, <2>4 DEF TreeOK
      <4>2. ac'.label = [n \in Tree' |-> ac'.label[n]]
        BY <2>2, <2>3, <2>4 DEF Grown
      <4> QED BY <4>1, <4>2
    <3>5. \A n \in Tree' : ac'.label[n] >= 0 =>
             ac'.label[n] \in DOMAIN ac'.list /\ Similar(n, ac'.list[ac'.label[n]].data)
      BY <1>2, <2>3, <2>4 DEF TreeOK
    <3> QED BY <3>1, <3>2, <3>3, <3>4, <3>5 DEF TreeOK, Similar, Pre
  <2>8. OneFlag => OneFlagTree'
    <3> SUFFICES ASSUME OneFlag PROVE OneFlagTree'
      OBVIOUS
    <3>1. OneFlagTree /\ Pre(new, Pattern[adding])
      BY <1>2, <1>14
    <3>2. \A n \in Tree' : n # <<>> => Pre(n, Pattern[ac'.adder[n]])
      BY <2>4, <3>1 DEF OneFlagTree
    <3>3. \A n \in Tree' : ac'.label[n] >= 0 => Pattern[ac'.label[n]] = n
      BY <2>4, <3>1 DEF OneFlagTree
    <3>4. \A j \in DOMAIN ac.list : j < adding => Pattern[j] \in Tree' /\ ac'.label[Pattern[j]] >= j
      BY <2>4, <3>1 DEF OneFlagTree
    <3> QED BY <1>1, <2>3, <2>6, <3>2, <3>3, <3>4 DEF OneFlagTree, Pre
  <2>9. AcType'
    BY <1>1, <1>2, <2>3, <2>5, <2>6, <2>7 DEF AcType
  <2>10. Adding' = Adding
    BY <1>1, <2>3 DEF Adding
  <2>11. BuildPath'
    BY <1>1, <1>3, <1>14, <1>15, <1>16, <2>1, <2>3, <2>4, <2>6, <2>10 DEF BuildPath, Pre, d
  <2> QED BY <1>1, <1>2, <2>6, <2>8, <2>9, <2>11, BuildingOn
<1> QED BY <1>17, <1>18

LEMMA AcLabelling == AcInv /\ LabelLast => AcInv'
<1> SUFFICES ASSUME AcInv, LabelLast PROVE AcInv'
  OBVIOUS
<1> DEFINE d == Adding.data
           x == tree_node
<1>1. /\ left = {} /\ ~returned /\ adding <= Len(ac.list) /\ Len(x) = Len(d)
      /\ ac' = [ac EXCEPT !.label[x] = adding] /\ adding' = adding + 1 /\ tree_node' = <<>>
      /\ base_index' = base_index /\ matched' = matched /\ returned' = returned /\ left' = left
  BY DEF LabelLast, Building
<1>2. /\ AcType /\ ListOK /\ TreeOK /\ (OneFlag => OneFlagTree) /\ BuildPath /\ matched = <<>>
  BY <1>1 DEF AcInv, AcType
<1>3. adding \in DOMAIN ac.list /\ adding \in Nat /\ Len(ac.list) \in Nat /\ DOMAIN ac.list = 1..Len(ac.list)
  <2>1. adding \in Nat \ {0} /\ DOMAIN ac.list = 1..Len(ac.list) /\ Len(ac.list) \in Nat
    BY <1>2, PatternIs DEF TreeOK
  <2> QED BY <1>1, <2>1
<1>4. d = ac.list[adding].data /\ Pattern[adding] \in Seq(Nat) /\ Len(Pattern[adding]) = Len(d)
  BY <1>2, <1>3, PatternIs DEF Adding
<1>5. x \in Tree /\ x \in Seq(Nat) /\ Similar(x, d)
  BY <1>1, <1>2 DEF BuildPath, TreeOK, Similar
<1>6. OneFlag => x = Pattern[adding]
  <2> SUFFICES ASSUME OneFlag PROVE x = Pattern[adding]
    OBVIOUS
  <2>1. Pre(x, Pattern[adding])
    BY <1>1, <1>2 DEF BuildPath
  <2>2. \A k \in 1..Len(x) : x[k] = Pattern[adding][k]
    BY <2>1 DEF Pre
  <2> HIDE DEF x
  <2> QED BY <1>1, <1>4, <1>5, <2>2, SeqEqual
<1> HIDE DEF d, x
<1>7. /\ ac'.list = ac.list /\ ac'.text = ac.text /\ ac'.nmax = ac.nmax /\ ac'.adder = ac.adder
      /\ ac'.label = [ac.label EXCEPT ![x] = adding]
      /\ ac' = [f \in AcFields |-> ac'[f]]
  <2> DEFINE y == [ac.label EXCEPT ![x] = adding]
  <2>1. ac' = [ac EXCEPT !.label = y] /\ ac = [f \in AcFields |-> ac[f]]
    BY <1>1, <1>2 DEF AcType
  <2> HIDE DEF y
  <2>2. /\ ac'.list = ac.list /\ ac'.text = ac.text /\ ac'.nmax = ac.nmax /\ ac'.adder = ac.adder /\ ac'.label = y
    BY <2>1 DEF AcFields
  <2>3. ac' = [f \in AcFields |-> ac'[f]]
    BY <2>1 DEF AcFields
  <2> QED BY <2>2, <2>3 DEF y
<1>8. /\ Pattern' = Pattern /\ Tree' = Tree /\ AcMatch' = AcMatch /\ (OneFlag' <=> OneFlag) /\ (ListOK' <=> ListOK)
  BY <1>7 DEF Pattern, Fold, Tree, AcMatch, OneFlag, ListOK
<1>9. /\ ac'.label \in [Tree -> Int] /\ ac'.label[x] = adding
      /\ \A n \in Tree : n # x => ac'.label[n] = ac.label[n]
  <2>1. ac.label \in [Tree -> Int] /\ adding \in Int
    BY <1>2, <1>3 DEF TreeOK
  <2> QED BY <1>5, <1>7, <2>1
<1>10. TreeOK'
  <2>1. \A n \in Tree : ac'.label[n] >= 0 => ac'.label[n] \in DOMAIN ac.list /\ Similar(n, ac.list[ac'.label[n]].data)
    BY <1>2, <1>3, <1>4, <1>5, <1>9 DEF TreeOK
  <2>2. adding' \in Nat \ {0}
    BY <1>1, <1>3
  <2> QED BY <1>2, <1>7, <1>8, <1>9, <2>1, <2>2 DEF TreeOK, Similar
<1>11. (OneFlag => OneFlagTree)'
  <2> SUFFICES ASSUME OneFlag PROVE OneFlagTree'
    BY <1>8
  <2>1. OneFlagTree
    BY <1>2
  <2>2. \A n \in Tree : ac'.label[n] >= 0 => Pattern[ac'.label[n]] = n
    BY <1>6, <1>9, <2>1 DEF OneFlagTree
  <2>3. ASSUME NEW j \in DOMAIN ac.list, j < adding + 1 PROVE Pattern[j] \in Tree /\ ac'.label[Pattern[j]] >= j
    <3>1. j \in Nat
      BY <1>3
    <3>2. CASE Pattern[j] = x
      BY <1>3, <1>5, <1>9, <2>3, <3>1, <3>2
    <3>3. CASE Pattern[j] # x
      <4>1. j < adding
        BY <1>3, <1>6, <2>3, <3>1, <3>3
      <4> QED BY <1>9, <2>1, <3>3, <4>1 DEF OneFlagTree
    <3> QED BY <3>2, <3>3
  <2> QED BY <1>1, <1>7, <1>8, <2>1, <2>2, <2>3 DEF OneFlagTree
<1>12. AcType'
  BY <1>1, <1>2, <1>7, <1>8, <1>10 DEF AcType
<1>13. BuildPath'
  <2>1. tree_node' = <<>> /\ Len(tree_node') = 0 /\ tree_node' \in Tree'
    BY <1>1, <1>2, <1>8 DEF TreeOK
  <2>2. ASSUME adding' <= Len(ac'.list)
        PROVE  Adding'.data \in Seq(Nat) /\ Len(Adding'.data) \in Nat /\ Len(Pattern'[adding']) \in Nat
    <3>1. adding + 1 \in DOMAIN ac.list
      BY <1>1, <1>3, <1>7, <2>2
    <3>2. ac.list[adding + 1].data \in Seq(Nat) /\ Len(Pattern[adding + 1]) \in Nat
      BY <1>2, <3>1, PatternIs
    <3> QED BY <1>1, <1>7, <1>8, <3>2 DEF Adding
  <2> QED BY <2>1, <2>2 DEF BuildPath, Pre
<1> QED BY <1>1, <1>2, <1>11, <1>12, <1>13, BuildingOn

LEMMA AcBuilt == AcInv /\ acbm_init => AcInv'
<1> SUFFICES ASSUME AcInv, acbm_init PROVE AcInv'
  OBVIOUS
<1>1. left = {} /\ ~returned /\ matched = <<>> /\ BuildPath /\ adding > Len(ac.list)
  BY DEF AcInv, acbm_init
<1>2. PICK t \in Texts, x \in NMax :
          /\ ac' = [ac EXCEPT !.bc = [c \in Range(t) |-> BCshift(c)],
                              !.gs = [n \in Tree |-> GSshift(n)], !.text = t, !.nmax = x]
          /\ base_index' = Len(t) - min_pattern_size
  BY DEF acbm_init
<1>3. /\ matched' = <<>> /\ tree_node' = <<>> /\ returned' = returned /\ left' = Tree /\ adding' = adding
  BY <1>1 DEF acbm_init, BuildPath
<1>4. AcType /\ ListOK /\ TreeOK /\ ac = [f \in AcFields |-> ac[f]] /\ (OneFlag => OneFlagTree)
  BY DEF AcInv, AcType
<1>5. /\ ac'.list = ac.list /\ ac'.adder = ac.adder /\ ac'.label = ac.label /\ ac'.text = t /\ ac'.nmax = x
      /\ ac'.bc = [c \in Range(t) |-> BCshift(c)] /\ ac'.gs = [n \in Tree |-> GSshift(n)]
      /\ ac' = [f \in AcFields |-> ac'[f]]
  <2> DEFINE b == [c \in Range(t) |-> BCshift(c)]
             g == [n \in Tree |-> GSshift(n)]
  <2>1. ac' = [ac EXCEPT !.bc = b, !.gs = g, !.text = t, !.nmax = x]
    BY <1>2
  <2> HIDE DEF b, g
  <2>2. /\ ac'.list = ac.list /\ ac'.adder = ac.adder /\ ac'.label = ac.label /\ ac'.text = t /\ ac'.nmax = x
        /\ ac'.bc = b /\ ac'.gs = g
    BY <1>4, <2>1 DEF AcFields
  <2>3. ac' = [f \in AcFields |-> ac'[f]]
    BY <1>4, <2>1 DEF AcFields
  <2> QED BY <2>2, <2>3 DEF b, g
<1>6. t \in Seq(Nat) /\ Len(t) \in Nat /\ x \in Nat
  BY AcBmAssumption
<1>7. /\ Pattern' = Pattern /\ Tree' = Tree /\ TreeOK' /\ (OneFlag' <=> OneFlag) /\ (OneFlagTree' <=> OneFlagTree)
      /\ (\A c : BCshift(c)' = BCshift(c)) /\ \A n : GSshift(n)' = GSshift(n)
  BY <1>3, <1>4, <1>5, TreeSame
<1>8. ListOK'
  BY <1>4, <1>5, <1>6 DEF ListOK
<1>9. min_pattern_size \in Nat
  BY <1>4, MinSize
<1>10. AcType'
  <2>1. base_index' \in Int /\ returned' \in BOOLEAN
    BY <1>2, <1>3, <1>4, <1>6, <1>9 DEF AcType
  <2>2. matched' \in Seq(AcMatch')
    BY <1>3
  <2> QED BY <1>5, <1>7, <1>8, <2>1, <2>2 DEF AcType
<1>11. ShiftsSet'
  BY <1>5, <1>7 DEF ShiftsSet
<1>12. OnPath'
  <2>1. <<>> \in Tree'
    BY <1>4, <1>7 DEF TreeOK
  <2>2. tree_node' = <<>> /\ Len(tree_node') = 0
    BY <1>3
  <2> QED BY <2>1, <2>2 DEF OnPath
<1>13. ASSUME NEW b \in DOMAIN Pattern', NEW o \in 0..Len(ac'.text)
       PROVE  ~(Right(b, o)' /\ Passed(b, o)')
  <2>1. Right(b, o)' => o + Len(Pattern[b]) <= Len(t)
    BY <1>5, <1>7 DEF Right, OccursAt
  <2>2. Passed(b, o)' => o > base_index' \/ (o = base_index' /\ Len(Pattern[b]) <= 0)
    BY <1>3, <1>7 DEF Passed
  <2>3. min_pattern_size <= Len(Pattern[b]) /\ Len(Pattern[b]) \in Nat /\ Len(Pattern[b]) >= 1 /\ o \in Nat
    <3>1. b \in DOMAIN Pattern /\ o \in 0..Len(t)
      BY <1>5, <1>7, <1>13
    <3>2. min_pattern_size <= Len(Pattern[b]) /\ Len(Pattern[b]) \in Nat /\ Len(Pattern[b]) >= 1
      BY <1>4, <3>1, MinSize, PatternIs
    <3> QED BY <1>6, <3>1, <3>2
  <2> QED BY <1>2, <1>6, <1>9, <2>1, <2>2, <2>3
<1>14. DOMAIN matched' = {} /\ ~returned' /\ left' # {}
  <2>1. Tree # {}
    BY <1>4 DEF TreeOK
  <2> QED BY <1>1, <1>3, <2>1
<1>15. adding' > Len(ac'.list)
  BY <1>1, <1>3, <1>5
<1> QED BY <1>4, <1>7, <1>10, <1>11, <1>12, <1>13, <1>14, <1>15 DEF AcInv

LEMMA AcMatches ==
    ASSUME AcType, NEW j \in DOMAIN matched
    PROVE  /\ matched[j].pattern_i \in DOMAIN ac.list /\ matched[j].offset \in 0..Len(ac.text)
           /\ matched[j].pattern_i \in DOMAIN Pattern
           /\ matched[j] = [pattern_i |-> matched[j].pattern_i, offset |-> matched[j].offset]
<1>1. matched[j] \in AcMatch
  BY DEF AcType
<1>2. DOMAIN Pattern = DOMAIN ac.list
  BY PatternIs DEF AcType
<1> QED BY <1>1, <1>2 DEF AcMatch

\* A step into the tree: the node it leads to, and the pattern that ends there.
LEMMA Deeper ==
    ASSUME ListOK, TreeOK, OnPath, base_index \in Nat, Onward, NEW n, n = Below
    PROVE  /\ n \in Tree /\ n \in Seq(Nat) /\ Len(n) = Len(tree_node) + 1 /\ Len(tree_node) \in Nat
           /\ base_index + Len(n) <= Len(ac.text) /\ base_index < Len(ac.text) /\ Len(ac.text) \in Nat
           /\ \A k \in 1..Len(n) : Lower(n[k]) = Lower(ac.text[base_index + k])
           /\ label(n) \in Int
           /\ label(n) >= 0 => /\ label(n) \in DOMAIN ac.list /\ AlikeAt(ac.list[label(n)].data, base_index)
                               /\ Len(Pattern[label(n)]) = Len(n)
<1> DEFINE L == Len(tree_node)
           c == ac.text[base_index + L + 1]
<1>1. n \in Tree /\ base_index + L < Len(ac.text) /\ n = child(tree_node, c)
  BY DEF Onward, Below, cur_index, Text
<1>2. tree_node \in Seq(Nat) /\ n \in Seq(Nat) /\ ac.text \in Seq(Nat)
  BY <1>1 DEF OnPath, TreeOK, ListOK
<1>3. L \in Nat /\ Len(ac.text) \in Nat
  BY <1>2
<1>4. c \in Nat /\ Lower(c) \in Nat /\ Lower(Lower(c)) = Lower(c)
  <2>1. base_index + L + 1 \in 1..Len(ac.text)
    BY <1>1, <1>3
  <2>2. c \in Nat
    BY <1>2, <2>1
  <2> QED BY <2>2, LowerIs
<1> HIDE DEF c
<1>5. /\ Len(n) = L + 1 /\ Lower(n[L + 1]) = Lower(c) /\ (\A k \in 1..L : n[k] = tree_node[k])
      /\ \A k \in 1..Len(n) : k \in 1..L \/ k = L + 1
  <2>1. ASSUME NEW x \in {c, Lower(c)}, n = Append(tree_node, x)
        PROVE  /\ Len(n) = L + 1 /\ Lower(n[L + 1]) = Lower(c) /\ (\A k \in 1..L : n[k] = tree_node[k])
               /\ \A k \in 1..Len(n) : k \in 1..L \/ k = L + 1
    BY <1>2, <1>4, <2>1, AppendIs
  <2> QED BY <1>1, <2>1, ChildOr
<1>6. \A k \in 1..Len(n) : Lower(n[k]) = Lower(ac.text[base_index + k])
  <2>1. \A k \in 1..L : Lower(n[k]) = Lower(ac.text[base_index + k])
    BY <1>5 DEF OnPath
  <2>2. base_index + L + 1 = base_index + (L + 1)
    BY <1>3
  <2> QED BY <1>5, <2>1, <2>2 DEF c
<1>7. base_index + Len(n) <= Len(ac.text) /\ base_index < Len(ac.text)
  BY <1>1, <1>3, <1>5
<1> DEFINE l == label(n)
<1>8. l \in Int /\ (l >= 0 => l \in DOMAIN ac.list /\ Similar(n, ac.list[l].data))
  BY <1>1 DEF TreeOK, label
<1> HIDE DEF l
<1>9. ASSUME l >= 0 PROVE AlikeAt(ac.list[l].data, base_index) /\ Len(Pattern[l]) = Len(n)
  <2>1. l \in DOMAIN ac.list /\ Similar(n, ac.list[l].data)
    BY <1>8, <1>9
  <2>2. Len(Pattern[l]) = Len(ac.list[l].data)
    BY <2>1, PatternIs
  <2> QED BY <1>6, <1>7, <2>1, <2>2 DEF Similar, AlikeAt
<1> QED BY <1>1, <1>2, <1>3, <1>5, <1>6, <1>7, <1>8, <1>9 DEF l

\* In a list with one case_sen: no other pattern ends there.
LEMMA DeeperOneFlag ==
    ASSUME Whole, OnPath, base_index \in Nat, Onward, NEW n, n = Below
    PROVE  /\ \A k \in 1..Len(n) : n[k] = TextAt(base_index + k)
           /\ label(n) >= 0 => Right(label(n), base_index)
           /\ \A b \in DOMAIN Pattern : Right(b, base_index) /\ Len(Pattern[b]) = Len(n) => label(n) = b /\ label(n) >= 0
<1> DEFINE L == Len(tree_node)
           c == TextAt(base_index + L + 1)
<1>1. /\ n \in Tree /\ n \in Seq(Nat) /\ L \in Nat /\ Len(n) = L + 1 /\ base_index + Len(n) <= Len(ac.text)
      /\ label(n) \in Int
      /\ label(n) >= 0 => label(n) \in DOMAIN ac.list
  BY Deeper DEF Whole
<1>2. n = Append(tree_node, c) /\ tree_node \in Seq(Nat)
  BY OnwardIs DEF OnPath, Whole, TreeOK
<1> HIDE DEF c
<1>3. n[L + 1] = c /\ (\A k \in 1..L : n[k] = tree_node[k]) /\ \A k \in 1..L + 1 : k \in 1..L \/ k = L + 1
  BY <1>1, <1>2
<1>4. \A k \in 1..Len(n) : n[k] = TextAt(base_index + k)
  <2>1. \A k \in 1..L : n[k] = TextAt(base_index + k)
    BY <1>3 DEF OnPath, Whole
  <2>2. base_index + L + 1 = base_index + (L + 1)
    BY <1>1
  <2> QED BY <1>1, <1>3, <2>1, <2>2 DEF c
<1> DEFINE l == label(n)
<1>5. /\ DOMAIN Pattern = DOMAIN ac.list /\ DOMAIN ac.list = 1..Len(ac.list) /\ Len(ac.list) \in Nat
      /\ \A j \in DOMAIN Pattern : Pattern[j] \in Seq(Nat)
  BY PatternIs DEF Whole
<1>6. /\ l >= 0 => Pattern[l] = n
      /\ \A j \in DOMAIN Pattern : Pattern[j] = n => l >= j
  <2>1. OneFlagTree /\ adding > Len(ac.list) /\ adding \in Nat
    BY DEF Whole, TreeOK
  <2>2. l >= 0 => Pattern[l] = n
    BY <1>1, <2>1 DEF OneFlagTree, label
  <2>3. ASSUME NEW j \in DOMAIN Pattern, Pattern[j] = n PROVE l >= j
    <3>1. j \in 1..Len(ac.list)
      BY <1>5
    <3>2. j < adding
      BY <1>5, <2>1, <3>1
    <3> QED BY <1>5, <2>1, <2>3, <3>2 DEF OneFlagTree, label
  <2> QED BY <2>2, <2>3
<1>7. l \in Int /\ (l >= 0 => l \in DOMAIN Pattern)
  BY <1>1, <1>5
<1> HIDE DEF l
<1>8. ASSUME l >= 0 PROVE Right(l, base_index)
  <2>1. OccursAt(Pattern[l], base_index)
    BY <1>1, <1>4, <1>6, <1>8 DEF OccursAt
  <2>2. ASSUME NEW j \in DOMAIN Pattern, j > l PROVE Pattern[j] # Pattern[l]
    <3>1. j \in Int
      BY <1>5
    <3> QED BY <1>6, <1>7, <1>8, <2>2, <3>1
  <2> QED BY <2>1, <2>2 DEF Right
<1>9. ASSUME NEW b \in DOMAIN Pattern, Right(b, base_index), Len(Pattern[b]) = Len(n)
      PROVE  l = b /\ l >= 0
  <2> DEFINE p == Pattern[b]
  <2>1. p \in Seq(Nat) /\ b \in Nat
    BY <1>5
  <2>2. \A k \in 1..Len(p) : p[k] = TextAt(base_index + k)
    BY <1>9 DEF Right, OccursAt
  <2>3. \A k \in 1..Len(p) : p[k] = n[k]
    BY <1>4, <1>9, <2>2
  <2>4. p = n
    BY <1>1, <1>9, <2>1, <2>3, SeqEqual
  <2>5. l >= b /\ Pattern[l] = p /\ l \in DOMAIN Pattern
    BY <1>6, <1>7, <2>1, <2>4
  <2>6. ~(l > b)
    BY <1>9, <2>5 DEF Right
  <2> QED BY <1>7, <2>1, <2>5, <2>6
<1> QED BY <1>4, <1>8, <1>9 DEF l

LEMMA AcDescending == AcInv /\ Descend => AcInv'
<1> SUFFICES ASSUME AcInv, Descend PROVE AcInv'
  OBVIOUS
<1> DEFINE L == Len(tree_node)
           n == Below
           l == label(n)
           new == [pattern_i |-> l, offset |-> base_index]
<1>1. /\ ac' = ac /\ adding' = adding /\ base_index' = base_index /\ left' = left /\ left # {} /\ ~returned
      /\ base_index >= 0 /\ Onward /\ tree_node' = n
  BY DEF Descend, Searching
<1>2. /\ AcType /\ ListOK /\ TreeOK /\ ShiftsSet /\ OnPath /\ base_index \in Nat /\ adding > Len(ac.list)
      /\ (OneFlag => OneFlagTree)
  BY <1>1 DEF AcInv, AcType
<1>3. /\ n \in Tree /\ n \in Seq(Nat) /\ Len(n) = L + 1 /\ L \in Nat
      /\ base_index + Len(n) <= Len(ac.text) /\ base_index < Len(ac.text) /\ Len(ac.text) \in Nat
      /\ \A k \in 1..Len(n) : Lower(n[k]) = Lower(ac.text[base_index + k])
      /\ l >= 0 => l \in DOMAIN ac.list /\ AlikeAt(ac.list[l].data, base_index) /\ Len(Pattern[l]) = L + 1
  BY <1>1, <1>2, Deeper
<1>4. OneFlag =>
         /\ \A k \in 1..Len(n) : n[k] = TextAt(base_index + k)
         /\ l >= 0 => Right(l, base_index)
         /\ \A b \in DOMAIN Pattern : Right(b, base_index) /\ Len(Pattern[b]) = Len(n) => l = b /\ l >= 0
  BY <1>1, <1>2, DeeperOneFlag DEF Whole
<1>5. /\ Pattern' = Pattern /\ Tree' = Tree /\ TreeOK' /\ (OneFlag' <=> OneFlag) /\ (OneFlagTree' <=> OneFlagTree)
      /\ (AllVisited' <=> AllVisited)
      /\ \A c : BCshift(c)' = BCshift(c)
      /\ \A m : label(m)' = label(m) /\ GSshift(m)' = GSshift(m)
  BY <1>1, <1>2, TreeSame
<1>6. /\ AcMatch' = AcMatch /\ ListOK' /\ (\A i : TextAt(i)' = TextAt(i))
      /\ (\A b, o : Right(b, o)' <=> Right(b, o)) /\ \A p, o : AlikeAt(p, o)' <=> AlikeAt(p, o)
  BY <1>1, <1>2, AcSame
<1>7. label(tree_node') = l
  BY <1>1
<1>8. l >= 0 => matched' = Append(matched, new) /\ returned' = (Len(matched') = ac.nmax)
  BY <1>7 DEF Descend
<1>9. ~(l >= 0) => matched' = matched /\ returned' = returned
  BY <1>7 DEF Descend
<1> HIDE DEF n, l
<1>10. /\ matched \in Seq(AcMatch) /\ Len(matched) \in Nat /\ DOMAIN matched = 1..Len(matched)
       /\ \A j \in DOMAIN matched : AlikeAt(ac.list[matched[j].pattern_i].data, matched[j].offset)
       /\ OneFlag => \A j \in DOMAIN matched : Right(matched[j].pattern_i, matched[j].offset)
  <2>1. matched \in Seq(AcMatch)
    BY <1>2 DEF AcType
  <2>2. Len(matched) \in Nat /\ DOMAIN matched = 1..Len(matched)
    BY <2>1
  <2>3. /\ \A j \in DOMAIN matched : AlikeAt(ac.list[matched[j].pattern_i].data, matched[j].offset)
        /\ OneFlag => \A j \in DOMAIN matched : Right(matched[j].pattern_i, matched[j].offset)
    BY DEF AcInv
  <2> QED BY <2>1, <2>2, <2>3
<1>11. ShiftsSet' /\ OnPath'
  <2>1. ShiftsSet'
    BY <1>1, <1>2, <1>5 DEF ShiftsSet
  <2>2. base_index' + Len(tree_node') <= Len(ac'.text) /\ tree_node' \in Tree'
    BY <1>1, <1>3, <1>5
  <2>3. \A k \in 1..Len(tree_node') : Lower(tree_node'[k]) = Lower(ac'.text[base_index' + k])
    BY <1>1, <1>3
  <2>4. OneFlag' => \A k \in 1..Len(tree_node') : tree_node'[k] = TextAt(base_index + k)
    BY <1>1, <1>4, <1>5
  <2>5. OneFlag' => \A k \in 1..Len(tree_node') : tree_node'[k] = Fold(ac.text[base_index + k])'
    BY <1>1, <1>6, <2>4 DEF TextAt, Fold
  <2> QED BY <1>1, <2>1, <2>2, <2>3, <2>5 DEF OnPath, TextAt
<1>12. ASSUME NEW b \in DOMAIN Pattern, NEW o \in 0..Len(ac.text)
       PROVE  /\ Passed(b, o) => Passed(b, o)'
              /\ Passed(b, o)' => Passed(b, o) \/ (o = base_index /\ Len(Pattern[b]) = L + 1)
              /\ o = base_index /\ Len(Pattern[b]) = L + 1 => Passed(b, o)' /\ ~Passed(b, o)
  <2>1. Passed(b, o) <=> o > base_index \/ (o = base_index /\ Len(Pattern[b]) <= L)
    BY DEF Passed
  <2>2. Passed(b, o)' <=> o > base_index \/ (o = base_index /\ Len(Pattern[b]) <= L + 1)
    BY <1>1, <1>3, <1>5 DEF Passed
  <2>3. Len(Pattern[b]) \in Nat /\ o \in Nat
    BY <1>2, <1>3, PatternIs
  <2> QED BY <1>2, <1>3, <2>1, <2>2, <2>3
<1>13. CASE ~(l >= 0)
  <2>1. matched' = matched /\ returned' = returned /\ ~returned'
    BY <1>1, <1>9, <1>13
  <2>2. AcType'
    BY <1>1, <1>2, <1>5, <1>6, <2>1 DEF AcType
  <2>3. ASSUME OneFlag, NEW b \in DOMAIN Pattern, NEW o \in 0..Len(ac.text), Right(b, o), Passed(b, o)'
        PROVE  Returned(b, o)
    <3>1. Passed(b, o)
      BY <1>3, <1>4, <1>12, <1>13, <2>3
    <3> QED BY <1>1, <2>3, <3>1 DEF AcInv
  <2>4. ASSUME AllVisited, NEW j \in DOMAIN matched
        PROVE  Passed(matched[j].pattern_i, matched[j].offset)'
    <3> DEFINE b == matched[j].pattern_i
               o == matched[j].offset
    <3>1. b \in DOMAIN Pattern /\ o \in 0..Len(ac.text) /\ Passed(b, o)
      BY <1>1, <1>2, <2>4, AcMatches DEF AcInv
    <3>2. Passed(b, o) => Passed(b, o)'
      BY <1>1, <1>3, <1>5, <2>1 DEF Passed
    <3> QED BY <3>1, <3>2
  <2>5. \A b, o : Returned(b, o)' <=> Returned(b, o)
    BY <2>1 DEF Returned
  <2>6. \A i, j \in DOMAIN matched : AllVisited /\ matched[i] = matched[j] => i = j
    BY DEF AcInv
  <2>7. \A j \in DOMAIN matched' : AlikeAt(ac.list[matched[j].pattern_i].data, matched[j].offset)'
    BY <1>1, <1>10, <2>1 DEF AlikeAt
  <2> QED BY <1>1, <1>2, <1>5, <1>6, <1>10, <1>11, <2>1, <2>2, <2>3, <2>4, <2>5, <2>6, <2>7 DEF AcInv
<1>14. CASE l >= 0
  <2> DEFINE N == Len(matched)
  <2>1. matched' = Append(matched, new) /\ returned' = (Len(matched') = ac.nmax) /\ new = [pattern_i |-> l, offset |-> base_index]
    BY <1>8, <1>14
  <2>2. l \in DOMAIN Pattern /\ l \in DOMAIN ac.list /\ Len(Pattern[l]) = L + 1 /\ base_index \in 0..Len(ac.text)
    BY <1>2, <1>3, <1>14, PatternIs
  <2>3. new \in AcMatch
    BY <2>1, <2>2 DEF AcMatch
  <2> HIDE DEF new
  <2>4. /\ matched' \in Seq(AcMatch) /\ DOMAIN matched' = 1..N + 1 /\ DOMAIN matched = 1..N /\ N \in Nat
        /\ matched'[N + 1] = new /\ \A j \in 1..N : matched'[j] = matched[j]
    BY <1>10, <2>1, <2>3
  <2>5. AcType'
    BY <1>1, <1>2, <1>5, <1>6, <2>1, <2>4 DEF AcType
  <2>6. new.pattern_i = l /\ new.offset = base_index
    BY <2>1
  <2>7. \A j \in 1..N + 1 : j \in 1..N \/ j = N + 1
    BY <2>4
  <2>8. OneFlag => \A j \in DOMAIN matched' : Right(matched'[j].pattern_i, matched'[j].offset)
    BY <1>4, <1>10, <1>14, <2>4, <2>6, <2>7
  <2>13. \A j \in DOMAIN matched' : AlikeAt(ac.list[matched'[j].pattern_i].data, matched'[j].offset)
    BY <1>3, <1>10, <1>14, <2>4, <2>6, <2>7
  <2>14. \A j \in DOMAIN matched' : AlikeAt(ac.list[matched[j].pattern_i].data, matched[j].offset)'
    BY <1>1, <2>13 DEF AlikeAt
  <2>9. ASSUME AllVisited, NEW i \in DOMAIN matched', NEW j \in DOMAIN matched', matched'[i] = matched'[j]
        PROVE  i = j
    <3>1. \A k \in 1..N : matched[k] # new
      <4> SUFFICES ASSUME NEW k \in 1..N, matched[k] = new PROVE FALSE
        OBVIOUS
      <4>1. Passed(matched[k].pattern_i, matched[k].offset)
        BY <1>1, <2>4, <2>9 DEF AcInv
      <4> QED BY <1>12, <2>2, <2>6, <4>1
    <3>2. \A a, b \in 1..N : matched[a] = matched[b] => a = b
      BY <2>4, <2>9 DEF AcInv
    <3> QED BY <2>4, <2>7, <2>9, <3>1, <3>2
  <2>10. ASSUME AllVisited, NEW j \in DOMAIN matched'
         PROVE  Passed(matched[j].pattern_i, matched[j].offset)'
    <3> DEFINE b == matched'[j].pattern_i
               o == matched'[j].offset
    <3>1. SUFFICES o > base_index \/ (o = base_index /\ Len(Pattern[b]) <= L + 1)
      BY <1>1, <1>3, <1>5 DEF Passed
    <3>2. CASE j = N + 1
      <4>1. b = l /\ o = base_index
        BY <2>4, <2>6, <3>2
      <4> QED BY <1>3, <2>2, <4>1
    <3>3. CASE j \in 1..N
      <4>1. /\ matched[j].pattern_i \in DOMAIN Pattern /\ matched[j].offset \in 0..Len(ac.text)
            /\ Passed(matched[j].pattern_i, matched[j].offset)
        BY <1>1, <1>2, <2>4, <2>10, <3>3, AcMatches DEF AcInv
      <4>2. o > base_index \/ (o = base_index /\ Len(Pattern[b]) <= L)
        BY <2>4, <3>3, <4>1 DEF Passed
      <4>3. b \in DOMAIN Pattern
        BY <2>4, <3>3, <4>1
      <4>4. Len(Pattern[b]) \in Nat
        BY <1>2, <4>3, PatternIs
      <4> HIDE DEF b, o
      <4> QED BY <1>3, <4>2, <4>4
    <3> QED BY <2>4, <2>7, <3>2, <3>3
  <2>11. ASSUME OneFlag, NEW b \in DOMAIN Pattern, NEW o \in 0..Len(ac.text), Right(b, o), Passed(b, o)'
         PROVE  Returned(b, o)'
    <3>1. CASE Passed(b, o)
      <4>1. PICK j \in 1..N : matched[j] = [pattern_i |-> b, offset |-> o]
        BY <1>1, <2>4, <2>11, <3>1 DEF AcInv, Returned
      <4> QED BY <2>4, <4>1 DEF Returned
    <3>2. CASE ~Passed(b, o)
      <4>1. o = base_index /\ Len(Pattern[b]) = L + 1
        BY <1>12, <2>11, <3>2
      <4>2. b = l
        BY <1>3, <1>4, <2>11, <4>1
      <4> QED BY <2>1, <2>4, <4>1, <4>2 DEF Returned
    <3> QED BY <3>1, <3>2
  <2>12. returned' => Len(matched') = ac'.nmax
    BY <1>1, <2>1
  <2> QED BY <1>1, <1>2, <1>5, <1>6, <1>11, <2>5, <2>8, <2>9, <2>10, <2>11, <2>12, <2>14 DEF AcInv
<1> QED BY <1>13, <1>14

\* In a list with one case_sen, when the text leads no further, the patterns found are those
\* that begin here.
LEMMA AllHere ==
    ASSUME Whole, OnPath, base_index \in Nat, ~Onward, NEW b \in DOMAIN Pattern, OccursAt(Pattern[b], base_index)
    PROVE  Len(Pattern[b]) <= Len(tree_node)
<1> DEFINE L == Len(tree_node)
           p == Pattern[b]
           c == TextAt(base_index + L + 1)
<1>1. tree_node \in Seq(Nat) /\ p \in Seq(Nat) /\ Len(ac.text) \in Nat
  <2>1. tree_node \in Seq(Nat) /\ ac.text \in Seq(Nat)
    BY DEF OnPath, Whole, TreeOK, ListOK
  <2>2. p \in Seq(Nat)
    BY PatternIs DEF Whole
  <2> QED BY <2>1, <2>2
<1>2. L \in Nat /\ Len(p) \in Nat
  BY <1>1
<1>3. /\ base_index + Len(p) <= Len(ac.text)
      /\ \A k \in 1..Len(p) : p[k] = TextAt(base_index + k)
      /\ \A k \in 1..L : tree_node[k] = TextAt(base_index + k)
  BY DEF OccursAt, OnPath, Whole
<1>4. SUFFICES ASSUME L + 1 <= Len(p) PROVE FALSE
  BY <1>2
<1>5. base_index + L < Len(ac.text)
  BY <1>1, <1>2, <1>3, <1>4
<1>6. p[L + 1] = c /\ c \in Nat
  <2>1. L + 1 \in 1..Len(p) /\ base_index + (L + 1) = base_index + L + 1
    BY <1>2, <1>4
  <2>2. p[L + 1] \in Nat
    BY <1>1, <2>1
  <2> QED BY <1>3, <2>1, <2>2
<1>7. Pre(tree_node, p)
  <2>1. \A k \in 1..L : k \in 1..Len(p)
    BY <1>2, <1>4
  <2> QED BY <1>2, <1>3, <1>4, <2>1 DEF Pre
<1>8. Append(tree_node, c) \in Tree
  <2> HIDE DEF c
  <2>1. Append(tree_node, c) \in Seq(Nat) /\ Pre(Append(tree_node, c), p)
    BY <1>1, <1>4, <1>6, <1>7, AppendPre
  <2> QED BY <2>1, TreeIs
<1> QED BY <1>5, <1>8, OnwardIs

LEMMA AcShifting == AcInv /\ Shift => AcInv'
<1> SUFFICES ASSUME AcInv, Shift PROVE AcInv'
  OBVIOUS
<1>1. /\ ac' = ac /\ adding' = adding /\ matched' = matched /\ returned' = returned /\ left' = left /\ left # {} /\ ~returned
      /\ Searching /\ base_index >= 0 /\ ~Onward /\ tree_node' = <<>> /\ base_index' = base_index - real_shift
  BY DEF Shift, Searching
<1>2. /\ AcType /\ ListOK /\ TreeOK /\ ShiftsSet /\ OnPath /\ base_index \in Nat /\ adding > Len(ac.list)
      /\ (OneFlag => OneFlagTree)
  BY <1>1 DEF AcInv, AcType
<1>3. /\ Pattern' = Pattern /\ Tree' = Tree /\ TreeOK' /\ (OneFlag' <=> OneFlag) /\ (OneFlagTree' <=> OneFlagTree)
      /\ (AllVisited' <=> AllVisited)
      /\ \A c : BCshift(c)' = BCshift(c)
      /\ \A m : label(m)' = label(m) /\ GSshift(m)' = GSshift(m)
      /\ AcMatch' = AcMatch /\ ListOK'
      /\ (\A b, o : Right(b, o)' <=> Right(b, o)) /\ \A p, o : AlikeAt(p, o)' <=> AlikeAt(p, o)
  BY <1>1, <1>2, TreeSame, AcSame
<1>4. real_shift \in Int /\ (Stuck => real_shift = 0) /\ (~Stuck => real_shift >= 1)
  BY <1>1, <1>2, ShiftMoves
<1>5. AcType'
  BY <1>1, <1>2, <1>3, <1>4 DEF AcType
<1>6. ShiftsSet' /\ OnPath'
  <2>1. ShiftsSet'
    BY <1>1, <1>2, <1>3 DEF ShiftsSet
  <2>2. Len(tree_node') = 0 /\ tree_node' = <<>> /\ <<>> \in Tree'
    BY <1>1, <1>2, <1>3 DEF TreeOK
  <2> QED BY <2>1, <2>2 DEF OnPath
<1>7. \A b, o : Returned(b, o)' <=> Returned(b, o)
  BY <1>1 DEF Returned
<1>8. ASSUME AllVisited, NEW j \in DOMAIN matched PROVE Passed(matched[j].pattern_i, matched[j].offset)'
  <2>1. ~Stuck
    BY <1>2, <1>8, OneChild DEF Stuck, AllVisited, childs
  <2>2. matched[j].offset \in 0..Len(ac.text) /\ Passed(matched[j].pattern_i, matched[j].offset)
    BY <1>1, <1>2, <1>8, AcMatches DEF AcInv
  <2>3. matched[j].offset >= base_index
    BY <1>2, <2>2 DEF Passed
  <2>4. matched[j].offset > base_index'
    BY <1>1, <1>2, <1>4, <2>1, <2>2, <2>3
  <2> QED BY <1>1, <2>4 DEF Passed
<1>9. ASSUME OneFlag, NEW b \in DOMAIN Pattern, NEW o \in 0..Len(ac.text), Right(b, o), Passed(b, o)'
      PROVE  Returned(b, o)
  <2>1. OccursAt(Pattern[b], o) /\ o \in Nat
    BY <1>9 DEF Right
  <2>2. o > base_index - real_shift
    <3>1. Len(Pattern[b]) \in Nat /\ Len(Pattern[b]) >= 1
      BY <1>2, PatternIs
    <3>2. Len(tree_node') = 0
      BY <1>1
    <3>3. o > base_index' \/ Len(Pattern[b]) <= 0
      BY <1>3, <1>9, <3>2 DEF Passed
    <3> QED BY <1>1, <3>1, <3>3
  <2>3. o >= base_index
    <3>1. o < base_index => o <= base_index - real_shift
      BY <1>1, <1>2, <1>9, <2>1, ShiftSafe DEF Whole
    <3> QED BY <1>2, <1>4, <2>1, <2>2, <3>1
  <2>4. Passed(b, o)
    <3>1. CASE o = base_index
      <4>1. Len(Pattern[b]) <= Len(tree_node)
        BY <1>1, <1>2, <1>9, <2>1, <3>1, AllHere DEF Whole
      <4> QED BY <3>1, <4>1 DEF Passed
    <3>2. CASE o > base_index
      BY <3>2 DEF Passed
    <3> QED BY <1>2, <2>1, <2>3, <3>1, <3>2
  <2> QED BY <1>1, <1>9, <2>4 DEF AcInv
<1>10. \A j \in DOMAIN matched' : AlikeAt(ac.list[matched[j].pattern_i].data, matched[j].offset)'
  BY <1>1 DEF AcInv, AlikeAt
<1> QED BY <1>1, <1>2, <1>3, <1>5, <1>6, <1>7, <1>8, <1>9, <1>10 DEF AcInv

LEMMA AcEnding == AcInv /\ (SearchReturns \/ acbm_clean \/ UNCHANGED acVars) => AcInv'
<1> SUFFICES ASSUME AcInv, SearchReturns \/ acbm_clean \/ UNCHANGED acVars PROVE AcInv'
  OBVIOUS
<1>1. ac' = ac /\ adding' = adding /\ matched' = matched /\ base_index' = base_index /\ tree_node' = tree_node
  BY DEF SearchReturns, acbm_clean, acVars
<1>2. AcType /\ ListOK /\ TreeOK
  BY DEF AcInv, AcType
<1>3. /\ Pattern' = Pattern /\ Tree' = Tree /\ TreeOK' /\ (OneFlag' <=> OneFlag) /\ (OneFlagTree' <=> OneFlagTree)
      /\ (AllVisited' <=> AllVisited)
      /\ \A c : BCshift(c)' = BCshift(c)
      /\ \A m : label(m)' = label(m) /\ GSshift(m)' = GSshift(m)
      /\ AcMatch' = AcMatch /\ ListOK' /\ (\A i : TextAt(i)' = TextAt(i))
      /\ (\A b, o : Right(b, o)' <=> Right(b, o)) /\ \A p, o : AlikeAt(p, o)' <=> AlikeAt(p, o)
  BY <1>1, <1>2, TreeSame, AcSame
<1>4. \A b, o : (Returned(b, o)' <=> Returned(b, o)) /\ (Passed(b, o)' <=> Passed(b, o))
  BY <1>1, <1>3 DEF Returned, Passed
<1>5. returned' \in BOOLEAN => AcType'
  BY <1>1, <1>2, <1>3 DEF AcType
<1>9. \A j \in DOMAIN matched' : AlikeAt(ac.list[matched[j].pattern_i].data, matched[j].offset)'
  BY <1>1 DEF AcInv, AlikeAt
<1>10. AllVisited => \A i, j \in DOMAIN matched : matched[i] = matched[j] => i = j
  BY DEF AcInv
<1>6. CASE SearchReturns
  <2>1. left' = left /\ left # {} /\ ~returned /\ returned' /\ base_index < 0 /\ returned' \in BOOLEAN
    BY <1>6 DEF SearchReturns
  <2>2. ASSUME OneFlag, NEW b \in DOMAIN Pattern, NEW o \in 0..Len(ac.text), Right(b, o) PROVE Returned(b, o)
    <3>1. o > base_index
      BY <1>2, <2>1 DEF AcType
    <3> QED BY <2>1, <2>2, <3>1 DEF AcInv, Passed
  <2> QED BY <1>1, <1>3, <1>4, <1>5, <1>9, <1>10, <2>1, <2>2 DEF AcInv
<1>7. CASE acbm_clean
  <2>1. returned' = returned /\ returned
    BY <1>7 DEF acbm_clean
  <2>2. AcType'
    BY <1>2, <1>5, <2>1 DEF AcType
  <2> QED BY <1>1, <1>3, <1>4, <1>9, <1>10, <2>1, <2>2 DEF AcInv
<1>8. CASE UNCHANGED acVars
  <2>1. returned' = returned /\ left' = left
    BY <1>8 DEF acVars
  <2>2. AcType'
    BY <1>2, <1>5, <2>1 DEF AcType
  <2>3. (ShiftsSet /\ OnPath)' <=> ShiftsSet /\ OnPath
    BY <1>1, <1>3 DEF ShiftsSet, OnPath
  <2>4. BuildPath' <=> BuildPath
    BY <1>1, <1>3 DEF BuildPath, Adding, Pre
  <2> QED BY <1>1, <1>3, <1>4, <1>9, <2>1, <2>2, <2>3, <2>4 DEF AcInv
<1> QED BY <1>6, <1>7, <1>8

LEMMA AcAlways == AcSpec => []AcInv
<1>1. AcInv /\ [AcNext]_acVars => AcInv'
  BY AcAdding, AcLabelling, AcBuilt, AcDescending, AcShifting, AcEnding DEF AcNext
<1> QED BY <1>1, AcInitially, PTL DEF AcSpec

LEMMA OccurrencesAre ==
    ASSUME ListOK
    PROVE  \A m : m \in Occurrences <=>
              \E b \in DOMAIN Pattern, o \in 0..Len(ac.text) : m = [pattern_i |-> b, offset |-> o] /\ Right(b, o)
<1>1. ASSUME NEW b \in DOMAIN Pattern, NEW o \in 0..Len(ac.text)
      PROVE  [pattern_i |-> b, offset |-> o] \in Occurrences <=> Right(b, o)
  <2> DEFINE p == Pattern[b]
  <2>1. p \in Seq(Nat) /\ DOMAIN p = 1..Len(p) /\ Len(p) \in Nat /\ o \in Nat
    <3>1. p \in Seq(Nat)
      BY PatternIs
    <3> QED BY <3>1
  <2>2. \A k \in 1..Len(p) : Text(o + k - 1) = ac.text[o + k]
    <3>1. \A k \in 1..Len(p) : o + k - 1 + 1 = o + k
      BY <2>1
    <3> QED BY <3>1 DEF Text
  <2>3. Right(b, o) <=> /\ o + Len(p) <= Len(ac.text) /\ (\A k \in DOMAIN p : p[k] = Fold(Text(o + k - 1)))
                        /\ \A j \in DOMAIN Pattern : j > b => Pattern[j] # p
    BY <2>1, <2>2 DEF Right, OccursAt, TextAt
  <2>4. [pattern_i |-> b, offset |-> o] \in Occurs
    BY DEF Occurs
  <2> QED BY <2>3, <2>4 DEF Occurrences
<1>2. ASSUME NEW m \in Occurrences
      PROVE  \E b \in DOMAIN Pattern, o \in 0..Len(ac.text) : m = [pattern_i |-> b, offset |-> o]
  BY DEF Occurrences, Occurs
<1> QED BY <1>1, <1>2

\* A match of the search is a pattern that the text has there, up to case, whatever the
\* flags of the list; and in a list with one case_sen no shift jumps over an occurrence.
THEOREM AllOccurrences == AcSpec => []FindsAll
<1>1. AcInv => FindsAll
  <2> SUFFICES ASSUME AcInv PROVE FindsAll
    OBVIOUS
  <2>1. AcType /\ ListOK /\ matched \in Seq(AcMatch)
    BY DEF AcInv, AcType
  <2>2. ASSUME NEW j \in DOMAIN matched PROVE Alike(matched[j])
    <3> DEFINE o == matched[j].offset
               p == ac.list[matched[j].pattern_i].data
    <3>1. matched[j].pattern_i \in DOMAIN ac.list /\ o \in 0..Len(ac.text)
      BY <2>1, AcMatches
    <3>2. AlikeAt(p, o)
      BY DEF AcInv
    <3>3. p \in Seq(Nat) /\ o \in Nat
      <4>1. \A i \in DOMAIN ac.list : ac.list[i].data \in Seq(Nat)
        BY <2>1, PatternIs
      <4>2. Len(ac.text) \in Nat
        BY <2>1 DEF ListOK
      <4> QED BY <3>1, <4>1, <4>2
    <3> HIDE DEF p, o
    <3>4. DOMAIN p = 1..Len(p) /\ \A k \in 1..Len(p) : o + k - 1 + 1 = o + k
      BY <3>3
    <3>5. \A k \in DOMAIN p : Lower(p[k]) = Lower(Text(o + k - 1))
      BY <3>2, <3>4 DEF AlikeAt, Text
    <3>6. o + Len(p) <= Len(ac.text)
      BY <3>2 DEF AlikeAt
    <3> QED BY <3>5, <3>6 DEF Alike, p, o
  <2>3. AllVisited => IsInjective(matched)
    BY DEF AcInv, IsInjective
  <2>4. ASSUME OneFlag, NEW j \in DOMAIN matched PROVE matched[j] \in Occurrences
    <3>1. /\ matched[j].pattern_i \in DOMAIN Pattern /\ matched[j].offset \in 0..Len(ac.text)
          /\ matched[j] = [pattern_i |-> matched[j].pattern_i, offset |-> matched[j].offset]
      BY <2>1, AcMatches
    <3>2. Right(matched[j].pattern_i, matched[j].offset)
      BY <2>4 DEF AcInv
    <3> QED BY <2>1, <3>1, <3>2, OccurrencesAre
  <2>5. OneFlag => Range(matched) \subseteq Occurrences
    BY <2>1, <2>4, InRange
  <2>6. ASSUME OneFlag, returned, Len(matched) # ac.nmax, NEW m \in Occurrences PROVE m \in Range(matched)
    <3>1. PICK b \in DOMAIN Pattern, o \in 0..Len(ac.text) : m = [pattern_i |-> b, offset |-> o] /\ Right(b, o)
      BY <2>1, OccurrencesAre
    <3>2. Returned(b, o)
      BY <2>6, <3>1 DEF AcInv
    <3> QED BY <2>1, <3>1, <3>2, InRange DEF Returned
  <2> QED BY <2>2, <2>3, <2>5, <2>6 DEF FindsAll
<1> QED BY <1>1, AcAlways, PTL

\* Every step of the search leads on, for any list, unless it is at a node whose good suffix
\* shift was never set and the bad character asks for no shift: from there it begins again.
THEOREM SearchMovesOn == AcSpec => MovesOn
<1> DEFINE Onwards == left # {} /\ ~returned
                => IF Stuck THEN base_index' = base_index /\ tree_node' = <<>> /\ ~returned'
                   ELSE \/ base_index' < base_index
                        \/ base_index' = base_index /\ Len(tree_node') > Len(tree_node) /\ tree_node' \in Tree
                        \/ returned'
<1>1. AcInv /\ [AcNext]_acVars => [Onwards]_acVars
  <2> SUFFICES ASSUME AcInv, AcNext, left # {}, ~returned
               PROVE  IF Stuck THEN base_index' = base_index /\ tree_node' = <<>> /\ ~returned'
                      ELSE \/ base_index' < base_index
                           \/ base_index' = base_index /\ Len(tree_node') > Len(tree_node) /\ tree_node' \in Tree
                           \/ returned'
    OBVIOUS
  <2>1. AcType /\ ListOK /\ TreeOK /\ ShiftsSet /\ OnPath
    BY DEF AcInv, AcType
  <2>2. ~AddCharacter /\ ~LabelLast /\ ~acbm_init /\ ~acbm_clean
    BY DEF AddCharacter, LabelLast, Building, acbm_init, acbm_clean
  <2>3. CASE Descend
    <3>1. base_index \in Nat /\ Onward /\ base_index' = base_index /\ tree_node' = Below
      BY <2>1, <2>3 DEF Descend, Searching, AcType
    <3>2. tree_node' \in Tree /\ Len(tree_node') = Len(tree_node) + 1 /\ Len(tree_node) \in Nat
      BY <2>1, <3>1, Deeper
    <3>3. ~Stuck
      BY <3>1 DEF Stuck
    <3> QED BY <3>1, <3>2, <3>3
  <2>4. CASE Shift
    <3>1. /\ Searching /\ base_index \in Nat /\ ~Onward /\ base_index' = base_index - real_shift
          /\ tree_node' = <<>> /\ returned' = returned
      BY <2>1, <2>4 DEF Shift, Searching, AcType
    <3>2. real_shift \in Int /\ (Stuck => real_shift = 0) /\ (~Stuck => real_shift >= 1)
      BY <2>1, <3>1, ShiftMoves
    <3> QED BY <3>1, <3>2
  <2>5. CASE SearchReturns
    BY <2>1, <2>5 DEF SearchReturns, Stuck, Searching, AcType
  <2> QED BY <2>2, <2>3, <2>4, <2>5 DEF AcNext
<1> QED BY <1>1, AcAlways, PTL DEF AcSpec, MovesOn
===============================================================================
