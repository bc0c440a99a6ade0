----------------------------- MODULE OptionProofs -----------------------------
(****************************************************************************)
(* Proofs about the options of the state file in PamLogin: DISALLOW_REUSE,   *)
(* the learning of TIME_SKEW and RATE_LIMIT, under concurrent logins.        *)
(****************************************************************************)
EXTENDS PamLoginProofs

USE DEF Phase, Working, Holding, Saving
-------------------------------------------------------------------------------
(* What the checks do to the lists of steps.                                 *)

\* Time steps follow the clock.
LEMMA StepsGrow ==
    ASSUME NEW a \in Nat, NEW b \in Nat, a <= b
    PROVE  get_timestamp(a) \in Int /\ get_timestamp(b) \in Int
           /\ get_timestamp(a) <= get_timestamp(b)
<1> DEFINE q == a \div STEP
           r == b \div STEP
<1>0. STEP \in Nat /\ STEP > 0
  BY StepAssumption
<1>1. q \in Int /\ r \in Int /\ STEP * q <= a /\ b < STEP * (r + 1)
  BY <1>0
<1> HIDE DEF q, r
<1>2. q <= r
  <2> SUFFICES ASSUME q >= r + 1 PROVE FALSE
    BY <1>1
  <2>1. STEP * q >= STEP * (r + 1)
    BY <1>0, <1>1
  <2> QED BY <1>0, <1>1, <2>1
<1> QED BY <1>1, <1>2 DEF get_timestamp, q, r

\* A skew that agrees with the last two that were tried.
Agrees(f, skew) == Near(skew, f.resetting, Len(f.resetting) - 1)

\* The skew that r has learnt in step T agrees with the two that were tried before and
\* with that of the code it was accepted with.
Learnt(f, r, T) ==
    LET own == [tm |-> T, skew |-> r.cred.val - T]
        h   == Recent(f.resetting, own)
    IN  Len(h) = HISTORY /\ Near(r.buf.skew, h, 1) /\ Moderate(r.buf.skew, h)

\* What a check in step T does to the steps, and to the skew.
Treats(f, r, T) ==
    /\ NoSkewTaught(r.buf) =>
          /\ r.buf.skew = f.skew
          /\ IF r.cred.kind # "totp" THEN r.buf.blocked = f.blocked
             ELSE f.disallow_reuse => Spends(f, r, T)
    /\ r.cred.kind = "totp" /\ f.disallow_reuse => r.upd
    /\ r.buf.skew # f.skew => Agrees(f, r.buf.skew) /\ Learnt(f, r, T)

LEMMA IdleTreats ==
    ASSUME NEW f, NEW r, NEW T, r.buf.skew = f.skew, r.buf.blocked = f.blocked,
           r.cred.kind # "totp"
    PROVE  Treats(f, r, T)
BY DEF Treats

LEMMA MissTreats ==
    ASSUME NEW f, NEW T
    PROVE  Treats(f, Miss(f), T) /\ Treats(f, Error(f), T) /\ Treats(f, [Miss(f) EXCEPT !.adv = TRUE], T)
<1>1. /\ Miss(f).buf = f /\ Miss(f).cred = NoCred /\ Error(f).buf = f /\ Error(f).cred = NoCred
      /\ [Miss(f) EXCEPT !.adv = TRUE].buf = f /\ [Miss(f) EXCEPT !.adv = TRUE].cred = NoCred
  BY DEF Miss, Error
<1> QED BY <1>1, NoCredType, IdleTreats

\* A code of the window is accepted once.
LEMMA InvalidateTreats ==
    ASSUME NEW f \in File, NEW v \in Int, NEW T \in Int, window_size(f) # 0, v \in Window(f, T)
    PROVE  Treats(f, invalidate_timebased_code(f, v), T)
<1> DEFINE w == window_size(f)
           kept == {b \in f.blocked : b - v < w /\ v - b < w}
           all == kept \cup {v}
           g == [f EXCEPT !.blocked = all]
           c == Cred(f, "totp", v)
           r == invalidate_timebased_code(f, v)
<1>1. f \in Lines /\ f.blocked \in SUBSET Int /\ w \in Int
  <2>1. w \in 0..100
    BY WindowType
  <2> HIDE DEF w
  <2>2. w \in Int
    BY <2>1
  <2> QED BY <2>2 DEF File, Lines
<1>2. r = IF ~f.disallow_reuse THEN [Accepted(f, c) EXCEPT !.upd = FALSE]
          ELSE IF w = 0 \/ v \in f.blocked THEN Error(f)
          ELSE Accepted(g, c)
  BY DEF invalidate_timebased_code
<1>3. \A b \in f.blocked : b \notin all => b <= v - w \/ b >= v + w
  BY <1>1
<1>4. v \in all
  OBVIOUS
<1> HIDE DEF all, w
<1>5. g.blocked = all /\ g.skew = f.skew
  BY <1>1 DEF Lines
<1>6. c.kind = "totp" /\ c.val = v
  BY DEF Cred
<1> HIDE DEF g, c, r
<1>7. CASE ~f.disallow_reuse
  <2>1. r.buf = f
    BY <1>2, <1>7 DEF Accepted
  <2>2. r.cred = c
    BY <1>2, <1>7 DEF Accepted
  <2> QED BY <1>6, <1>7, <2>1, <2>2 DEF Treats, r
<1>8. CASE f.disallow_reuse /\ v \in f.blocked
  BY <1>2, <1>8, MissTreats DEF r
<1>9. CASE f.disallow_reuse /\ v \notin f.blocked
  <2>1. r = Accepted(g, c)
    BY <1>2, <1>9 DEF w
  <2>2. r.buf = g /\ r.cred = c /\ r.upd = TRUE
    BY <2>1 DEF Accepted
  <2>3. Spends(f, r, T)
    BY <1>3, <1>4, <1>5, <1>6, <1>9, <2>2 DEF Spends, w
  <2> QED BY <1>5, <1>6, <2>2, <2>3 DEF Treats, r
<1> QED BY <1>7, <1>8, <1>9


\* The average of three skews that nearly agree is near each of them.
LEMMA AverageAgrees ==
    ASSUME NEW a \in Int, NEW b \in Int, NEW s \in Int, a - s \in -1..1, b - s \in -1..1
    PROVE  /\ Quotient(a + b + s, HISTORY) - a \in -1..1
           /\ Quotient(a + b + s, HISTORY) - b \in -1..1
           /\ Quotient(a + b + s, HISTORY) - s \in -1..1
           /\ HISTORY * Abs(Quotient(a + b + s, HISTORY)) <= Abs(a + b + s)
<1>1. a \in {s - 1, s, s + 1} /\ b \in {s - 1, s, s + 1}
  OBVIOUS
<1> DEFINE z == a + b + s
           q == Quotient(z, HISTORY)
<1>2. z \in Int /\ z \in {3*s - 2, 3*s - 1, 3*s, 3*s + 1, 3*s + 2}
  BY <1>1
<1>3. q - a \in -1..1 /\ q - b \in -1..1 /\ q - s \in -1..1
  BY <1>1, <1>2 DEF Quotient, HISTORY
<1> HIDE DEF z
<1>4. 3 * Abs(q) <= Abs(z)
  <2>1. CASE z < 0
    BY <1>2, <2>1 DEF Quotient, HISTORY, Abs
  <2>2. CASE z >= 0
    BY <1>2, <2>2 DEF Quotient, HISTORY, Abs
  <2> QED BY <1>2, <2>1, <2>2
<1> QED BY <1>3, <1>4 DEF HISTORY, z

\* The history of three attempts holds the last two of the list.
LEMMA RecentLast ==
    ASSUME NEW S, NEW R \in Seq(S), NEW e \in S, Len(Recent(R, e)) = HISTORY
    PROVE  LET h == Recent(R, e)
               n == Len(R)
           IN  n \in Nat /\ n >= 2 /\ h[1] = R[n - 1] /\ h[2] = R[n] /\ h[3] = e
<1>0. Len(R) \in Nat
  BY LenProperties
<1>1. CASE Len(R) = HISTORY
  <2>1. R # <<>> /\ Len(R) = 3
    BY <1>1 DEF HISTORY
  <2> DEFINE t == Tail(R)
             u == Append(t, e)
  <2>2. t \in Seq(S) /\ Len(t) = Len(R) - 1 /\ \A i \in 1..Len(t) : t[i] = R[i + 1]
    BY <2>1, HeadTailProperties
  <2> HIDE DEF t
  <2>3. Len(t) = 2
    BY <2>1, <2>2
  <2>4. t[1] = R[2] /\ t[2] = R[3]
    BY <2>2, <2>3
  <2>5. Len(u) = Len(t) + 1 /\ u[Len(t) + 1] = e /\ \A i \in 1..Len(t) : u[i] = t[i]
    BY <2>2, AppendProperties
  <2>6. Recent(R, e) = u
    BY <1>1 DEF Recent, t
  <2> HIDE DEF u
  <2>7. u[1] = R[2] /\ u[2] = R[3] /\ u[3] = e
    BY <2>3, <2>4, <2>5
  <2> QED BY <2>1, <2>6, <2>7
<1>2. CASE Len(R) # HISTORY
  <2> DEFINE u == Append(R, e)
             n == Len(R)
  <2>1. Recent(R, e) = u
    BY <1>2 DEF Recent
  <2>2. /\ Len(u) = n + 1 /\ u[n + 1] = e
        /\ \A i \in 1..n : u[i] = R[i]
    BY AppendProperties
  <2> HIDE DEF u, n
  <2>3. n = 2
    <3>1. n + 1 = 3 /\ n \in Nat
      BY <1>0, <2>1, <2>2 DEF HISTORY, n
    <3> QED BY <3>1
  <2>4. u[1] = R[1] /\ u[2] = R[2] /\ u[3] = e
    BY <2>2, <2>3
  <2> QED BY <2>1, <2>3, <2>4 DEF n
<1> QED BY <1>1, <1>2

LEMMA SkewTreats ==
    ASSUME NEW f \in File, NEW skew \in Int, NEW tm \in Int
    PROVE  Treats(f, check_time_skew(f, skew, tm), tm)
<1> DEFINE S == [tm : Int, skew : Int]
           e == [tm |-> tm, skew |-> skew]
           R == f.resetting
           n == Len(R)
           h == Recent(R, e)
           avg == Quotient(h[1].skew + h[2].skew + h[3].skew, HISTORY)
           more == f.lines \cup {"TIME_SKEW", "RESETTING_TIME_SKEW"}
           some == f.lines \cup {"RESETTING_TIME_SKEW"}
           taught == [f EXCEPT !.skew = avg, !.resetting = <<>>, !.lines = more]
           waiting == [f EXCEPT !.resetting = h, !.lines = some]
           c == Cred(f, "totp", tm + skew)
           r == check_time_skew(f, skew, tm)
<1>1. f \in Lines /\ R \in Seq(S) /\ e \in S
  BY DEF File, Lines
<1>2. \/ r = Error(f)
      \/ Consistent(h, skew) /\ r = Accepted(taught, c)
      \/ r = [Error(waiting) EXCEPT !.upd = TRUE]
  BY DEF check_time_skew
<1>3. Consistent(h, skew) => /\ Agrees(f, avg)
                             /\ Len(h) = HISTORY /\ Near(avg, h, 1) /\ Moderate(avg, h)
  <2> SUFFICES ASSUME Consistent(h, skew)
               PROVE  /\ Agrees(f, avg)
                      /\ Len(h) = HISTORY /\ Near(avg, h, 1) /\ Moderate(avg, h)
    OBVIOUS
  <2>1. Len(h) = HISTORY
    BY DEF Consistent
  <2> HIDE DEF S, e, R
  <2>2. n \in Nat /\ n >= 2 /\ h[1] = R[n - 1] /\ h[2] = R[n] /\ h[3] = e
    BY <1>1, <2>1, RecentLast
  <2>3. R[n - 1] \in S /\ R[n] \in S
    BY <1>1, <2>2, ElementOfSeq
  <2>4. R[n - 1].skew \in Int /\ R[n].skew \in Int /\ e.skew = skew
    BY <2>3 DEF S, e
  <2>5. h[1].skew - skew \in -1..1 /\ h[2].skew - skew \in -1..1
    BY DEF Consistent, HISTORY
  <2>6. avg = Quotient(R[n - 1].skew + R[n].skew + skew, HISTORY)
    BY <2>2, <2>4
  <2> DEFINE x == R[n - 1].skew
             y == R[n].skew
  <2>7. x \in Int /\ y \in Int /\ x - skew \in -1..1 /\ y - skew \in -1..1
    BY <2>2, <2>4, <2>5
  <2> HIDE DEF x, y
  <2>8. /\ Quotient(x + y + skew, HISTORY) - x \in -1..1
        /\ Quotient(x + y + skew, HISTORY) - y \in -1..1
        /\ Quotient(x + y + skew, HISTORY) - skew \in -1..1
        /\ HISTORY * Abs(Quotient(x + y + skew, HISTORY)) <= Abs(x + y + skew)
    BY <2>7, AverageAgrees
  <2>9. avg = Quotient(x + y + skew, HISTORY) /\ h[1].skew = x /\ h[2].skew = y /\ h[3].skew = skew
    BY <2>2, <2>4, <2>6 DEF x, y
  <2> HIDE DEF h, avg
  <2>10. avg - x \in -1..1 /\ avg - y \in -1..1 /\ avg - skew \in -1..1
    BY <2>8, <2>9
  <2>11. Near(avg, h, 1)
    <3>1. \A k \in 1..Len(h) : k = 1 \/ k = 2 \/ k = 3
      BY <2>1 DEF HISTORY
    <3> QED BY <2>9, <2>10, <3>1 DEF Near
  <2>12. Agrees(f, avg)
    <3>1. \A k \in n - 1..n : k = n - 1 \/ k = n
      BY <2>2
    <3>2. \A k \in n - 1..n : avg - R[k].skew \in -1..1
      BY <2>10, <3>1 DEF x, y
    <3> QED BY <3>2 DEF Agrees, Near, R
  <2>13. Moderate(avg, h)
    BY <2>8, <2>9 DEF Moderate
  <2> QED BY <2>1, <2>11, <2>12, <2>13
<1> HIDE DEF h, avg
<1>4. "TIME_SKEW" \in more
  OBVIOUS
<1> HIDE DEF more, some
<1>5. taught.skew = avg /\ taught.lines = more
  BY <1>1 DEF Lines
<1>6. waiting.skew = f.skew /\ waiting.blocked = f.blocked
  BY <1>1 DEF Lines
<1> HIDE DEF taught, waiting, c, r
<1>7. CASE Consistent(h, skew) /\ r = Accepted(taught, c)
  <2>1. r.buf = taught /\ r.cred = c /\ r.upd = TRUE
    BY <1>7 DEF Accepted
  <2>2. ~NoSkewTaught(r.buf)
    BY <1>4, <1>5, <2>1 DEF NoSkewTaught
  <2>3. h = Recent(f.resetting, [tm |-> tm, skew |-> r.cred.val - tm])
    <3>1. r.cred.val - tm = skew
      BY <2>1 DEF c, Cred
    <3> QED BY <3>1 DEF h
  <2>4. Agrees(f, r.buf.skew) /\ Learnt(f, r, tm)
    BY <1>3, <1>5, <1>7, <2>1, <2>3 DEF Learnt
  <2>5. r.cred.kind = "totp" /\ f.disallow_reuse => r.upd
    BY <2>1
  <2> QED BY <2>2, <2>4, <2>5 DEF Treats, r
<1>8. CASE r = [Error(waiting) EXCEPT !.upd = TRUE]
  <2>1. r.buf = waiting /\ r.cred = NoCred
    BY <1>8 DEF Error
  <2> QED BY <1>6, <2>1, NoCredType, IdleTreats DEF r
<1> QED BY <1>2, <1>7, <1>8, MissTreats DEF r

LEMMA TimebasedTreats ==
    ASSUME NEW f \in File, NEW code, NEW t \in Nat, NEW noskewadj
    PROVE  Treats(f, check_timebased_code(f, code, t, noskewadj), get_timestamp(t))
<1> DEFINE tm == get_timestamp(t)
           w == window_size(f)
           lo == -((w - 1) \div 2)
           hi == w \div 2
           hits == Matching(f, code, tm + f.skew, lo .. hi)
           far == Matching(f, code, tm, -(SKEW_SEARCH - 1) .. SKEW_SEARCH - 1)
           first == Earliest(hits)
           near == Nearest(far)
<1>1. tm \in Int
  BY StepAssumption DEF get_timestamp
<1>2. w \in Int /\ f.skew \in Int
  <2>1. w \in 0..100
    BY WindowType
  <2> HIDE DEF w
  <2>2. w \in Int
    BY <2>1
  <2> QED BY <2>2 DEF File, Lines
<1>3. \/ check_timebased_code(f, code, t, noskewadj) \in {Miss(f), Error(f)}
      \/ /\ hits # {} /\ w # 0
         /\ check_timebased_code(f, code, t, noskewadj)
              = invalidate_timebased_code(f, tm + f.skew + first)
      \/ /\ far # {}
         /\ check_timebased_code(f, code, t, noskewadj) = check_time_skew(f, near, tm)
  BY DEF check_timebased_code
<1>4. Window(f, tm) = tm + f.skew + lo .. tm + f.skew + hi
  BY <1>1, <1>2 DEF Window
<1> HIDE DEF tm
<1>5. ASSUME hits # {}, w # 0
      PROVE  Treats(f, invalidate_timebased_code(f, tm + f.skew + first), tm)
  <2>1. hits \in SUBSET (lo .. hi)
    BY DEF Matching
  <2>2. lo \in Int /\ hi \in Int
    BY <1>2
  <2> HIDE DEF hits, lo, hi
  <2>3. first \in hits
    BY <1>5, <2>1, <2>2, EarliestIsMember
  <2> HIDE DEF first
  <2> DEFINE v == tm + f.skew + first
  <2>4. v \in Int /\ v \in Window(f, tm)
    BY <1>1, <1>2, <1>4, <2>1, <2>2, <2>3
  <2> HIDE DEF v
  <2>5. Treats(f, invalidate_timebased_code(f, v), tm)
    BY <1>1, <1>5, <2>4, InvalidateTreats
  <2> QED BY <2>5 DEF v
<1>6. ASSUME far # {}
      PROVE  Treats(f, check_time_skew(f, near, tm), tm)
  <2>1. SKEW_SEARCH - 1 \in Int /\ -(SKEW_SEARCH - 1) \in Int
    BY SearchAssumption
  <2>2. far \in SUBSET (-(SKEW_SEARCH - 1) .. SKEW_SEARCH - 1)
    BY DEF Matching
  <2> HIDE DEF far
  <2>3. near \in far
    BY <1>6, <2>1, <2>2, NearestIsMember
  <2> HIDE DEF near
  <2>4. near \in Int
    BY <2>1, <2>2, <2>3
  <2> QED BY <1>1, <2>4, SkewTreats
<1> HIDE DEF hits, far, first, near, w
<1>7. Treats(f, check_timebased_code(f, code, t, noskewadj), tm)
  BY <1>3, <1>5, <1>6, MissTreats
<1> QED BY <1>7 DEF tm

LEMMA ScratchTreats ==
    ASSUME NEW f \in File, NEW code, NEW T
    PROVE  Treats(f, check_scratch_codes(f, code), T)
<1> DEFINE left == f.scratch \ {code}
           g == [f EXCEPT !.scratch = left]
           c == Cred(f, "scratch", code)
           r == Accepted(g, c)
<1>1. check_scratch_codes(f, code) \in {r, Miss(f)}
  BY DEF check_scratch_codes
<1> HIDE DEF left
<1>2. g.skew = f.skew /\ g.blocked = f.blocked
  BY DEF File, Lines
<1>3. c.kind = "scratch"
  BY DEF Cred
<1> HIDE DEF g, c
<1>4. r.buf = g /\ r.cred = c
  BY DEF Accepted
<1> HIDE DEF r
<1>5. Treats(f, r, T)
  BY <1>2, <1>3, <1>4, IdleTreats
<1> QED BY <1>1, <1>5, MissTreats

LEMMA CounterTreats ==
    ASSUME NEW f \in File, NEW code, NEW T
    PROVE  Treats(f, check_counterbased_code(f, code), T)
<1> DEFINE w == window_size(f)
           hits == Matching(f, code, f.hotp, 0 .. w - 1)
           used == f.hotp + Earliest(hits)
           next == used + 1
           g == [f EXCEPT !.hotp = next]
           c == Cred(f, "hotp", used)
           r == Accepted(g, c)
<1>1. check_counterbased_code(f, code) \in {Miss(f), Error(f), r, [Miss(f) EXCEPT !.adv = TRUE]}
  BY DEF check_counterbased_code
<1> HIDE DEF hits, used, next
<1>2. g.skew = f.skew /\ g.blocked = f.blocked
  BY DEF File, Lines
<1>3. c.kind = "hotp"
  BY DEF Cred
<1> HIDE DEF g, c
<1>4. r.buf = g /\ r.cred = c
  BY DEF Accepted
<1> HIDE DEF r
<1>5. Treats(f, r, T)
  BY <1>2, <1>3, <1>4, IdleTreats
<1> QED BY <1>1, <1>5, MissTreats

LEMMA CheckTreats ==
    ASSUME NEW f \in File, NEW code, NEW t \in Nat, NEW noskewadj
    PROVE  Treats(f, check_code(f, code, t, noskewadj), get_timestamp(t))
BY ScratchTreats, TimebasedTreats, CounterTreats DEF check_code

-------------------------------------------------------------------------------
(* How the local variables of a login develop.                               *)

\* The lists that a rate limit and an advanced counter leave alone.
RestKept(f, g) ==
    /\ g.blocked = f.blocked /\ g.skew = f.skew
    /\ g.resetting = f.resetting /\ g.lines = f.lines

LEMMA RateLimitKeeps ==
    ASSUME NEW f \in File, NEW t \in Nat
    PROVE  RestKept(f, rate_limit(f, t).buf)
<1> DEFINE all == Insert(f.stamps, t)
           stop == UpTo(all, t)
           start == UpTo(all, t - f.interval - 1) + 1
           exceeded == stop - start + 1 > f.attempts
           list == SubSeq(all, IF exceeded THEN stop - f.attempts + 1 ELSE start, stop)
<1>1. \/ rate_limit(f, t).buf = f
      \/ rate_limit(f, t).buf = [f EXCEPT !.stamps = list]
  <2> DEFINE g == [f EXCEPT !.stamps = list]
             rc == IF exceeded THEN -1 ELSE 0
  <2>1. \/ rate_limit(f, t) \in {[rc |-> 0, buf |-> f, upd |-> FALSE],
                                 [rc |-> -1, buf |-> f, upd |-> FALSE]}
        \/ rate_limit(f, t) = [rc |-> rc, buf |-> g, upd |-> TRUE]
    BY RateLimitForms, Zenon
  <2> HIDE DEF g, rc
  <2>2. rate_limit(f, t).buf = f \/ rate_limit(f, t).buf = g
    BY <2>1
  <2> QED BY <2>2 DEF g
<1> HIDE DEF list
<1>2. f \in Lines
  BY DEF File
<1> QED BY <1>1, <1>2 DEF Lines, RestKept

LEMMA AdvanceKeeps ==
    ASSUME NEW f \in File
    PROVE  RestKept(f, advance_counter(f)) /\ advance_counter(f).stamps = f.stamps
<1> DEFINE n == f.hotp + 1
<1>1. advance_counter(f) = [f EXCEPT !.hotp = n] /\ f \in Lines
  BY DEF advance_counter, File
<1> HIDE DEF n
<1> QED BY <1>1 DEF Lines, RestKept

\* A pass of the loop that checks a code.
Tries(p) ==
    \E code :
        LET r == check_code(sess[p].buf, code, now, sess[p].par.noskewadj)
        IN  /\ sess'[p].buf = r.buf /\ sess'[p].cred = r.cred
            /\ r.upd => sess'[p].upd
            /\ sess[p].upd => sess'[p].upd
            /\ pc[p] = "loop" /\ pc'[p] \in {"loop", "conclude"}
            /\ pc'[p] = "loop" => r.rc = 1

\* Any other step.
Carries(p) ==
    /\ sess'[p].cred = sess[p].cred
    /\ sess[p].upd => sess'[p].upd
    /\ RestKept(sess[p].buf, sess'[p].buf)
    /\ pc'[p] \in {"rate", "loop"} => pc[p] \in {"rate", "loop"}

LEMMA BufStep ==
    ASSUME LoginTypes, NEW p \in Login, Act(p), ~Open(p), pc'[p] \in Working
    PROVE  Tries(p) \/ Carries(p)
<1>0. /\ pc \in [Login -> Phase] /\ sess \in [Login -> LocalType] /\ now \in Nat
      /\ pc[p] \in Working => sess[p].buf \in File
  BY DEF LoginTypes
<1>1. CASE RateLimit(p)
  <2> DEFINE r == rate_limit(sess[p].buf, now)
             b == r.buf
             u == r.upd
             m == FirstMode(sess[p].par)
             l == [sess[p] EXCEPT !.buf = b, !.early = u, !.at = now, !.mode = m]
  <2>1. sess'[p] = l
    BY <1>0, <1>1 DEF RateLimit, Deny, Return, Goto
  <2>2. RestKept(sess[p].buf, b)
    BY <1>0, <1>1, RateLimitKeeps DEF RateLimit
  <2> HIDE DEF b, u, m
  <2>3. sess'[p].cred = sess[p].cred /\ sess'[p].upd = sess[p].upd /\ sess'[p].buf = b
    BY <1>0, <2>1 DEF LocalType
  <2> QED BY <1>1, <2>2, <2>3 DEF Carries, RateLimit
<1>2. CASE TryCode(p)
  <2>1. PICK e \in Typed(sess[p]) :
          LET r == check_code(sess[p].buf, CodeOf(sess[p], e), now, sess[p].par.noskewadj)
          IN  sess'[p] = Attempt(sess[p], e, r) /\ (pc'[p] = "loop" => r.rc = 1)
    BY <1>0, <1>2 DEF TryCode, Goto
  <2> DEFINE code == CodeOf(sess[p], e)
             r == check_code(sess[p].buf, code, now, sess[p].par.noskewadj)
  <2>2. sess'[p] = Attempt(sess[p], e, r) /\ (pc'[p] = "loop" => r.rc = 1)
    BY <2>1
  <2> HIDE DEF r
  <2>3. /\ sess'[p].buf = r.buf /\ sess'[p].cred = r.cred
        /\ sess'[p].upd = (sess[p].upd \/ r.upd)
    BY <1>0, <2>2, AttemptFields
  <2>4. pc[p] = "loop" /\ pc'[p] \in {"loop", "conclude"}
    BY <1>0, <1>2 DEF TryCode, Goto
  <2> HIDE DEF code
  <2> QED BY <2>2, <2>3, <2>4 DEF Tries, r
<1>3. CASE SkipMode(p)
  <2>1. PICK e : sess'[p] = [sess[p] EXCEPT !.pw = e, !.mode = sess[p].mode + 1]
    BY <1>0, <1>3 DEF SkipMode
  <2>2. /\ sess'[p].cred = sess[p].cred /\ sess'[p].upd = sess[p].upd
        /\ sess'[p].buf = sess[p].buf
    BY <1>0, <2>1 DEF LocalType
  <2> QED BY <1>3, <2>2 DEF Carries, RestKept, SkipMode
<1>4. CASE Conclude(p)
  <2>1. PICK rc : sess' = [sess EXCEPT ![p] = Concluded(sess[p], rc)]
    BY <1>0, <1>4 DEF Conclude, Concluded, Return, Goto
  <2> DEFINE advance == sess[p].adv /\ ~sess[p].par.no_increment_hotp
             b == IF advance THEN advance_counter(sess[p].buf) ELSE sess[p].buf
             u == sess[p].upd \/ advance
  <2>2. Concluded(sess[p], rc) = [sess[p] EXCEPT !.rc = rc, !.buf = b, !.upd = u]
    BY Zenon DEF Concluded
  <2>3. sess[p].upd => u
    OBVIOUS
  <2>4. sess[p].buf \in File
    BY <1>0, <1>4 DEF Conclude
  <2>5. RestKept(sess[p].buf, b)
    BY <2>4, AdvanceKeeps DEF RestKept
  <2> HIDE DEF b, u
  <2>6. sess'[p].cred = sess[p].cred /\ sess'[p].upd = u /\ sess'[p].buf = b
    BY <1>0, <2>1, <2>2 DEF LocalType
  <2>7. pc'[p] \notin {"rate", "loop"}
    BY <1>0, <1>4 DEF Conclude, Return, Goto
  <2> QED BY <2>3, <2>5, <2>6, <2>7 DEF Carries
<1>5. CASE CreateTmp(p) \/ StatSame(p)
  <2>1. sess' = sess /\ pc'[p] \notin {"rate", "loop"}
    BY <1>0, <1>5 DEF CreateTmp, StatSame, Goto
  <2> QED BY <2>1 DEF Carries, RestKept
<1>6. CASE WriteTmp(p)
  <2>1. sess'[p] = [sess[p] EXCEPT !.wtime = now]
    BY <1>0, <1>6 DEF WriteTmp
  <2>2. sess'[p].cred = sess[p].cred /\ sess'[p].upd = sess[p].upd /\ sess'[p].buf = sess[p].buf
    BY <1>0, <2>1 DEF LocalType
  <2>3. pc'[p] = "rename"
    BY <1>0, <1>6 DEF WriteTmp, Goto
  <2> QED BY <2>2, <2>3 DEF Carries, RestKept
<1>7. ASSUME OpenMissing(p) \/ OpenFails(p) \/ CreateFails(p) \/ StatChanged(p) \/ Rename(p)
             \/ SaveFails(p) \/ Kill(p)
      PROVE  FALSE
  BY <1>0, <1>7 DEF OpenMissing, OpenFails, CreateFails, StatChanged, Rename, SaveFails, Kill,
                    Deny, Return, Goto
<1> QED BY <1>1, <1>2, <1>3, <1>4, <1>5, <1>6, <1>7 DEF Act, Step

\* The time of writing is set when the temporary file is written, and kept.
LEMMA WriteTime ==
    ASSUME LoginTypes, NEW p \in Login, Act(p), pc'[p] = "rename"
    PROVE  pc[p] = "write" /\ sess'[p].wtime = now /\ UNCHANGED <<now, mtime>>
<1>0. pc \in [Login -> Phase] /\ sess \in [Login -> LocalType]
  BY DEF LoginTypes
<1>1. WriteTmp(p)
  BY <1>0
  DEF Act, Open, OpenMissing, OpenFails, Step, RateLimit, TryCode, SkipMode, Conclude,
      CreateTmp, CreateFails, StatSame, StatChanged, Rename, SaveFails, Kill, Deny, Return, Goto
<1>2. sess'[p] = [sess[p] EXCEPT !.wtime = now]
  BY <1>0, <1>1 DEF WriteTmp
<1>3. sess'[p].wtime = now
  BY <1>0, <1>2 DEF LocalType
<1> QED BY <1>1, <1>3 DEF WriteTmp, shared

\* Only Tick moves the clock.
LEMMA ClockStays == ASSUME NEW p \in Login, Act(p) PROVE now' = now
BY DEF Act, Open, OpenMissing, OpenFails, Step, RateLimit, TryCode, SkipMode, Conclude,
       CreateTmp, CreateFails, StatSame, StatChanged, WriteTmp, Rename, SaveFails, Kill, shared

-------------------------------------------------------------------------------
(* DISALLOW_REUSE.                                                           *)

\* The parts of StepInv.
TimesOK ==
    /\ mtime <= now
    /\ \A p \in Login : pc[p] = "rename" => sess[p].wtime \in mtime..now
PolicyOK ==
    \A p \in Login : pc[p] \in Working => sess[p].buf.disallow_reuse = file.disallow_reuse
StepsMarked ==
    \A p \in Login : pc[p] \in Working /\ sess[p].cred.kind = "totp" /\ file.disallow_reuse
                        => sess[p].upd
AllTaken == \A p \in Login : StepTaken(p)
Beyond ==
    FreshStamps /\ file # NoFile /\ file.disallow_reuse /\ NoSkewTaught(file) =>
        \A g \in grants : g.cred.kind = "totp" => OutOfReach(g.cred.val)

LEMMA StepInvParts == StepInv <=> TimesOK /\ PolicyOK /\ StepsMarked /\ AllTaken /\ Beyond
BY DEF StepInv, TimesOK, PolicyOK, StepsMarked, AllTaken, Beyond

LEMMA TimesStep ==
    ASSUME LoginTypes, TmpExclusive, TimesOK, [Next]_vars
    PROVE  TimesOK'
<1>0. now \in Nat /\ mtime \in Nat /\ sess \in [Login -> LocalType]
  BY DEF LoginTypes
<1>1. CASE Tick
  BY <1>0, <1>1 DEF Tick, TimesOK, LocalType
<1>2. CASE UNCHANGED vars
  BY <1>2 DEF vars, TimesOK
<1>3. ASSUME NEW p \in Login, Act(p)
      PROVE  TimesOK'
  <2>1. now' = now
    BY <1>3, ClockStays
  <2>2. mtime' <= now' /\ (mtime' # mtime => Rename(p))
    <3>1. CASE Rename(p)
      BY <1>0, <2>1, <3>1 DEF Rename, TimesOK
    <3>2. CASE ~Rename(p)
      BY <1>3, <2>1, <3>2, OnlyRename DEF TimesOK
    <3> QED BY <3>1, <3>2
  <2>3. ASSUME NEW q \in Login, pc'[q] = "rename"
        PROVE  sess'[q].wtime \in mtime'..now'
    <3>1. CASE q = p
      BY <1>0, <1>3, <2>1, <2>3, <3>1, WriteTime DEF TimesOK
    <3>2. CASE q # p
      <4>1. pc[q] = "rename" /\ sess'[q] = sess[q]
        BY <1>3, <2>3, <3>2, Others
      <4>2. ~Rename(p)
        BY <3>2, <4>1 DEF Rename, TmpExclusive
      <4> QED BY <1>3, <2>1, <2>2, <4>1, <4>2 DEF TimesOK
    <3> QED BY <3>1, <3>2
  <2> QED BY <2>2, <2>3 DEF TimesOK
<1> QED BY <1>1, <1>2, <1>3 DEF Next, Act

LEMMA PolicyStep ==
    ASSUME IInv, PolicyOK, [Next]_vars
    PROVE  PolicyOK' /\ (file # NoFile => file'.disallow_reuse = file.disallow_reuse)
<1>0. LoginTypes /\ AllMarked
  BY DEF IInv, TypeOK, AllMarked
<1>1. CASE Tick \/ UNCHANGED vars
  BY <1>1 DEF Tick, vars, PolicyOK
<1>2. ASSUME NEW p \in Login, Act(p)
      PROVE  PolicyOK' /\ (file # NoFile => file'.disallow_reuse = file.disallow_reuse)
  <2>1. file'.disallow_reuse = file.disallow_reuse
    <3>1. CASE Rename(p)
      BY <3>1 DEF Rename, PolicyOK
    <3>2. CASE ~Rename(p)
      BY <1>2, <3>2, OnlyRename
    <3> QED BY <3>1, <3>2
  <2>2. ASSUME NEW q \in Login, pc'[q] \in Working
        PROVE  sess'[q].buf.disallow_reuse = file.disallow_reuse
    <3>1. CASE q # p
      BY <1>0, <1>2, <2>2, <3>1, Others DEF PolicyOK
    <3>2. CASE q = p /\ Open(p)
      BY <1>0, <3>2, Opened
    <3>3. CASE q = p /\ ~Open(p)
      <4>1. pc[p] \in Working /\ Traced(p)
        BY <1>0, <1>2, <2>2, <3>3, Inner, Advances DEF AllMarked
      <4> QED BY <3>3, <4>1 DEF Traced, Keeps, PolicyOK
    <3> QED BY <3>1, <3>2, <3>3
  <2> QED BY <2>1, <2>2 DEF PolicyOK
<1> QED BY <1>1, <1>2 DEF Next, Act

LEMMA StepsMarkedStep ==
    ASSUME IInv, PolicyOK, StepsMarked, [Next]_vars
    PROVE  StepsMarked'
<1> SUFFICES ASSUME NEW q \in Login, pc'[q] \in Working, sess'[q].cred.kind = "totp",
                    file'.disallow_reuse
             PROVE  sess'[q].upd
  BY DEF StepsMarked
<1>0. LoginTypes /\ now \in Nat
  BY DEF IInv, TypeOK, LoginTypes
<1>1. CASE Tick \/ UNCHANGED vars
  BY <1>1 DEF Tick, vars, StepsMarked
<1>2. ASSUME NEW p \in Login, Act(p)
      PROVE  sess'[q].upd
  <2>1. CASE q # p
    <3>1. pc[q] \in Working /\ sess'[q] = sess[q]
      BY <1>0, <1>2, <2>1, Others
    <3>2. file # NoFile
      BY <3>1 DEF IInv
    <3>3. file.disallow_reuse
      BY <3>2, PolicyStep
    <3> QED BY <3>1, <3>3 DEF StepsMarked
  <2>2. CASE q = p /\ Open(p)
    BY <1>0, <2>2, Opened, NoCredType
  <2>3. CASE q = p /\ ~Open(p)
    <3>1. pc[p] \in Working /\ file' = file /\ sess[p].buf \in File
      BY <1>0, <1>2, <2>3, Inner DEF LoginTypes
    <3>2. CASE Tries(p)
      <4>1. PICK code :
              LET r == check_code(sess[p].buf, code, now, sess[p].par.noskewadj)
              IN  sess'[p].cred = r.cred /\ (r.upd => sess'[p].upd)
        BY <3>2 DEF Tries
      <4> DEFINE r == check_code(sess[p].buf, code, now, sess[p].par.noskewadj)
      <4>2. Treats(sess[p].buf, r, get_timestamp(now))
        BY <1>0, <3>1, CheckTreats
      <4>3. sess[p].buf.disallow_reuse
        BY <3>1 DEF PolicyOK
      <4> HIDE DEF r
      <4> QED BY <2>3, <4>1, <4>2, <4>3 DEF Treats, r
    <3>3. CASE Carries(p)
      BY <2>3, <3>1, <3>3 DEF Carries, StepsMarked
    <3> QED BY <1>0, <1>2, <2>3, <3>2, <3>3, BufStep
  <2> QED BY <2>1, <2>2, <2>3
<1> QED BY <1>1, <1>2 DEF Next, Act


\* A login never looks at an earlier clock.
LEMMA ClockGrows ==
    ASSUME LoginTypes, [Next]_vars, NEW q \in Login, pc[q] \in Working, pc'[q] \in Working,
           ~\E p \in Login : Open(p) /\ p = q
    PROVE  Clock(q) \in Nat /\ Clock(q)' \in Nat /\ Clock(q) <= Clock(q)'
<1>0. now \in Nat /\ sess \in [Login -> LocalType] /\ pc \in [Login -> Phase]
  BY DEF LoginTypes
<1>1. now' \in Nat /\ sess' \in [Login -> LocalType]
  BY TypeStep DEF LoginTypes
<1>2. Clock(q) \in Nat /\ Clock(q)' \in Nat
  BY <1>0, <1>1 DEF Clock, LocalType
<1>3. CASE Tick
  BY <1>0, <1>2, <1>3 DEF Tick, Clock
<1>4. CASE UNCHANGED vars
  BY <1>0, <1>2, <1>4 DEF vars, Clock
<1>5. ASSUME NEW p \in Login, Act(p)
      PROVE  Clock(q) <= Clock(q)'
  <2>1. now' = now
    BY <1>5, ClockStays
  <2>2. CASE q # p
    BY <1>2, <1>5, <2>1, <2>2, Others DEF Clock
  <2>3. CASE q = p /\ pc'[q] = "rename"
    BY <1>2, <1>5, <2>1, <2>3, WriteTime DEF Clock
  <2>4. CASE q = p /\ pc'[q] # "rename"
    <3>1. pc[q] # "rename"
      BY <1>0, <1>5, <2>4
      DEF Act, Open, OpenMissing, OpenFails, Step, RateLimit, TryCode, SkipMode, Conclude, CreateTmp,
          CreateFails, StatSame, StatChanged, WriteTmp, Rename, SaveFails, Kill, Deny, Return, Goto
    <3> QED BY <1>0, <2>1, <2>4, <3>1 DEF Clock
  <2> QED BY <2>2, <2>3, <2>4
<1> QED BY <1>2, <1>3, <1>4, <1>5 DEF Next, Act

\* What Spends says depends on the settings, the list of the file and that of the buffer.
LEMMA SpendsTransfers ==
    ASSUME NEW f, NEW g, NEW l, NEW m, NEW T, Spends(f, l, T),
           g.window = f.window, g.skew = f.skew, g.blocked = f.blocked,
           m.cred = l.cred, m.buf.blocked = l.buf.blocked
    PROVE  Spends(g, m, T)
BY DEF Spends, Window, window_size

LEMMA TakenStep ==
    ASSUME IInv, TimesOK, AllTaken, [Next]_vars
    PROVE  AllTaken'
<1> SUFFICES ASSUME NEW q \in Login, pc'[q] \in Working, sess'[q].ver = version',
                    NoSkewTaught(sess'[q].buf)
             PROVE  /\ sess'[q].buf.skew = file'.skew
                    /\ sess'[q].cred.kind # "totp" => sess'[q].buf.blocked = file'.blocked
                    /\ sess'[q].cred.kind = "totp" /\ file'.disallow_reuse =>
                         \E T \in get_timestamp(mtime')..get_timestamp(Clock(q)') :
                             Spends(file', sess'[q], T)
  BY DEF AllTaken, StepTaken
<1>0. /\ LoginTypes /\ now \in Nat /\ mtime \in Nat /\ AllMarked
      /\ sess \in [Login -> LocalType] /\ pc \in [Login -> Phase]
  BY DEF IInv, TypeOK, LoginTypes, AllMarked
<1>1. ASSUME pc[q] \in Working, sess'[q].cred = sess[q].cred, sess[q].ver = version,
             RestKept(sess[q].buf, sess'[q].buf), UNCHANGED <<file, mtime>>,
             Clock(q) \in Nat, Clock(q)' \in Nat, Clock(q) <= Clock(q)'
      PROVE  /\ sess'[q].buf.skew = file'.skew
             /\ sess'[q].cred.kind # "totp" => sess'[q].buf.blocked = file'.blocked
             /\ sess'[q].cred.kind = "totp" /\ file'.disallow_reuse =>
                  \E T \in get_timestamp(mtime')..get_timestamp(Clock(q)') :
                      Spends(file', sess'[q], T)
  <2>1. NoSkewTaught(sess[q].buf)
    BY <1>1 DEF NoSkewTaught, RestKept
  <2>2. /\ sess[q].buf.skew = file.skew
        /\ sess[q].cred.kind # "totp" => sess[q].buf.blocked = file.blocked
        /\ sess[q].cred.kind = "totp" /\ file.disallow_reuse =>
             \E T \in get_timestamp(mtime)..get_timestamp(Clock(q)) : Spends(file, sess[q], T)
    BY <1>1, <2>1 DEF AllTaken, StepTaken
  <2>3. ASSUME sess[q].cred.kind = "totp", file.disallow_reuse
        PROVE  \E T \in get_timestamp(mtime')..get_timestamp(Clock(q)') : Spends(file', sess'[q], T)
    <3>1. PICK T \in get_timestamp(mtime)..get_timestamp(Clock(q)) : Spends(file, sess[q], T)
      BY <2>2, <2>3
    <3>2. /\ get_timestamp(Clock(q)) \in Int /\ get_timestamp(Clock(q)') \in Int
          /\ get_timestamp(Clock(q)) <= get_timestamp(Clock(q)')
      BY <1>1, StepsGrow
    <3>3. get_timestamp(mtime) \in Int
      BY <1>0, StepsGrow
    <3>4. Spends(file', sess'[q], T)
      BY <1>1, <3>1, SpendsTransfers DEF RestKept
    <3>5. T \in get_timestamp(mtime')..get_timestamp(Clock(q)')
      BY <1>1, <3>2, <3>3
    <3> QED BY <3>4, <3>5
  <2> QED BY <1>1, <2>2, <2>3 DEF RestKept
<1>2. CASE Tick \/ UNCHANGED vars
  <2>1. UNCHANGED <<file, mtime, pc, sess, version>>
    BY <1>2 DEF Tick, vars, history
  <2>2. ~\E p \in Login : Open(p) /\ p = q
    BY <1>0, <2>1 DEF Open, Goto
  <2>3. Clock(q) \in Nat /\ Clock(q)' \in Nat /\ Clock(q) <= Clock(q)'
    BY <1>0, <2>1, <2>2, ClockGrows
  <2> QED BY <1>1, <2>1, <2>3 DEF RestKept
<1>3. ASSUME NEW p \in Login, Act(p)
      PROVE  /\ sess'[q].buf.skew = file'.skew
             /\ sess'[q].cred.kind # "totp" => sess'[q].buf.blocked = file'.blocked
             /\ sess'[q].cred.kind = "totp" /\ file'.disallow_reuse =>
                  \E T \in get_timestamp(mtime')..get_timestamp(Clock(q)') :
                      Spends(file', sess'[q], T)
  <2>1. CASE q # p /\ ~Rename(p)
    <3>1. pc'[q] = pc[q] /\ sess'[q] = sess[q] /\ UNCHANGED <<file, mtime, version>>
      BY <1>0, <1>3, <2>1, Others, OnlyRename
    <3>2. ~\E o \in Login : Open(o) /\ o = q
      BY <1>0, <3>1, Opened
    <3>3. Clock(q) \in Nat /\ Clock(q)' \in Nat /\ Clock(q) <= Clock(q)'
      BY <1>0, <3>1, <3>2, ClockGrows
    <3> QED BY <1>1, <3>1, <3>3 DEF RestKept
  <2>2. CASE q # p /\ Rename(p)
    <3>1. pc[q] \in Working /\ sess'[q] = sess[q] /\ version' = version + 1
      BY <1>0, <1>3, <2>2, Others DEF Rename
    <3>2. sess[q].ver <= version /\ version \in Nat /\ sess[q].ver \in Nat
      BY <1>0, <3>1 DEF IInv, HasRead, LoginTypes, LocalType
    <3>3. sess[q].ver = version + 1
      BY <3>1
    <3> QED BY <3>2, <3>3, SMT
  <2>3. CASE q = p /\ Open(p)
    <3>1. sess'[q].buf = file /\ sess'[q].cred = NoCred /\ file' = file
      BY <1>0, <2>3, Opened
    <3> QED BY <3>1, NoCredType
  <2>4. CASE q = p /\ ~Open(p)
    <3>1. /\ pc[p] \in Working /\ sess[p].ver = version /\ UNCHANGED <<file, mtime>>
          /\ Traced(p)
      BY <1>0, <1>3, <2>4, Inner, Advances DEF SameRead, AllMarked
    <3>2. CASE Carries(p)
      <4>1. Clock(q) \in Nat /\ Clock(q)' \in Nat /\ Clock(q) <= Clock(q)'
        BY <1>0, <2>4, <3>1, ClockGrows
      <4> QED BY <1>1, <2>4, <3>1, <3>2, <4>1 DEF Carries
    <3>3. CASE Tries(p)
      <4>1. PICK code :
              LET r == check_code(sess[p].buf, code, now, sess[p].par.noskewadj)
              IN  /\ sess'[p].buf = r.buf /\ sess'[p].cred = r.cred
                  /\ pc[p] = "loop" /\ pc'[p] \in {"loop", "conclude"}
        BY <3>3 DEF Tries
      <4> DEFINE r == check_code(sess[p].buf, code, now, sess[p].par.noskewadj)
                 T == get_timestamp(now)
      <4>2. sess[p].buf \in File /\ file # NoFile
        BY <1>0, <3>1 DEF LoginTypes, IInv
      <4>3. Treats(sess[p].buf, r, T)
        BY <1>0, <4>2, CheckTreats
      <4>4. sess'[p].buf = r.buf /\ sess'[p].cred = r.cred /\ pc[p] = "loop" /\ pc'[p] # "rename"
        BY <4>1
      <4> HIDE DEF r
      <4>5. sess[p].cred.kind # "totp"
        BY <4>4, NoCredType DEF IInv, Marked
      <4>6. NoSkewTaught(sess[p].buf)
        BY <2>4, <3>1 DEF Traced, Keeps, NoSkewTaught
      <4>7. sess[p].buf.skew = file.skew /\ sess[p].buf.blocked = file.blocked
        BY <3>1, <4>5, <4>6 DEF AllTaken, StepTaken
      <4>8. file.window = sess[p].buf.window /\ file.disallow_reuse = sess[p].buf.disallow_reuse
        BY <3>1, <4>2 DEF IInv, Derived, Keeps
      <4>9. sess'[p].buf.skew = file.skew
        BY <2>4, <4>3, <4>4, <4>7 DEF Treats
      <4>10. sess'[p].cred.kind # "totp" => sess'[p].buf.blocked = file.blocked
        BY <2>4, <4>3, <4>4, <4>7 DEF Treats
      <4>11. ASSUME sess'[p].cred.kind = "totp", file.disallow_reuse
             PROVE  \E S \in get_timestamp(mtime)..get_timestamp(Clock(q)') : Spends(file, sess'[p], S)
        <5>1. Spends(sess[p].buf, r, T)
          BY <2>4, <4>3, <4>4, <4>8, <4>11 DEF Treats
        <5>2. Spends(file, sess'[p], T)
          BY <4>4, <4>7, <4>8, <5>1, SpendsTransfers
        <5>3. get_timestamp(mtime) \in Int /\ T \in Int /\ get_timestamp(mtime) <= T
          BY <1>0, StepsGrow DEF TimesOK
        <5>4. Clock(q)' = now
          BY <1>3, <2>4, <4>4, ClockStays DEF Clock
        <5> HIDE DEF T
        <5>5. T \in get_timestamp(mtime)..T
          BY <5>3
        <5> QED BY <5>2, <5>4, <5>5 DEF T
      <4> QED BY <2>4, <3>1, <4>9, <4>10, <4>11
    <3> QED BY <1>0, <1>3, <2>4, <3>2, <3>3, BufStep
  <2> QED BY <2>1, <2>2, <2>3, <2>4
<1> QED BY <1>2, <1>3 DEF Next, Act


\* The window moves on: a step that was used and is out of reach stays so when the
\* step u of the window of time T has been taken, and steps far from u are dropped.
LEMMA ReachMoves ==
    ASSUME NEW w \in Nat, NEW lo \in Nat, NEW hi \in Nat, lo + hi = w - 1,
           NEW s \in Int, NEW B, NEW C, NEW v \in Int,
           NEW S \in Int, NEW T \in Int, NEW N \in Int, S <= T, T <= N,
           v \in B \/ \A x \in S + s - lo .. S + s + hi : v < x,
           v <= S + s + hi,
           NEW u \in T + s - lo .. T + s + hi,
           \A b \in B \ C : b <= u - w \/ b >= u + w
    PROVE  /\ v \in C \/ \A x \in N + s - lo .. N + s + hi : v < x
           /\ v <= N + s + hi
           /\ u \notin B => u # v
<1>1. u \in Int
  OBVIOUS
<1>2. v \in B \/ v < S + s - lo
  <2>1. S + s - lo \in S + s - lo .. S + s + hi
    OBVIOUS
  <2> QED BY <2>1
<1>3. v \in B /\ v \notin C => v < N + s - lo
  <2>1. v \in B /\ v \notin C => v <= u - w \/ v >= u + w
    OBVIOUS
  <2> QED BY <2>1
<1>4. v \in C \/ v < N + s - lo
  BY <1>2, <1>3
<1>5. v \in C \/ \A x \in N + s - lo .. N + s + hi : v < x
  BY <1>4
<1>6. u \notin B => u # v
  BY <1>2
<1> QED BY <1>5, <1>6

\* The same when no step was taken.
LEMMA ReachStays ==
    ASSUME NEW lo \in Nat, NEW hi \in Nat, NEW s \in Int, NEW B, NEW v \in Int,
           NEW S \in Int, NEW N \in Int, S <= N,
           v \in B \/ \A x \in S + s - lo .. S + s + hi : v < x,
           v <= S + s + hi
    PROVE  /\ v \in B \/ \A x \in N + s - lo .. N + s + hi : v < x
           /\ v <= N + s + hi
<1>1. S + s - lo \in S + s - lo .. S + s + hi
  OBVIOUS
<1>2. v \in B \/ v < S + s - lo
  BY <1>1
<1> QED BY <1>2

\* The file is replaced by the login p, which has read it.
LEMMA Replaced ==
    ASSUME IInv, TimesOK, FreshStamps, NEW p \in Login, Rename(p)
    PROVE  /\ file \in File /\ sess[p].buf \in File /\ sess[p].ver = version
           /\ Keeps(file, sess[p].buf) /\ file' = sess[p].buf /\ mtime' = sess[p].wtime
           /\ Clock(p) = mtime' /\ mtime \in Nat /\ mtime' \in Nat /\ mtime <= mtime'
           /\ pc[p] \in Working
<1>0. pc[p] = "rename" /\ file' = sess[p].buf /\ mtime' = sess[p].wtime
  BY DEF Rename
<1>1. file # NoFile /\ sess[p].ver = version
  BY <1>0 DEF IInv, NoLostUpdate
<1>2. file \in File /\ sess[p].buf \in File /\ mtime \in Nat /\ now \in Nat
      /\ sess \in [Login -> LocalType]
  BY <1>0, <1>1 DEF IInv, TypeOK, LoginTypes
<1>3. Keeps(file, sess[p].buf)
  BY <1>0, <1>1 DEF IInv, Derived
<1>4. sess[p].wtime \in Nat /\ sess[p].wtime \in mtime..now
  BY <1>0, <1>2 DEF LocalType, TimesOK
<1>5. mtime <= sess[p].wtime
  BY <1>2, <1>4
<1> QED BY <1>0, <1>1, <1>2, <1>3, <1>4, <1>5 DEF Clock

\* What a login that was let in by a step leaves behind.
LEMMA SpendsBeyond ==
    ASSUME IInv, TimesOK, AllTaken, FreshStamps, NEW p \in Login, Rename(p),
           file'.disallow_reuse, NoSkewTaught(file')
    PROVE  /\ \A v : OutOfReach(v) => OutOfReach(v)'
           /\ sess[p].cred.kind = "totp" =>
                \A v : v = sess[p].cred.val => OutOfReach(v)' /\ ~OutOfReach(v)
<1> DEFINE w == window_size(file)
           lo == (w - 1) \div 2
           hi == w \div 2
           s == file.skew
           S == get_timestamp(mtime)
           N == get_timestamp(mtime')
           B == file.blocked
           C == file'.blocked
           u == sess[p].cred.val
<1>1. /\ file \in File /\ sess[p].buf \in File /\ sess[p].ver = version
      /\ Keeps(file, sess[p].buf) /\ file' = sess[p].buf
      /\ Clock(p) = mtime' /\ mtime \in Nat /\ mtime' \in Nat /\ mtime <= mtime'
      /\ pc[p] \in Working
  BY Replaced
<1>2. NoSkewTaught(sess[p].buf) /\ file.disallow_reuse
  BY <1>1 DEF NoSkewTaught, Keeps
<1>3. /\ sess[p].buf.skew = file.skew
      /\ sess[p].cred.kind # "totp" => sess[p].buf.blocked = file.blocked
      /\ sess[p].cred.kind = "totp" =>
           \E T \in get_timestamp(mtime)..get_timestamp(Clock(p)) : Spends(file, sess[p], T)
  BY <1>1, <1>2 DEF AllTaken, StepTaken
<1>4. file'.skew = s /\ window_size(file') = w
  BY <1>1, <1>3 DEF Keeps, window_size
<1>5. S \in Int /\ N \in Int /\ S <= N
  BY <1>1, StepsGrow
<1>6. s \in Int
  BY <1>1 DEF File, Lines
<1>7. ASSUME NEW v, OutOfReach(v)
      PROVE  /\ v \in Int /\ v <= S + s + hi
             /\ v \in B \/ \A x \in S + s - lo .. S + s + hi : v < x
             /\ w # 0
  BY <1>7 DEF OutOfReach, Window
<1>8. ASSUME NEW v \in Int, w # 0, v <= N + s + hi,
             v \in C \/ \A x \in N + s - lo .. N + s + hi : v < x
      PROVE  OutOfReach(v)'
  BY <1>4, <1>8 DEF OutOfReach, Window
<1>9. w # 0 => w \in Nat /\ lo \in Nat /\ hi \in Nat /\ lo + hi = w - 1
  <2>1. w \in 0..100
    BY WindowType
  <2> HIDE DEF w
  <2> QED BY <2>1
<1>10. ASSUME NEW T \in S..N, Spends(file, sess[p], T)
       PROVE  /\ w # 0 /\ u \in T + s - lo .. T + s + hi
              /\ u \notin B /\ u \in C /\ \A b \in B \ C : b <= u - w \/ b >= u + w
  BY <1>1, <1>10 DEF Spends, Window
<1> HIDE DEF w, lo, hi, s, S, N, B, C, u
<1>11. CASE sess[p].cred.kind # "totp"
  <2> SUFFICES ASSUME NEW v, OutOfReach(v) PROVE OutOfReach(v)'
    BY <1>11
  <2>1. C = B
    BY <1>1, <1>3, <1>11 DEF C, B
  <2>2. /\ v \in B \/ \A x \in N + s - lo .. N + s + hi : v < x
        /\ v <= N + s + hi
    BY <1>5, <1>6, <1>7, <1>9, ReachStays
  <2> QED BY <1>7, <1>8, <2>1, <2>2
<1>12. CASE sess[p].cred.kind = "totp"
  <2>1. PICK T \in S..N : Spends(file, sess[p], T)
    BY <1>1, <1>3, <1>12 DEF S, N
  <2>2. /\ w # 0 /\ u \in T + s - lo .. T + s + hi
        /\ u \notin B /\ u \in C /\ \A b \in B \ C : b <= u - w \/ b >= u + w
    BY <1>10, <2>1
  <2>3. T \in Int /\ S <= T /\ T <= N
    BY <1>5, <2>1
  <2>4. ASSUME NEW v, OutOfReach(v)
        PROVE  OutOfReach(v)' /\ v # u
    <3>1. /\ v \in C \/ \A x \in N + s - lo .. N + s + hi : v < x
          /\ v <= N + s + hi
          /\ u # v
      BY <1>5, <1>6, <1>7, <1>9, <2>2, <2>3, <2>4, ReachMoves
    <3> QED BY <1>7, <1>8, <2>4, <3>1
  <2>5. u \in Int /\ u <= N + s + hi
    BY <1>5, <1>6, <1>9, <2>2, <2>3
  <2>6. \A v : v = u => OutOfReach(v)'
    BY <1>8, <2>2, <2>5
  <2> QED BY <2>4, <2>6 DEF u
<1> QED BY <1>11, <1>12

\* With DISALLOW_REUSE a step lets nobody in unless it is recorded.
LEMMA StepNeedsRename ==
    ASSUME IInv, StepsMarked, NEW p \in Login, Act(p), NEW g \in grants', g \notin grants,
           g.cred.kind = "totp", file.disallow_reuse
    PROVE  Rename(p) /\ g.n = sess[p].id /\ g.cred = sess[p].cred
<1>0. LoginTypes
  BY DEF IInv, TypeOK
<1>1. ~OpenMissing(p) \/ g.cred # NoCred
  BY NoCredType
<1>2. ~Conclude(p) \/ g.cred # sess[p].cred \/ sess[p].upd
  BY DEF Conclude, StepsMarked
<1> QED BY <1>0, <1>1, <1>2, Granted

LEMMA BeyondStep ==
    ASSUME IInv, StepInv, [Next]_vars
    PROVE  Beyond'
<1> SUFFICES ASSUME FreshStamps', file' # NoFile, file'.disallow_reuse, NoSkewTaught(file'),
                    NEW g \in grants', g.cred.kind = "totp"
             PROVE  OutOfReach(g.cred.val)'
  BY DEF Beyond
<1>0. FreshStamps /\ TimesOK /\ PolicyOK /\ StepsMarked /\ AllTaken /\ Beyond
  BY SeenGrows, StepInvParts
<1>1. CASE Tick \/ UNCHANGED vars
  BY <1>0, <1>1 DEF Tick, vars, history, Beyond, OutOfReach
<1>2. ASSUME NEW p \in Login, Act(p)
      PROVE  OutOfReach(g.cred.val)'
  <2>1. CASE Rename(p)
    <3>1. /\ sess[p].cred.kind = "totp" => \A v : v = sess[p].cred.val => OutOfReach(v)'
          /\ \A v : OutOfReach(v) => OutOfReach(v)'
      BY <1>0, <2>1, SpendsBeyond
    <3>2. file \in File /\ Keeps(file, file')
      BY <1>0, <2>1, Replaced
    <3>3. file # NoFile /\ file.disallow_reuse /\ NoSkewTaught(file)
      BY <3>2, NoFileFresh DEF Keeps, NoSkewTaught
    <3>4. g \in grants => OutOfReach(g.cred.val)
      BY <1>0, <3>3 DEF Beyond
    <3>5. g \notin grants => g.cred = sess[p].cred
      BY <1>0, <1>2, <3>3, StepNeedsRename
    <3> QED BY <3>1, <3>4, <3>5
  <2>2. CASE ~Rename(p)
    <3>1. UNCHANGED <<file, mtime>>
      BY <1>2, <2>2, OnlyRename
    <3>2. g \in grants
      BY <1>0, <1>2, <2>2, <3>1, StepNeedsRename
    <3>3. OutOfReach(g.cred.val)
      BY <1>0, <3>1, <3>2 DEF Beyond
    <3> QED BY <3>1, <3>3 DEF OutOfReach
  <2> QED BY <2>1, <2>2
<1> QED BY <1>1, <1>2 DEF Next, Act

\* StepInv is an invariant, together with IInv: a step that let somebody in stays out
\* of reach of the windows to come.
THEOREM StepsInductive == Spec => []StepInv
<1>1. Init => StepInv
  <2> SUFFICES ASSUME Init PROVE StepInv
    OBVIOUS
  <2>1. \A p \in Login : pc[p] = "idle"
    BY DEF Init
  <2>2. mtime <= now /\ grants = {}
    BY DEF Init
  <2> QED BY <2>1, <2>2 DEF StepInv, StepTaken
<1>2. IInv /\ StepInv /\ [Next]_vars => StepInv'
  <2> SUFFICES ASSUME IInv, StepInv, [Next]_vars PROVE StepInv'
    OBVIOUS
  <2>1. LoginTypes /\ TmpExclusive /\ TimesOK /\ PolicyOK /\ StepsMarked /\ AllTaken
    BY StepInvParts DEF IInv, TypeOK
  <2>2. TimesOK' /\ PolicyOK' /\ StepsMarked' /\ AllTaken' /\ Beyond'
    BY <2>1, TimesStep, PolicyStep, StepsMarkedStep, TakenStep, BeyondStep
  <2> QED BY <2>2
      DEF StepInv, TimesOK, PolicyOK, StepsMarked, AllTaken, Beyond
<1> QED BY <1>1, <1>2, Inductive, PTL DEF Spec

\* With DISALLOW_REUSE, and as long as no login has taught a TIME_SKEW, the code of a
\* step lets one login in, whatever number of logins had read the file before.
THEOREM StepsAreSingleUse == Spec => []StepSingleUse
<1>1. Init => StepSingleUse
  BY DEF Init, StepSingleUse, StepNeverReused
<1>2. IInv /\ StepInv /\ StepSingleUse /\ [Next]_vars => StepSingleUse'
  <2> SUFFICES ASSUME IInv, StepInv, StepSingleUse, [Next]_vars,
                      file' # NoFile, NoSkewTaught(file'), FreshStamps', file'.disallow_reuse,
                      NEW g \in grants', NEW h \in grants', g.cred = h.cred, g.cred.kind = "totp"
               PROVE  g.n = h.n
    BY DEF StepSingleUse, StepNeverReused
  <2>0. FreshStamps /\ TimesOK /\ PolicyOK /\ StepsMarked /\ AllTaken /\ Beyond
    BY SeenGrows, StepInvParts
  <2>1. CASE Tick \/ UNCHANGED vars
    BY <2>0, <2>1 DEF Tick, vars, history, StepSingleUse, StepNeverReused
  <2>2. ASSUME NEW p \in Login, Act(p)
        PROVE  g.n = h.n
    <3>1. file # NoFile /\ file.disallow_reuse /\ NoSkewTaught(file)
      <4>1. CASE Rename(p)
        <5>1. file \in File /\ Keeps(file, file')
          BY <2>0, <4>1, Replaced
        <5> QED BY <5>1, NoFileFresh DEF Keeps, NoSkewTaught
      <4>2. CASE ~Rename(p)
        BY <2>2, <4>2, OnlyRename
      <4> QED BY <4>1, <4>2
    <3>2. ASSUME NEW x \in grants', x \notin grants, NEW y \in grants, x.cred = y.cred,
                 x.cred.kind = "totp"
          PROVE  FALSE
      <4>1. Rename(p) /\ x.cred = sess[p].cred
        BY <2>0, <2>2, <3>1, <3>2, StepNeedsRename
      <4>2. OutOfReach(y.cred.val)
        BY <2>0, <3>1, <3>2 DEF Beyond
      <4> QED BY <2>0, <3>2, <4>1, <4>2, SpendsBeyond
    <3>3. CASE g \in grants /\ h \in grants
      BY <2>0, <3>1, <3>3 DEF StepSingleUse, StepNeverReused
    <3>4. CASE g \notin grants /\ h \notin grants
      BY <2>0, <2>2, <3>1, <3>4, StepNeedsRename
    <3> QED BY <3>2, <3>3, <3>4
  <2> QED BY <2>1, <2>2 DEF Next, Act
<1> QED BY <1>1, <1>2, Inductive, StepsInductive, PTL DEF Spec

-------------------------------------------------------------------------------
(* The learning of TIME_SKEW.                                                *)

\* A login that has read the version in force has kept the skews on record until it
\* accepts a code, and a skew it has learnt agrees with them.
SkewLearnt(p) ==
    pc[p] \in Working /\ sess[p].ver = version =>
        /\ pc[p] \in {"rate", "loop"} =>
             sess[p].buf.skew = file.skew /\ sess[p].buf.resetting = file.resetting
        /\ sess[p].buf.skew # file.skew => Agrees(file, sess[p].buf.skew)
SkewInv == \A p \in Login : SkewLearnt(p)

LEMMA SkewStep == IInv /\ SkewInv /\ [Next]_vars => SkewInv'
<1> SUFFICES ASSUME IInv, SkewInv, [Next]_vars, NEW q \in Login, pc'[q] \in Working,
                    sess'[q].ver = version'
             PROVE  /\ pc'[q] \in {"rate", "loop"} =>
                         /\ sess'[q].buf.skew = file'.skew
                         /\ sess'[q].buf.resetting = file'.resetting
                    /\ sess'[q].buf.skew # file'.skew => Agrees(file', sess'[q].buf.skew)
  BY DEF SkewInv, SkewLearnt, Agrees
<1>0. LoginTypes /\ now \in Nat /\ sess \in [Login -> LocalType]
  BY DEF IInv, TypeOK, LoginTypes
<1>1. CASE Tick \/ UNCHANGED vars
  <2>1. UNCHANGED <<file, pc, sess, version>>
    BY <1>1 DEF Tick, vars, history
  <2> QED BY <2>1 DEF SkewInv, SkewLearnt
<1>2. ASSUME NEW p \in Login, Act(p)
      PROVE  /\ pc'[q] \in {"rate", "loop"} =>
                  sess'[q].buf.skew = file'.skew /\ sess'[q].buf.resetting = file'.resetting
             /\ sess'[q].buf.skew # file'.skew => Agrees(file', sess'[q].buf.skew)
  <2>1. CASE q # p /\ ~Rename(p)
    <3>1. pc'[q] = pc[q] /\ sess'[q] = sess[q] /\ UNCHANGED <<file, version>>
      BY <1>0, <1>2, <2>1, Others, OnlyRename
    <3> QED BY <3>1 DEF SkewInv, SkewLearnt
  <2>2. CASE q # p /\ Rename(p)
    <3>1. pc[q] \in Working /\ sess'[q] = sess[q] /\ version' = version + 1
      BY <1>0, <1>2, <2>2, Others DEF Rename
    <3>2. sess[q].ver <= version /\ version \in Nat /\ sess[q].ver \in Nat
      BY <1>0, <3>1 DEF IInv, HasRead, LoginTypes, LocalType
    <3>3. sess[q].ver = version + 1
      BY <3>1
    <3> QED BY <3>2, <3>3, SMT
  <2>3. CASE q = p /\ Open(p)
    BY <1>0, <2>3, Opened
  <2>4. CASE q = p /\ ~Open(p)
    <3>1. pc[p] \in Working /\ sess[p].ver = version /\ file' = file /\ sess[p].buf \in File
      BY <1>0, <1>2, <2>4, Inner DEF SameRead, LoginTypes
    <3>2. CASE Carries(p)
      BY <2>4, <3>1, <3>2 DEF Carries, RestKept, SkewInv, SkewLearnt
    <3>3. CASE Tries(p)
      <4>1. PICK code :
              LET r == check_code(sess[p].buf, code, now, sess[p].par.noskewadj)
              IN  sess'[p].buf = r.buf /\ pc[p] = "loop" /\ (pc'[p] = "loop" => r.rc = 1)
                  /\ pc'[p] # "rate"
        BY <3>3 DEF Tries
      <4> DEFINE r == check_code(sess[p].buf, code, now, sess[p].par.noskewadj)
      <4>2. Treats(sess[p].buf, r, get_timestamp(now)) /\ Sound(sess[p].buf, r)
        BY <1>0, <3>1, CheckTreats, CheckSound
      <4> HIDE DEF r
      <4>3. /\ sess'[p].buf = r.buf /\ pc[p] = "loop" /\ pc'[p] # "rate"
            /\ pc'[p] = "loop" => r.buf = sess[p].buf
        BY <4>1, <4>2 DEF r, Sound
      <4>4. sess[p].buf.skew = file.skew /\ sess[p].buf.resetting = file.resetting
        BY <3>1, <4>3 DEF SkewInv, SkewLearnt
      <4>5. r.buf.skew # file.skew => Agrees(file, r.buf.skew)
        BY <4>2, <4>4 DEF Treats, Agrees
      <4> QED BY <2>4, <3>1, <4>3, <4>4, <4>5
    <3> QED BY <1>0, <1>2, <2>4, <3>2, <3>3, BufStep
  <2> QED BY <2>1, <2>2, <2>3, <2>4
<1> QED BY <1>1, <1>2 DEF Next, Act

\* A skew is learnt while the code is tried.
LEMMA SkewIsLearnt ==
    ASSUME IInv, [Next]_vars, NEW p \in Login, pc[p] = "loop", pc'[p] = "conclude",
           sess'[p].buf.skew # sess[p].buf.skew
    PROVE  Learnt(sess[p].buf, sess'[p], get_timestamp(now))
<1>0. LoginTypes /\ now \in Nat /\ sess \in [Login -> LocalType]
  BY DEF IInv, TypeOK, LoginTypes
<1>1. Act(p)
  <2>1. ~UNCHANGED vars /\ ~Tick
    BY DEF vars, Tick
  <2>2. ASSUME NEW q \in Login, Act(q), q # p
        PROVE  FALSE
    BY <1>0, <2>2, Others
  <2> QED BY <2>1, <2>2 DEF Next, Act
<1>2. sess[p].buf \in File /\ ~Open(p)
  BY <1>0 DEF LoginTypes, Open
<1>3. CASE Carries(p)
  BY <1>3 DEF Carries, RestKept
<1>4. CASE Tries(p)
  <2>1. PICK code :
          LET r == check_code(sess[p].buf, code, now, sess[p].par.noskewadj)
          IN  sess'[p].buf = r.buf /\ sess'[p].cred = r.cred
    BY <1>4 DEF Tries
  <2> DEFINE r == check_code(sess[p].buf, code, now, sess[p].par.noskewadj)
  <2>2. Treats(sess[p].buf, r, get_timestamp(now))
    BY <1>0, <1>2, CheckTreats
  <2> HIDE DEF r
  <2>3. sess'[p].buf = r.buf /\ sess'[p].cred = r.cred
    BY <2>1 DEF r
  <2> QED BY <2>2, <2>3 DEF Treats, Learnt
<1> QED BY <1>0, <1>1, <1>2, <1>3, <1>4, BufStep

\* A login that teaches a TIME_SKEW agrees with all three skews it averages, and the
\* file it replaces still has two of them on record, whatever other logins wrote in
\* between.
THEOREM SkewsAgree == Spec => SkewAgrees
<1> DEFINE Teaching ==
             \A p \in Login :
                 pc[p] = "loop" /\ pc'[p] = "conclude" /\ sess'[p].buf.skew # sess[p].buf.skew =>
                     Learnt(sess[p].buf, sess'[p], get_timestamp(now))
           Saved == FreshStamps' /\ file # NoFile /\ file'.skew # file.skew => Agrees(file, file'.skew)
<1>1. Init => SkewInv
  BY DEF Init, SkewInv, SkewLearnt
<1>2. IInv /\ [Next]_vars => Teaching
  BY SkewIsLearnt
<1>3. IInv /\ SkewInv /\ [Next]_vars => Saved
  <2> SUFFICES ASSUME IInv, SkewInv, [Next]_vars, FreshStamps', file'.skew # file.skew
               PROVE  Agrees(file, file'.skew)
    OBVIOUS
  <2>0. FreshStamps
    BY SeenGrows
  <2>1. CASE Tick \/ UNCHANGED vars
    BY <2>1 DEF Tick, vars
  <2>2. ASSUME NEW p \in Login, Act(p)
        PROVE  Agrees(file, file'.skew)
    <3>1. Rename(p)
      BY <2>2, OnlyRename
    <3>2. pc[p] = "rename" /\ file' = sess[p].buf /\ sess[p].ver = version
      BY <2>0, <3>1 DEF Rename, IInv, NoLostUpdate
    <3> QED BY <3>2 DEF SkewInv, SkewLearnt
  <2> QED BY <2>1, <2>2 DEF Next, Act
<1>4. [Teaching /\ Saved]_vars =>
        [ /\ \A p \in Login :
               pc[p] = "loop" /\ pc'[p] = "conclude" /\ sess'[p].buf.skew # sess[p].buf.skew =>
                   LET own == [tm |-> get_timestamp(now), skew |-> sess'[p].cred.val - get_timestamp(now)]
                       h   == Recent(sess[p].buf.resetting, own)
                   IN  Len(h) = HISTORY /\ Near(sess'[p].buf.skew, h, 1) /\ Moderate(sess'[p].buf.skew, h)
          /\ FreshStamps' /\ file # NoFile /\ file'.skew # file.skew =>
               Near(file'.skew, file.resetting, Len(file.resetting) - 1) ]_vars
  BY DEF Learnt, Agrees
<1> HIDE DEF Teaching, Saved
<1> QED BY <1>1, <1>2, <1>3, <1>4, SkewStep, Inductive, PTL DEF Spec, SkewAgrees

-------------------------------------------------------------------------------
(* The list of attempts that rate_limit() keeps.                             *)

\* The entries up to x are the first UpTo(s, x) ones of a sorted list, and the length
\* of that beginning determines UpTo.
LEMMA CutIs ==
    ASSUME NEW s \in Seq(Nat), NEW x \in Int, NEW k \in 0..Len(s),
           \A i \in 1..k : s[i] <= x,
           \A i \in k+1..Len(s) : ~(s[i] <= x)
    PROVE  UpTo(s, x) = k
<1>1. DOMAIN s = 1..Len(s) /\ Len(s) \in Nat
  BY LenProperties
<1>2. {i \in DOMAIN s : s[i] <= x} = 1..k
  BY <1>1
<1>3. Cardinality(1..k) = k
  BY <1>1, FS_Interval
<1> QED BY <1>2, <1>3 DEF UpTo

LEMMA CutOf ==
    ASSUME NEW s \in Seq(Nat), Sorted(s), NEW x \in Int
    PROVE  /\ UpTo(s, x) \in 0..Len(s)
           /\ \A i \in 1..UpTo(s, x) : s[i] <= x
           /\ \A i \in UpTo(s, x)+1..Len(s) : ~(s[i] <= x)
<1> DEFINE D == {i \in DOMAIN s : s[i] <= x}
           k == UpTo(s, x)
<1>1. DOMAIN s = 1..Len(s) /\ Len(s) \in Nat /\ \A i \in 1..Len(s) : s[i] \in Nat
  BY LenProperties, ElementOfSeq
<1>2. k \in 0..Len(s)
  BY UpToType
<1>3. k = Cardinality(D)
  BY DEF UpTo
<1>4. D \in SUBSET (1..Len(s)) /\ IsFiniteSet(1..Len(s))
  BY <1>1, FS_Interval
<1>5. IsFiniteSet(D)
  BY <1>4, FS_Subset
<1> HIDE DEF k
<1>6. D \subseteq 1..k
  <2> SUFFICES ASSUME NEW i \in D PROVE i \in 1..k
    OBVIOUS
  <2>1. i \in 1..Len(s) /\ s[i] <= x
    BY <1>4
  <2>2. 1..i \in SUBSET D
    <3> SUFFICES ASSUME NEW j \in 1..i PROVE j \in D
      OBVIOUS
    <3>1. j \in DOMAIN s /\ i \in DOMAIN s /\ j <= i
      BY <1>1, <2>1
    <3>2. s[j] <= s[i] /\ s[j] \in Nat /\ s[i] \in Nat
      BY <1>1, <3>1 DEF Sorted
    <3> QED BY <2>1, <3>1, <3>2
  <2> HIDE DEF D
  <2>3. Cardinality(1..i) <= Cardinality(D)
    BY <1>5, <2>2, FS_Subset
  <2>4. Cardinality(1..i) = i
    BY <2>1, FS_Interval
  <2> QED BY <1>2, <1>3, <2>1, <2>3, <2>4
<1>7. D = 1..k
  <2> HIDE DEF D
  <2>1. IsFiniteSet(1..k) /\ Cardinality(1..k) = k
    BY <1>2, FS_Interval
  <2>2. D \in SUBSET (1..k)
    BY <1>6
  <2> QED BY <1>3, <2>1, <2>2, FS_Subset
<1>8. \A i \in 1..k : s[i] <= x
  BY <1>7
<1>9. \A i \in k+1..Len(s) : ~(s[i] <= x)
  <2> SUFFICES ASSUME NEW i \in k+1..Len(s), s[i] <= x PROVE FALSE
    OBVIOUS
  <2>1. i \in D
    BY <1>1, <1>2
  <2> HIDE DEF D
  <2> QED BY <1>2, <1>7, <2>1
<1> QED BY <1>2, <1>8, <1>9 DEF k

LEMMA UpToGrows ==
    ASSUME NEW s \in Seq(Nat), NEW x \in Int, NEW y \in Int, x <= y
    PROVE  UpTo(s, x) <= UpTo(s, y)
<1>1. DOMAIN s = 1..Len(s) /\ Len(s) \in Nat /\ \A i \in 1..Len(s) : s[i] \in Nat
  BY LenProperties, ElementOfSeq
<1> DEFINE C == {i \in DOMAIN s : s[i] <= x}
           D == {i \in DOMAIN s : s[i] <= y}
<1>2. C \in SUBSET D
  BY <1>1
<1>3. D \in SUBSET (1..Len(s)) /\ IsFiniteSet(1..Len(s))
  BY <1>1, FS_Interval
<1> HIDE DEF C, D
<1>4. Cardinality(C) <= Cardinality(D)
  BY <1>2, <1>3, FS_Subset
<1> QED BY <1>4 DEF UpTo, C, D

\* The list with the attempt of time t added.
LEMMA Inserted ==
    ASSUME NEW s \in Seq(Nat), NEW t \in Nat
    PROVE  LET k == UpTo(s, t)
               all == Insert(s, t)
           IN  /\ all \in Seq(Nat) /\ Len(all) = Len(s) + 1
               /\ \A i \in 1..k : all[i] = s[i]
               /\ all[k + 1] = t
               /\ \A i \in k+2..Len(s)+1 : all[i] = s[i - 1]
<1> DEFINE k == UpTo(s, t)
           n == Len(s)
           a == SubSeq(s, 1, k)
           b == SubSeq(s, k + 1, n)
           c == a \o <<t>>
           all == c \o b
<1>0. Insert(s, t) = all
  BY DEF Insert
<1>1. k \in 0..n /\ n \in Nat
  BY UpToType, LenProperties
<1>2. \A i \in 1..n : s[i] \in Nat
  BY ElementOfSeq
<1> HIDE DEF k, n
<1>3. a \in Seq(Nat) /\ Len(a) = k /\ \A i \in 1..k : a[i] = s[i]
  <2>1. \A i \in 1..k : s[i] \in Nat
    BY <1>1, <1>2
  <2>2. /\ a \in Seq(Nat) /\ Len(a) = IF 1 <= k THEN k - 1 + 1 ELSE 0
        /\ \A i \in 1..k-1+1 : a[i] = s[1+i-1]
    BY <1>1, <2>1, SubSeqProperties
  <2> HIDE DEF a
  <2> QED BY <1>1, <2>2
<1>4. b \in Seq(Nat) /\ Len(b) = n - k /\ \A i \in 1..n-k : b[i] = s[k+i]
  <2>1. \A i \in k+1..n : s[i] \in Nat
    BY <1>1, <1>2
  <2>2. /\ b \in Seq(Nat) /\ Len(b) = IF k+1 <= n THEN n - (k+1) + 1 ELSE 0
        /\ \A i \in 1..n-(k+1)+1 : b[i] = s[(k+1)+i-1]
    BY <1>1, <2>1, SubSeqProperties, SMTT(30)
  <2> HIDE DEF b
  <2> QED BY <1>1, <2>2
<1> HIDE DEF a, b
<1>5. <<t>> \in Seq(Nat) /\ Len(<<t>>) = 1 /\ <<t>>[1] = t
  OBVIOUS
<1> DEFINE one == <<t>>
<1> HIDE DEF one
<1>6. /\ c \in Seq(Nat) /\ Len(c) = Len(a) + Len(one)
      /\ \A i \in 1..Len(a) + Len(one) : c[i] = IF i <= Len(a) THEN a[i] ELSE one[i - Len(a)]
  BY <1>3, <1>5, ConcatProperties DEF one
<1>7. one[1] = t /\ Len(one) = 1
  BY <1>5 DEF one
<1> HIDE DEF c
<1>8. c \in Seq(Nat) /\ Len(c) = k + 1 /\ (\A i \in 1..k : c[i] = s[i]) /\ c[k + 1] = t
  BY <1>1, <1>3, <1>6, <1>7
<1>9. /\ all \in Seq(Nat) /\ Len(all) = Len(c) + Len(b)
      /\ \A i \in 1..Len(c) + Len(b) : all[i] = IF i <= Len(c) THEN c[i] ELSE b[i - Len(c)]
  BY <1>4, <1>8, ConcatProperties
<1> HIDE DEF all
<1>10. /\ all \in Seq(Nat) /\ Len(all) = n + 1
       /\ (\A i \in 1..k : all[i] = s[i]) /\ all[k + 1] = t
  BY <1>1, <1>4, <1>8, <1>9
<1>11. \A i \in k+2..n+1 : all[i] = s[i - 1]
  <2> SUFFICES ASSUME NEW i \in k+2..n+1 PROVE all[i] = s[i - 1]
    OBVIOUS
  <2>1. all[i] = b[i - (k + 1)]
    BY <1>1, <1>4, <1>8, <1>9
  <2>2. i - (k + 1) \in 1..n-k /\ k + (i - (k + 1)) = i - 1
    BY <1>1
  <2> QED BY <1>4, <2>1, <2>2
<1> QED BY <1>0, <1>10, <1>11 DEF k, n

LEMMA InsertedCuts ==
    ASSUME NEW s \in Seq(Nat), Sorted(s), NEW t \in Nat
    PROVE  /\ Sorted(Insert(s, t))
           /\ UpTo(Insert(s, t), t) = UpTo(s, t) + 1
           /\ \A x \in Int : x < t => UpTo(Insert(s, t), x) = UpTo(s, x)
<1> DEFINE k == UpTo(s, t)
           n == Len(s)
           all == Insert(s, t)
<1>0. t \in Int
  OBVIOUS
<1>1. k \in 0..n /\ n \in Nat /\ DOMAIN s = 1..n /\ \A i \in 1..n : s[i] \in Nat
  <2>1. k \in 0..n
    BY <1>0, UpToType, Zenon
  <2>2. n \in Nat /\ DOMAIN s = 1..n /\ \A i \in 1..n : s[i] \in Nat
    BY LenProperties, ElementOfSeq
  <2> QED BY <2>1, <2>2
<1>2. /\ all \in Seq(Nat) /\ Len(all) = n + 1
      /\ (\A i \in 1..k : all[i] = s[i]) /\ all[k + 1] = t
      /\ \A i \in k+2..n+1 : all[i] = s[i - 1]
  BY Inserted
<1>3. (\A i \in 1..k : s[i] <= t) /\ (\A i \in k+1..n : ~(s[i] <= t))
  BY <1>0, CutOf, Zenon
<1>4. DOMAIN all = 1..n+1
  BY <1>2, LenProperties
<1>5. \A i, j \in 1..n : i <= j => s[i] <= s[j]
  BY <1>1 DEF Sorted
<1> HIDE DEF k, n, all
<1>6. ASSUME NEW i \in 1..n+1, NEW j \in 1..n+1, i <= j
      PROVE  all[i] <= all[j]
  <2>1. CASE j <= k
    <3>1. i \in 1..k /\ j \in 1..k /\ i \in 1..n /\ j \in 1..n
      BY <1>1, <1>6, <2>1
    <3> QED BY <1>2, <1>5, <1>6, <3>1
  <2>2. CASE j = k + 1
    <3>1. i \in 1..k \/ i = k + 1
      BY <1>1, <1>6, <2>2
    <3> QED BY <1>2, <1>3, <2>2, <3>1
  <2>3. CASE j > k + 1
    <3>1. j \in k+2..n+1 /\ j - 1 \in 1..n /\ j - 1 \in k+1..n
      BY <1>1, <2>3
    <3>2. all[j] = s[j - 1] /\ s[j - 1] \in Nat /\ ~(s[j - 1] <= t)
      BY <1>1, <1>2, <1>3, <3>1
    <3>3. CASE i <= k
      <4>1. i \in 1..k /\ i \in 1..n /\ i <= j - 1
        BY <1>1, <1>6, <2>3, <3>3
      <4> QED BY <1>2, <1>5, <3>1, <3>2, <4>1
    <3>4. CASE i = k + 1
      BY <1>2, <3>2, <3>4
    <3>5. CASE i > k + 1
      <4>1. i \in k+2..n+1 /\ i - 1 \in 1..n /\ i - 1 <= j - 1
        BY <1>1, <1>6, <3>5
      <4> QED BY <1>2, <1>5, <3>1, <3>2, <4>1
    <3> QED BY <1>1, <3>3, <3>4, <3>5
  <2> QED BY <1>1, <2>1, <2>2, <2>3
<1>7. Sorted(all)
  BY <1>4, <1>6 DEF Sorted
<1>8. UpTo(all, t) = k + 1
  <2>1. k + 1 \in 0..Len(all)
    BY <1>1, <1>2
  <2>2. ASSUME NEW i \in 1..k+1 PROVE all[i] <= t
    <3>1. i \in 1..k \/ i = k + 1
      BY <1>1
    <3> QED BY <1>2, <1>3, <3>1
  <2>3. ASSUME NEW i \in (k+1)+1..Len(all) PROVE ~(all[i] <= t)
    <3>1. i \in k+2..n+1 /\ i - 1 \in k+1..n
      BY <1>1, <1>2
    <3> QED BY <1>2, <1>3, <3>1
  <2> DEFINE l == k + 1
  <2> HIDE DEF l
  <2>4. l \in 0..Len(all) /\ (\A i \in 1..l : all[i] <= t) /\ (\A i \in l+1..Len(all) : ~(all[i] <= t))
    BY <2>1, <2>2, <2>3 DEF l
  <2>5. UpTo(all, t) = l
    BY <1>0, <1>2, <2>4, CutIs
  <2> QED BY <2>5 DEF l
<1>9. ASSUME NEW x \in Int, x < t
      PROVE  UpTo(all, x) = UpTo(s, x)
  <2> DEFINE m == UpTo(s, x)
  <2>1. m \in 0..n /\ (\A i \in 1..m : s[i] <= x) /\ (\A i \in m+1..n : ~(s[i] <= x))
    BY CutOf DEF n
  <2>2. m <= k
    BY <1>9, UpToGrows DEF k
  <2> HIDE DEF m
  <2>3. m \in 0..Len(all)
    BY <1>1, <1>2, <2>1
  <2>4. ASSUME NEW i \in 1..m PROVE all[i] <= x
    BY <1>1, <1>2, <2>1, <2>2
  <2>5. ASSUME NEW i \in m+1..Len(all) PROVE ~(all[i] <= x)
    <3>1. CASE i <= k
      <4>1. i \in 1..k /\ i \in m+1..n
        BY <1>1, <2>1, <3>1
      <4> QED BY <1>2, <2>1, <4>1
    <3>2. CASE i = k + 1
      BY <1>2, <1>9, <3>2
    <3>3. CASE i > k + 1
      <4>1. i \in k+2..n+1 /\ i - 1 \in m+1..n
        BY <1>1, <1>2, <2>1, <2>2, <3>3
      <4> QED BY <1>2, <2>1, <4>1
    <3> QED BY <1>1, <2>1, <3>1, <3>2, <3>3
  <2>6. UpTo(all, x) = m
    BY <1>2, <2>3, <2>4, <2>5, CutIs
  <2> QED BY <2>6 DEF m
<1> QED BY <1>7, <1>8, <1>9 DEF k, all


LEMMA SliceCuts ==
    ASSUME NEW s \in Seq(Nat), Sorted(s), NEW m \in Nat, NEW n \in 0..Len(s),
           m >= 1, m <= n + 1, NEW x \in Int
    PROVE  LET L == SubSeq(s, m, n)
               k == UpTo(s, x)
           IN  /\ L \in Seq(Nat) /\ Len(L) = n - m + 1 /\ Sorted(L)
               /\ UpTo(L, x) = IF k >= n THEN n - m + 1 ELSE IF k < m THEN 0 ELSE k - m + 1
<1> DEFINE L == SubSeq(s, m, n)
           k == UpTo(s, x)
           c == IF k >= n THEN n - m + 1 ELSE IF k < m THEN 0 ELSE k - m + 1
           N == Len(s)
<1>1. N \in Nat /\ DOMAIN s = 1..N /\ \A i \in 1..N : s[i] \in Nat
  BY LenProperties, ElementOfSeq
<1>2. k \in 0..N /\ (\A i \in 1..k : s[i] <= x) /\ (\A i \in k+1..N : ~(s[i] <= x))
  BY CutOf
<1>3. \A i, j \in 1..N : i <= j => s[i] <= s[j]
  BY <1>1 DEF Sorted
<1>4. n \in 0..N
  OBVIOUS
<1> HIDE DEF k, N
<1>5. \A i \in m..n : s[i] \in Nat
  BY <1>1, <1>4
<1>6. L \in Seq(Nat) /\ Len(L) = n - m + 1 /\ \A i \in 1..n-m+1 : L[i] = s[m+i-1]
  <2>1. m \in Int /\ n \in Int
    BY <1>1, <1>4
  <2>2. /\ L \in Seq(Nat) /\ Len(L) = IF m <= n THEN n - m + 1 ELSE 0
        /\ \A i \in 1..n-m+1 : L[i] = s[m+i-1]
    BY <1>5, <2>1, SubSeqProperties
  <2> HIDE DEF L
  <2> QED BY <2>1, <2>2, SMTT(30)
<1>7. DOMAIN L = 1..n-m+1
  BY <1>6, LenProperties
<1> HIDE DEF L
<1>8. Sorted(L)
  <2> SUFFICES ASSUME NEW i \in 1..n-m+1, NEW j \in 1..n-m+1, i <= j PROVE L[i] <= L[j]
    BY <1>7 DEF Sorted
  <2>1. m+i-1 \in 1..N /\ m+j-1 \in 1..N /\ m+i-1 <= m+j-1
    BY <1>1, <1>4
  <2> QED BY <1>3, <1>6, <2>1
<1>9. c \in 0..Len(L)
  BY <1>1, <1>2, <1>4, <1>6
<1>10. ASSUME NEW i \in 1..c PROVE L[i] <= x
  <2>1. i \in 1..n-m+1 /\ m+i-1 \in 1..k
    BY <1>1, <1>2, <1>4
  <2> QED BY <1>2, <1>6, <2>1
<1>11. ASSUME NEW i \in c+1..Len(L) PROVE ~(L[i] <= x)
  <2>1. i \in 1..n-m+1 /\ m+i-1 \in k+1..N
    BY <1>1, <1>2, <1>4, <1>6
  <2> QED BY <1>2, <1>6, <2>1
<1> HIDE DEF c
<1>12. UpTo(L, x) = c
  BY <1>6, <1>9, <1>10, <1>11, CutIs
<1> QED BY <1>6, <1>8, <1>12 DEF L, k, c

\* One more attempt at time t is within the limit of f.
Within(f, t) ==
    (UpTo(f.stamps, t) + 1) - UpTo(f.stamps, t - f.interval - 1) <= f.attempts

\* The list L holds the attempts of f since any time y of the interval before t and one
\* more, or as many as the limit.
Lists(f, t, L) ==
    \A x \in Int : \A y \in t - f.interval .. t : x >= t =>
        LET c == UpTo(L, x) - UpTo(L, y - 1)
        IN  c = (UpTo(f.stamps, t) + 1) - UpTo(f.stamps, y - 1) \/ c >= f.attempts

\* rate_limit() lists the attempt of time t among those of the interval; the list is
\* cut short only at the limit, and the attempt is refused when it would be longer.
LEMMA RateEffect ==
    ASSUME NEW f \in File, Sorted(f.stamps), NEW t \in Nat, f.attempts > 0, rate_limit(f, t).upd
    PROVE  /\ Sorted(rate_limit(f, t).buf.stamps)
           /\ rate_limit(f, t).rc = 0 => Within(f, t)
           /\ Lists(f, t, rate_limit(f, t).buf.stamps)
<1> DEFINE s == f.stamps
           I == f.interval
           A == f.attempts
           all == Insert(s, t)
           stop == UpTo(all, t)
           low == UpTo(all, t - I - 1)
           exceeded == stop - (low + 1) + 1 > A
           first == IF exceeded THEN stop - A + 1 ELSE low + 1
           L == SubSeq(all, first, stop)
<1>1. s \in Seq(Nat) /\ I \in Nat /\ A \in Nat /\ A > 0
  BY DEF File, Lines
<1>2. rate_limit(f, t).buf.stamps = L /\ (rate_limit(f, t).rc = 0 => ~exceeded)
  <2> DEFINE list == L
  <2>1. rate_limit(f, t) = [rc |-> IF exceeded THEN -1 ELSE 0,
                            buf |-> [f EXCEPT !.stamps = list], upd |-> TRUE]
    <3>1. f.attempts # 0
      BY <1>1
    <3>2. ~Unreadable(f)
      <4> SUFFICES ASSUME Unreadable(f) PROVE FALSE
        OBVIOUS
      <4>1. rate_limit(f, t) = [rc |-> -1, buf |-> f, upd |-> FALSE]
        BY <3>1, RateLimitForms, Zenon
      <4> QED BY <4>1
    <3> QED BY <3>1, <3>2, RateLimitForms, Zenon
  <2> HIDE DEF list, exceeded
  <2>2. f \in Lines
    BY DEF File
  <2>3. [f EXCEPT !.stamps = list].stamps = list
    BY <2>2 DEF Lines
  <2>4. rate_limit(f, t).buf.stamps = list
    <3>1. rate_limit(f, t).buf = [f EXCEPT !.stamps = list]
      BY <2>1
    <3> QED BY <2>3, <3>1
  <2>5. rate_limit(f, t).rc = 0 => ~exceeded
    BY <2>1
  <2> QED BY <2>4, <2>5 DEF list
<1>3. /\ Sorted(all) /\ stop = UpTo(s, t) + 1
      /\ \A x \in Int : x < t => UpTo(all, x) = UpTo(s, x)
  BY <1>1, InsertedCuts
<1>4. all \in Seq(Nat)
  BY <1>1, InsertType
<1> HIDE DEF s, I, A, all
<1>5. t - I - 1 \in Int /\ t - I - 1 < t /\ t \in Int
  BY <1>1
<1>6. stop \in 0..Len(all) /\ low \in 0..Len(all) /\ low <= stop /\ Len(all) \in Nat
  <2>1. stop \in 0..Len(all) /\ low \in 0..Len(all)
    BY <1>4, <1>5, UpToType, Zenon
  <2>2. low <= stop
    BY <1>4, <1>5, UpToGrows
  <2> QED BY <1>4, <2>1, <2>2, LenProperties
<1>7. low = UpTo(s, t - I - 1)
  BY <1>3, <1>5
<1> HIDE DEF stop, low
<1>8. first \in Nat /\ first >= 1 /\ first <= stop + 1 /\ (first # low + 1 => first = stop - A + 1)
  BY <1>1, <1>6
<1>9. ~exceeded => stop - low <= A
  BY <1>1, <1>6
<1> HIDE DEF first, exceeded
<1>10. ASSUME NEW x \in Int
       PROVE  LET k == UpTo(all, x)
              IN  /\ L \in Seq(Nat) /\ Sorted(L)
                  /\ UpTo(L, x) = IF k >= stop THEN stop - first + 1
                                  ELSE IF k < first THEN 0 ELSE k - first + 1
  BY <1>3, <1>4, <1>6, <1>8, SliceCuts
<1> HIDE DEF L
<1>11. Sorted(L)
  BY <1>5, <1>10
<1>12. ASSUME NEW x \in Int, NEW y \in t - I .. t, x >= t
       PROVE  \/ UpTo(L, x) - UpTo(L, y - 1) = stop - UpTo(s, y - 1)
              \/ UpTo(L, x) - UpTo(L, y - 1) >= A
  <2>1. y \in Int /\ y - 1 \in Int /\ y - 1 < t /\ t - I - 1 <= y - 1 /\ y - 1 <= t
    BY <1>1
  <2> DEFINE z == y - 1
             k == UpTo(all, z)
             u == UpTo(all, x)
  <2>2. z \in Int /\ z < t /\ t - I - 1 <= z /\ z <= t
    BY <2>1
  <2> HIDE DEF z
  <2>3. k = UpTo(s, z) /\ k \in 0..Len(all) /\ u \in 0..Len(all)
    BY <1>3, <1>4, <2>2, UpToType
  <2>4. low <= k /\ k <= stop /\ stop <= u
    BY <1>4, <1>5, <1>12, <2>2, UpToGrows DEF low, stop
  <2>5. UpTo(L, x) = stop - first + 1
    BY <1>10, <2>4
  <2>6. UpTo(L, z) = IF k >= stop THEN stop - first + 1 ELSE IF k < first THEN 0 ELSE k - first + 1
    BY <1>10, <2>2
  <2> HIDE DEF k, u
  <2>7. UpTo(L, x) - UpTo(L, z) = stop - k \/ UpTo(L, x) - UpTo(L, z) >= A
    BY <1>1, <1>6, <1>8, <2>3, <2>4, <2>5, <2>6
  <2> QED BY <2>3, <2>7 DEF z
<1>13. rate_limit(f, t).rc = 0 => stop - UpTo(s, t - I - 1) <= A
  BY <1>2, <1>7, <1>9
<1>0. stop = UpTo(s, t) + 1
  BY <1>3
<1>14. rate_limit(f, t).rc = 0 => Within(f, t)
  <2>1. rate_limit(f, t).rc = 0 => (UpTo(s, t) + 1) - UpTo(s, t - I - 1) <= A
    BY <1>0, <1>13
  <2> QED BY <2>1, Zenon DEF Within, s, I, A
<1>15. Lists(f, t, L)
  <2>1. \A x \in Int : \A y \in t - I .. t : x >= t =>
          \/ UpTo(L, x) - UpTo(L, y - 1) = (UpTo(s, t) + 1) - UpTo(s, y - 1)
          \/ UpTo(L, x) - UpTo(L, y - 1) >= A
    BY <1>0, <1>12
  <2> QED BY <2>1, Zenon DEF Lists, s, I, A
<1> QED BY <1>2, <1>11, <1>14, <1>15

-------------------------------------------------------------------------------
(* RATE_LIMIT.                                                               *)

\* An attempt is recorded, and the login goes on to the loop only if it is admitted.
Limits(p) ==
    LET r == rate_limit(sess[p].buf, now)
    IN  /\ pc[p] = "rate" /\ pc'[p] \in {"loop", "create"}
        /\ sess'[p].buf = r.buf /\ sess'[p].early = r.upd /\ sess'[p].at = now
        /\ sess'[p].rc = sess[p].rc
        /\ r.rc = 0 \/ r.upd
        /\ pc'[p] = "loop" => r.rc = 0

\* Any later step leaves the record alone.
Passes(p) ==
    /\ pc[p] # "rate" /\ pc'[p] # "rate"
    /\ sess'[p].early = sess[p].early /\ sess'[p].at = sess[p].at
    /\ sess'[p].buf.stamps = sess[p].buf.stamps
    /\ pc'[p] \in {"loop", "conclude"} => pc[p] = "loop"
    /\ sess'[p].rc = "SUCCESS" => sess[p].rc = "SUCCESS" \/ pc[p] = "loop"

LEMMA RateStep ==
    ASSUME LoginTypes, NEW p \in Login, Act(p), ~Open(p), pc'[p] \in Working
    PROVE  Limits(p) \/ Passes(p)
<1>0. /\ pc \in [Login -> Phase] /\ sess \in [Login -> LocalType] /\ now \in Nat
      /\ pc[p] \in Working => sess[p].buf \in File
  BY DEF LoginTypes
<1>1. CASE RateLimit(p)
  <2> DEFINE r == rate_limit(sess[p].buf, now)
             b == r.buf
             u == r.upd
             m == FirstMode(sess[p].par)
             l == [sess[p] EXCEPT !.buf = b, !.early = u, !.at = now, !.mode = m]
  <2>1. /\ sess'[p] = l /\ pc[p] = "rate" /\ (r.rc = 0 \/ r.upd)
        /\ pc'[p] = IF r.rc = 0 THEN "loop" ELSE "create"
    BY <1>0, <1>1 DEF RateLimit, Deny, Return, Goto
  <2> HIDE DEF b, u, m
  <2>2. /\ sess'[p].buf = b /\ sess'[p].early = u /\ sess'[p].at = now
        /\ sess'[p].rc = sess[p].rc
    BY <1>0, <2>1 DEF LocalType
  <2> QED BY <2>1, <2>2 DEF Limits, b, u
<1>2. CASE TryCode(p)
  <2>1. PICK e \in Typed(sess[p]) :
          LET r == check_code(sess[p].buf, CodeOf(sess[p], e), now, sess[p].par.noskewadj)
          IN  sess'[p] = Attempt(sess[p], e, r)
    BY <1>0, <1>2 DEF TryCode
  <2> DEFINE r == check_code(sess[p].buf, CodeOf(sess[p], e), now, sess[p].par.noskewadj)
             k == sess[p].mode + 1
             u == sess[p].upd \/ r.upd
             a == r.adv \/ (sess[p].adv /\ r.cred.kind # "hotp")
             v == IF r.rc = 0 THEN "SUCCESS" ELSE "SESSION_ERR"
             b == r.buf
             c == r.cred
  <2>2. pc[p] = "loop" /\ pc'[p] \in {"loop", "conclude"} /\ sess[p].buf \in File
    BY <1>0, <1>2 DEF TryCode, Goto
  <2>3. b.stamps = sess[p].buf.stamps
    BY <1>0, <2>2, CheckSound DEF Sound
  <2> HIDE DEF r
  <2>4. sess'[p] = [sess[p] EXCEPT !.pw = e, !.mode = k, !.buf = b, !.upd = u, !.adv = a,
                                   !.cred = c, !.rc = v]
    BY <2>1 DEF Attempt, r
  <2> HIDE DEF k, u, a, v, b, c
  <2>5. sess'[p].early = sess[p].early /\ sess'[p].at = sess[p].at /\ sess'[p].buf = b
    BY <1>0, <2>4 DEF LocalType
  <2> QED BY <2>2, <2>3, <2>5 DEF Passes
<1>3. CASE SkipMode(p)
  <2>1. PICK e : sess'[p] = [sess[p] EXCEPT !.pw = e, !.mode = sess[p].mode + 1]
    BY <1>0, <1>3 DEF SkipMode
  <2>2. /\ sess'[p].early = sess[p].early /\ sess'[p].at = sess[p].at
        /\ sess'[p].buf = sess[p].buf /\ sess'[p].rc = sess[p].rc
    BY <1>0, <2>1 DEF LocalType
  <2>3. pc[p] = "loop" /\ pc'[p] \in {"loop", "conclude"}
    BY <1>0, <1>3 DEF SkipMode, Goto
  <2> QED BY <2>2, <2>3 DEF Passes
<1>4. CASE Conclude(p)
  <2>1. PICK rc \in {sess[p].rc} \cup {"SESSION_ERR"} :
           sess' = [sess EXCEPT ![p] = Concluded(sess[p], rc)]
    BY <1>0, <1>4 DEF Conclude, Concluded, Return, Goto
  <2> DEFINE advance == sess[p].adv /\ ~sess[p].par.no_increment_hotp
             b == IF advance THEN advance_counter(sess[p].buf) ELSE sess[p].buf
             u == sess[p].upd \/ advance
  <2>2. Concluded(sess[p], rc) = [sess[p] EXCEPT !.rc = rc, !.buf = b, !.upd = u]
    BY Zenon DEF Concluded
  <2>3. pc[p] = "conclude" /\ pc'[p] = "create" /\ sess[p].buf \in File
    BY <1>0, <1>4 DEF Conclude, Return, Goto
  <2>4. b.stamps = sess[p].buf.stamps
    BY <2>3, AdvanceKeeps
  <2> HIDE DEF b, u
  <2>5. /\ sess'[p].early = sess[p].early /\ sess'[p].at = sess[p].at
        /\ sess'[p].buf = b /\ sess'[p].rc = rc
    BY <1>0, <2>1, <2>2 DEF LocalType
  <2> QED BY <2>1, <2>3, <2>4, <2>5 DEF Passes
<1>5. CASE CreateTmp(p) \/ StatSame(p)
  <2>1. sess' = sess /\ pc[p] # "rate" /\ pc'[p] \in {"stat", "write"}
    BY <1>0, <1>5 DEF CreateTmp, StatSame, Goto
  <2> QED BY <2>1 DEF Passes
<1>6. CASE WriteTmp(p)
  <2>1. sess'[p] = [sess[p] EXCEPT !.wtime = now]
    BY <1>0, <1>6 DEF WriteTmp
  <2>2. /\ sess'[p].early = sess[p].early /\ sess'[p].at = sess[p].at
        /\ sess'[p].buf = sess[p].buf /\ sess'[p].rc = sess[p].rc
    BY <1>0, <2>1 DEF LocalType
  <2>3. pc[p] = "write" /\ pc'[p] = "rename"
    BY <1>0, <1>6 DEF WriteTmp, Goto
  <2> QED BY <2>2, <2>3 DEF Passes
<1>7. ASSUME OpenMissing(p) \/ OpenFails(p) \/ CreateFails(p) \/ StatChanged(p) \/ Rename(p)
             \/ SaveFails(p) \/ Kill(p)
      PROVE  FALSE
  BY <1>0, <1>7 DEF OpenMissing, OpenFails, CreateFails, StatChanged, Rename, SaveFails, Kill,
                    Deny, Return, Goto
<1> QED BY <1>1, <1>2, <1>3, <1>4, <1>5, <1>6, <1>7 DEF Act, Step

\* With RATE_LIMIT, an attempt that is not refused at once is recorded.
LEMMA RateMarks ==
    ASSUME NEW f, NEW t, f.attempts \in Nat, f.attempts > 0,
           rate_limit(f, t).rc = 0 \/ rate_limit(f, t).upd
    PROVE  rate_limit(f, t).upd
<1>0. f.attempts # 0
  OBVIOUS
<1>1. CASE Unreadable(f)
  <2>1. rate_limit(f, t) = [rc |-> -1, buf |-> f, upd |-> FALSE]
    BY <1>0, <1>1, RateLimitForms, Zenon
  <2> QED BY <2>1
<1>2. CASE ~Unreadable(f)
  <2> DEFINE all == Insert(f.stamps, t)
             stop == UpTo(all, t)
             start == UpTo(all, t - f.interval - 1) + 1
             exceeded == stop - start + 1 > f.attempts
             list == SubSeq(all, IF exceeded THEN stop - f.attempts + 1 ELSE start, stop)
             rc == IF exceeded THEN -1 ELSE 0
             buf == [f EXCEPT !.stamps = list]
  <2>1. rate_limit(f, t) = [rc |-> rc, buf |-> buf, upd |-> TRUE]
    BY <1>0, <1>2, RateLimitForms, Zenon
  <2> HIDE DEF rc, buf
  <2> QED BY <2>1
<1> QED BY <1>1, <1>2

AllRated == \A p \in Login : RateTaken(p)
SortedOK == file # NoFile => Sorted(file.stamps)

LEMMA RatedStep ==
    ASSUME IInv, TimesOK, AllRated, SortedOK, [Next]_vars
    PROVE  AllRated' /\ SortedOK' /\ (file # NoFile => file'.attempts = file.attempts)
<1>0. /\ LoginTypes /\ now \in Nat /\ mtime \in Nat /\ AllMarked
      /\ sess \in [Login -> LocalType] /\ pc \in [Login -> Phase]
  BY DEF IInv, TypeOK, LoginTypes, AllMarked
<1>1. CASE Tick \/ UNCHANGED vars
  <2>1. UNCHANGED <<file, mtime, pc, sess, version>>
    BY <1>1 DEF Tick, vars, history
  <2>2. ASSUME NEW q \in Login, pc[q] \in Working
        PROVE  Clock(q) \in Nat /\ Clock(q)' \in Nat /\ Clock(q) <= Clock(q)'
    <3>1. ~\E p \in Login : Open(p) /\ p = q
      BY <1>0, <2>1 DEF Open, Goto
    <3> QED BY <1>0, <2>1, <2>2, <3>1, ClockGrows
  <2>3. ASSUME NEW q \in Login, pc'[q] \in Working
        PROVE  RateTaken(q)'
    <3>1. RateTaken(q) /\ pc[q] \in Working
      BY <2>1, <2>3 DEF AllRated
    <3>2. sess[q].at \in mtime..Clock(q) => sess[q].at \in mtime..Clock(q)'
      BY <1>0, <2>2, <3>1
    <3> QED BY <2>1, <3>1, <3>2 DEF RateTaken
  <2>4. AllRated'
    BY <2>3 DEF AllRated, RateTaken
  <2> QED BY <2>1, <2>4 DEF SortedOK
<1>2. ASSUME NEW p \in Login, Act(p)
      PROVE  AllRated' /\ SortedOK' /\ (file # NoFile => file'.attempts = file.attempts)
  <2>1. file'.attempts = file.attempts /\ SortedOK'
    <3>1. CASE Rename(p)
      BY <3>1 DEF Rename, AllRated, RateTaken, SortedOK
    <3>2. CASE ~Rename(p)
      BY <1>2, <3>2, OnlyRename DEF SortedOK
    <3> QED BY <3>1, <3>2
  <2>2. ASSUME NEW q \in Login, pc'[q] \in Working
        PROVE  RateTaken(q)'
    <3>1. CASE q # p /\ ~Rename(p)
      <4>1. pc'[q] = pc[q] /\ sess'[q] = sess[q] /\ UNCHANGED <<file, mtime, version>>
        BY <1>0, <1>2, <3>1, Others, OnlyRename
      <4>2. Clock(q)' = Clock(q)
        BY <1>2, <4>1, ClockStays DEF Clock
      <4> QED BY <4>1, <4>2 DEF AllRated, RateTaken
    <3>2. CASE q # p /\ Rename(p)
      <4>1. pc'[q] = pc[q] /\ sess'[q] = sess[q] /\ version' = version + 1
        BY <1>0, <1>2, <3>2, Others DEF Rename
      <4>2. sess[q].ver <= version /\ version \in Nat /\ sess[q].ver \in Nat
        BY <1>0, <2>2, <4>1 DEF IInv, HasRead, LoginTypes, LocalType
      <4>3. sess[q].ver # version'
        BY <4>1, <4>2
      <4>4. RateTaken(q) /\ pc[q] \in Working
        BY <2>2, <4>1 DEF AllRated
      <4> QED BY <2>1, <4>1, <4>3, <4>4 DEF RateTaken
    <3>3. CASE q = p /\ Open(p)
      <4>1. /\ file \in File /\ sess'[p].buf = file /\ file' = file /\ pc'[p] = "rate"
            /\ sess'[p].rc = "SESSION_ERR"
        BY <1>0, <3>3, Opened
      <4>2. Sorted(file.stamps)
        BY <4>1, NoFileFresh DEF SortedOK
      <4> QED BY <3>3, <4>1, <4>2 DEF RateTaken
    <3>4. CASE q = p /\ ~Open(p)
      <4>1. /\ pc[p] \in Working /\ sess'[p].ver = sess[p].ver
            /\ UNCHANGED <<file, mtime, version>> /\ Traced(p)
        BY <1>0, <1>2, <2>2, <3>4, Inner, Advances DEF SameRead, AllMarked
      <4>2. sess[p].buf \in File /\ RateTaken(p) /\ file # NoFile /\ file \in File
        BY <1>0, <4>1 DEF LoginTypes, AllRated, IInv
      <4>3. sess'[p].buf.attempts = file.attempts /\ sess[p].buf.attempts = file.attempts
            /\ Sorted(sess[p].buf.stamps) /\ file.attempts \in Nat
        BY <4>1, <4>2 DEF RateTaken, Traced, Keeps, File, Lines
      <4>4. CASE Passes(p)
        <5>1. Clock(p) \in Nat /\ Clock(p)' \in Nat /\ Clock(p) <= Clock(p)'
          BY <1>0, <2>2, <3>4, <4>1, ClockGrows
        <5>2. sess[p].at \in mtime..Clock(p) => sess[p].at \in mtime..Clock(p)'
          BY <1>0, <5>1
        <5> QED BY <3>4, <4>1, <4>2, <4>3, <4>4, <5>2 DEF Passes, RateTaken
      <4>5. CASE Limits(p)
        <5> DEFINE r == rate_limit(sess[p].buf, now)
        <5>1. /\ pc[p] = "rate" /\ pc'[p] \in {"loop", "create"}
              /\ sess'[p].buf = r.buf /\ sess'[p].early = r.upd /\ sess'[p].at = now
              /\ sess'[p].rc = sess[p].rc
              /\ r.rc = 0 \/ r.upd
              /\ pc'[p] = "loop" => r.rc = 0
          BY <4>5 DEF Limits
        <5>2. file.attempts > 0 => r.upd
          BY <4>3, <5>1, RateMarks
        <5>3. Sorted(r.buf.stamps)
          <6>1. CASE file.attempts > 0
            BY <1>0, <4>2, <4>3, <5>2, <6>1, RateEffect
          <6>2. CASE file.attempts = 0
            <7>1. r = [rc |-> 0, buf |-> sess[p].buf, upd |-> FALSE]
              BY <4>3, <6>2 DEF rate_limit
            <7> QED BY <4>3, <7>1
          <6> QED BY <4>3, <6>1, <6>2
        <5>4. Clock(p)' = now /\ now \in mtime..now
          BY <1>0, <1>2, <5>1, ClockStays DEF Clock, TimesOK
        <5>5. sess[p].rc = "SESSION_ERR" /\ (sess[p].ver = version => sess[p].buf = file)
          BY <4>1, <4>2, <5>1 DEF RateTaken
        <5>6. sess[p].ver = version => r = rate_limit(file, now)
          BY <5>5
        <5> HIDE DEF r
        <5> QED BY <3>4, <4>1, <4>3, <5>1, <5>2, <5>3, <5>4, <5>5, <5>6 DEF RateTaken
      <4> QED BY <1>0, <1>2, <2>2, <3>4, <4>4, <4>5, RateStep
    <3> QED BY <3>1, <3>2, <3>3, <3>4
  <2>3. AllRated'
    BY <2>2 DEF AllRated, RateTaken
  <2> QED BY <2>1, <2>3
<1> QED BY <1>1, <1>2 DEF Next, Act


\* With RATE_LIMIT only rename() lets anybody in.
LEMMA RateNeedsRename ==
    ASSUME IInv, AllRated, NEW p \in Login, Act(p), ~Rename(p), file # NoFile, file.attempts > 0
    PROVE  grants' = grants
<1>0. LoginTypes /\ pc \in [Login -> Phase] /\ sess \in [Login -> LocalType]
  BY DEF IInv, TypeOK, LoginTypes
<1>1. CASE Conclude(p)
  <2>1. sess[p].early
    BY <1>1 DEF Conclude, AllRated, RateTaken
  <2>2. ASSUME NEW rc, Concluded(sess[p], rc).early = FALSE PROVE FALSE
    <3> DEFINE advance == sess[p].adv /\ ~sess[p].par.no_increment_hotp
               b == IF advance THEN advance_counter(sess[p].buf) ELSE sess[p].buf
               u == sess[p].upd \/ advance
    <3>1. Concluded(sess[p], rc) = [sess[p] EXCEPT !.rc = rc, !.buf = b, !.upd = u]
      BY Zenon DEF Concluded
    <3> HIDE DEF u, b
    <3>2. Concluded(sess[p], rc).early = sess[p].early
      BY <1>0, <3>1 DEF LocalType
    <3> QED BY <2>1, <2>2, <3>2
  <2>3. PICK rc : IF Concluded(sess[p], rc).early \/ Concluded(sess[p], rc).upd
                  THEN UNCHANGED grants ELSE Return(p, Concluded(sess[p], rc))
    BY <1>1 DEF Conclude, Concluded
  <2>4. Concluded(sess[p], rc).early \in BOOLEAN
    <3> DEFINE advance == sess[p].adv /\ ~sess[p].par.no_increment_hotp
               b == IF advance THEN advance_counter(sess[p].buf) ELSE sess[p].buf
               u == sess[p].upd \/ advance
    <3>1. Concluded(sess[p], rc) = [sess[p] EXCEPT !.rc = rc, !.buf = b, !.upd = u]
      BY Zenon DEF Concluded
    <3> HIDE DEF u, b
    <3>2. Concluded(sess[p], rc).early = sess[p].early
      BY <1>0, <3>1 DEF LocalType
    <3> QED BY <1>0, <3>2 DEF LocalType
  <2> QED BY <2>2, <2>3, <2>4
<1>2. CASE ~Conclude(p)
  <2>1. ~OpenMissing(p)
    BY DEF OpenMissing
  <2>2. \A g \in grants' : g \in grants
    BY <1>0, <1>2, <2>1, Granted
  <2> QED BY <2>2, GrantsGrow
<1> QED BY <1>1, <1>2

\* What the login that replaces the file has recorded in it.
LEMMA Recorded ==
    ASSUME IInv, TimesOK, AllRated, SortedOK, FreshStamps, NEW p \in Login, Rename(p),
           file.attempts > 0
    PROVE  LET t == sess[p].at
               r == rate_limit(file, t)
           IN  /\ file \in File /\ Sorted(file.stamps) /\ file' \in File
               /\ mtime \in Nat /\ mtime' \in Nat /\ t \in Nat /\ mtime <= t /\ t <= mtime'
               /\ file'.attempts = file.attempts /\ file'.interval = file.interval
               /\ r.upd /\ file'.stamps = r.buf.stamps
               /\ \/ grants' = grants
                  \/ r.rc = 0
                     /\ grants' = grants \cup {[n |-> sess[p].id, cred |-> sess[p].cred, at |-> t]}
<1>1. /\ file \in File /\ sess[p].buf \in File /\ sess[p].ver = version
      /\ Keeps(file, sess[p].buf) /\ file' = sess[p].buf
      /\ Clock(p) = mtime' /\ mtime \in Nat /\ mtime' \in Nat /\ mtime <= mtime'
      /\ pc[p] \in Working
  BY Replaced
<1>2. pc[p] = "rename" /\ sess \in [Login -> LocalType]
  BY DEF Rename, IInv, TypeOK, LoginTypes
<1>3. LET r == rate_limit(file, sess[p].at)
      IN  /\ sess[p].at \in mtime..Clock(p)
          /\ r.upd /\ sess[p].buf.stamps = r.buf.stamps
          /\ sess[p].rc = "SUCCESS" => r.rc = 0
  BY <1>1, <1>2 DEF AllRated, RateTaken
<1>4. sess[p].at \in Nat /\ mtime <= sess[p].at /\ sess[p].at <= mtime'
  BY <1>1, <1>2, <1>3 DEF LocalType
<1>5. Sorted(file.stamps)
  BY <1>1, NoFileFresh DEF SortedOK
<1> DEFINE x == [n |-> sess[p].id, cred |-> sess[p].cred, at |-> sess[p].at]
<1>6. grants' = grants \/ (sess[p].rc = "SUCCESS" /\ grants' = grants \cup {x})
  <2>1. grants' = IF sess[p].rc = "SUCCESS" THEN grants \cup {x} ELSE grants
    BY Zenon DEF Rename, Return
  <2>2. CASE sess[p].rc = "SUCCESS"
    BY <2>1, <2>2, Zenon
  <2>3. CASE sess[p].rc # "SUCCESS"
    BY <2>1, <2>3, Zenon
  <2> QED BY <2>2, <2>3
<1> HIDE DEF x
<1>7. file'.attempts = file.attempts /\ file'.interval = file.interval
  BY <1>1 DEF Keeps
<1> DEFINE t == sess[p].at
           r == rate_limit(file, t)
<1>8. r.upd /\ file'.stamps = r.buf.stamps /\ (sess[p].rc = "SUCCESS" => r.rc = 0)
  BY <1>1, <1>3
<1> HIDE DEF r, t
<1>9. grants' = grants \/ (r.rc = 0 /\ grants' = grants \cup {x})
  BY <1>6, <1>8
<1>10. t \in Nat /\ mtime <= t /\ t <= mtime'
  BY <1>4 DEF t
<1> QED BY <1>1, <1>5, <1>7, <1>8, <1>9, <1>10 DEF r, t, x

\* One more element.
LEMMA OneMore ==
    ASSUME NEW S, IsFiniteSet(S), NEW T, NEW x, T \in SUBSET (S \cup {x})
    PROVE  /\ IsFiniteSet(T) /\ Cardinality(T) \in Nat /\ Cardinality(S) \in Nat
           /\ Cardinality(T) <= Cardinality(S) + 1
<1>1. IsFiniteSet(S \cup {x}) /\ Cardinality(S \cup {x}) <= Cardinality(S) + 1
      /\ Cardinality(S) \in Nat
  <2>1. Cardinality(S) \in Nat
    BY FS_CardinalityType
  <2> QED BY <2>1, FS_AddElement
<1>2. IsFiniteSet(T) /\ Cardinality(T) <= Cardinality(S \cup {x})
  BY <1>1, FS_Subset
<1>3. Cardinality(T) \in Nat /\ Cardinality(S \cup {x}) \in Nat
  BY <1>1, <1>2, FS_CardinalityType
<1> QED BY <1>1, <1>2, <1>3

\* The logins since time y, of which there are none after the last.
LEMMA LateEmpty ==
    ASSUME NEW G, NEW m \in Nat, NEW y \in Int, y > m, \A h \in G : h.at \in 0..m
    PROVE  {h \in G : h.at >= y} = {} /\ Cardinality({h \in G : h.at >= y}) = 0
<1>1. {h \in G : h.at >= y} = {}
  OBVIOUS
<1> QED BY <1>1, FS_EmptySet

\* In the file a login replaces, fewer logins than the limit are counted from t - interval.
LEMMA RoomLeft ==
    ASSUME IInv, TimesOK, AllRated, SortedOK, Counted, FreshStamps, NEW p \in Login, Rename(p),
           file.attempts > 0, grants' # grants
    PROVE  Cardinality({h \in grants : h.at >= sess[p].at - file.interval}) + 1 <= file.attempts
<1> DEFINE t == sess[p].at
           y == t - file.interval
           s == file.stamps
           C == Cardinality({h \in grants : h.at >= y})
<1>1. /\ file \in File /\ Sorted(s) /\ mtime \in Nat /\ t \in Nat /\ mtime <= t
      /\ rate_limit(file, t).upd /\ rate_limit(file, t).rc = 0
  BY Recorded
<1>2. s \in Seq(Nat) /\ file.interval \in Nat /\ file.attempts \in Nat
  BY <1>1 DEF File, Lines
<1> HIDE DEF t, s
<1>3. (UpTo(s, t) + 1) - UpTo(s, y - 1) <= file.attempts
  <2>1. Within(file, t)
    BY <1>1, RateEffect DEF s
  <2> QED BY <2>1 DEF Within, s
<1>4. y \in Int /\ y - 1 \in Int /\ t \in Int /\ mtime \in Int /\ y - 1 <= t
  BY <1>1, <1>2
<1>5. /\ UpTo(s, t) \in Nat /\ UpTo(s, y - 1) \in Nat /\ UpTo(s, mtime) \in Nat
      /\ UpTo(s, mtime) <= UpTo(s, t)
  <2>1. UpTo(s, t) \in 0..Len(s) /\ UpTo(s, y - 1) \in 0..Len(s) /\ UpTo(s, mtime) \in 0..Len(s)
    BY <1>2, <1>4, UpToType, Zenon
  <2>2. UpTo(s, mtime) <= UpTo(s, t)
    BY <1>1, <1>2, <1>4, UpToGrows
  <2> QED BY <2>1, <2>2
<1>6. CASE y > mtime
  <2>1. C = 0
    BY <1>1, <1>4, <1>6, LateEmpty DEF Counted
  <2> HIDE DEF C
  <2>2. C + 1 <= file.attempts
    BY <1>2, <2>1
  <2> QED BY <2>2 DEF C, t
<1>7. CASE y <= mtime
  <2>1. y \in mtime - file.interval .. mtime
    BY <1>1, <1>2, <1>4, <1>7
  <2> HIDE DEF y
  <2>2. C <= Listed(y) \/ Listed(y) >= file.attempts
    BY <2>1 DEF Counted
  <2>3. Listed(y) = UpTo(s, mtime) - UpTo(s, y - 1)
    BY DEF Listed, s
  <2>4. C \in Nat
    <3>1. {h \in grants : h.at >= y} \in SUBSET grants
      OBVIOUS
    <3> QED BY <3>1, FS_Subset, FS_CardinalityType DEF Counted
  <2> HIDE DEF C
  <2>5. C + 1 <= file.attempts
    BY <1>2, <1>3, <1>5, <2>2, <2>3, <2>4
  <2> QED BY <2>5 DEF C, y, t
<1> QED BY <1>4, <1>6, <1>7, <1>1


LEMMA RecordedCounts ==
    ASSUME IInv, TimesOK, AllRated, SortedOK, Counted, FreshStamps, NEW p \in Login, Rename(p),
           file.attempts > 0
    PROVE  Counted'
<1> DEFINE t == sess[p].at
           I == file.interval
           A == file.attempts
           s == file.stamps
           L == file'.stamps
           m == mtime
           n == mtime'
           x == [n |-> sess[p].id, cred |-> sess[p].cred, at |-> t]
<1>1. /\ file \in File /\ Sorted(s) /\ file' \in File
      /\ m \in Nat /\ n \in Nat /\ t \in Nat /\ m <= t /\ t <= n
      /\ file'.attempts = A /\ file'.interval = I
      /\ rate_limit(file, t).upd /\ L = rate_limit(file, t).buf.stamps
      /\ grants' = grants \/ grants' = grants \cup {x}
  BY Recorded
<1>2. s \in Seq(Nat) /\ L \in Seq(Nat) /\ I \in Nat /\ A \in Nat /\ A > 0
  BY <1>1 DEF File, Lines
<1>3. Lists(file, t, L)
  BY <1>1, RateEffect
<1>4. ASSUME NEW y \in t - I .. t
      PROVE  \/ UpTo(L, n) - UpTo(L, y - 1) = (UpTo(s, t) + 1) - UpTo(s, y - 1)
             \/ UpTo(L, n) - UpTo(L, y - 1) >= A
  <2>1. n \in Int /\ n >= t
    BY <1>1
  <2> QED BY <1>3, <2>1, Zenon DEF Lists
<1>5. IsFiniteSet(grants) /\ \A h \in grants : h.at \in 0..m
  BY DEF Counted
<1>6. \A y \in m - I .. m :
        \/ Cardinality({h \in grants : h.at >= y}) <= UpTo(s, m) - UpTo(s, y - 1)
        \/ UpTo(s, m) - UpTo(s, y - 1) >= A
  BY DEF Counted, Listed
<1>7. x.at = t
  OBVIOUS
<1>8. grants' \in SUBSET (grants \cup {x})
  BY <1>1
<1> HIDE DEF x, t, I, A, s, L, m, n
<1>9. IsFiniteSet(grants')
  BY <1>5, <1>8, OneMore
<1>10. \A h \in grants' : h.at \in 0..n
  BY <1>1, <1>5, <1>7, <1>8
<1>11. ASSUME NEW y \in n - I .. n
       PROVE  \/ Cardinality({h \in grants' : h.at >= y}) <= UpTo(L, n) - UpTo(L, y - 1)
              \/ UpTo(L, n) - UpTo(L, y - 1) >= A
  <2> DEFINE G == {h \in grants : h.at >= y}
             H == {h \in grants' : h.at >= y}
  <2>1. y \in Int /\ y - 1 \in Int /\ n \in Int /\ t \in Int /\ m \in Int
    BY <1>1, <1>2
  <2>2. UpTo(L, n) \in Nat /\ UpTo(L, y - 1) \in Nat /\ UpTo(s, t) \in Nat /\ UpTo(s, m) \in Nat
        /\ UpTo(s, y - 1) \in Nat
    <3>1. /\ UpTo(L, n) \in 0..Len(L) /\ UpTo(L, y - 1) \in 0..Len(L)
          /\ UpTo(s, t) \in 0..Len(s) /\ UpTo(s, m) \in 0..Len(s) /\ UpTo(s, y - 1) \in 0..Len(s)
      BY <1>2, <2>1, UpToType, Zenon
    <3> QED BY <3>1
  <2>3. CASE y > t
    <3>1. \A h \in grants' : h.at \in 0..t
      BY <1>1, <1>5, <1>7, <1>8
    <3>2. Cardinality(H) = 0
      BY <1>1, <2>1, <2>3, <3>1, LateEmpty
    <3>3. y - 1 <= n
      BY <1>1, <2>1
    <3>4. UpTo(L, y - 1) <= UpTo(L, n)
      BY <1>2, <2>1, <3>3, UpToGrows
    <3> HIDE DEF H
    <3>5. Cardinality(H) <= UpTo(L, n) - UpTo(L, y - 1)
      BY <2>2, <3>2, <3>4
    <3> QED BY <3>5 DEF H
  <2>4. CASE y <= t
    <3>1. y \in t - I .. t
      BY <1>1, <1>2, <2>1, <2>4
    <3>2. \/ UpTo(L, n) - UpTo(L, y - 1) = (UpTo(s, t) + 1) - UpTo(s, y - 1)
          \/ UpTo(L, n) - UpTo(L, y - 1) >= A
      BY <1>4, <3>1
    <3>3. IsFiniteSet(G) /\ H \in SUBSET (G \cup {x})
      <4>1. G \in SUBSET grants
        OBVIOUS
      <4>2. IsFiniteSet(G)
        BY <1>5, <4>1, FS_Subset
      <4> QED BY <1>8, <4>2
    <3> HIDE DEF G, H
    <3>4. Cardinality(H) \in Nat /\ Cardinality(G) \in Nat /\ Cardinality(H) <= Cardinality(G) + 1
      BY <3>3, OneMore
    <3>5. UpTo(s, m) <= UpTo(s, t) /\ UpTo(s, y - 1) <= UpTo(s, t)
      <4>1. m <= t /\ y - 1 <= t
        BY <1>1, <2>1, <2>4
      <4> QED BY <1>2, <2>1, <4>1, UpToGrows
    <3>6. CASE y > m
      <4>1. Cardinality(G) = 0
        BY <1>1, <1>5, <2>1, <3>6, LateEmpty DEF G
      <4>2. Cardinality(H) <= UpTo(L, n) - UpTo(L, y - 1) \/ UpTo(L, n) - UpTo(L, y - 1) >= A
        BY <1>2, <2>2, <3>2, <3>4, <3>5, <4>1
      <4> QED BY <4>2 DEF H
    <3>7. CASE y <= m
      <4>1. y \in m - I .. m
        BY <1>1, <1>2, <2>1, <3>7
      <4>2. \/ Cardinality(G) <= UpTo(s, m) - UpTo(s, y - 1)
            \/ UpTo(s, m) - UpTo(s, y - 1) >= A
        BY <1>6, <4>1 DEF G
      <4>3. Cardinality(H) <= UpTo(L, n) - UpTo(L, y - 1) \/ UpTo(L, n) - UpTo(L, y - 1) >= A
        BY <1>2, <2>2, <3>2, <3>4, <3>5, <4>2, SMTT(30)
      <4> QED BY <4>3 DEF H
    <3> QED BY <2>1, <3>6, <3>7
  <2> QED BY <2>1, <2>3, <2>4
<1>12. file'.attempts = A /\ file'.interval = I
  BY <1>1
<1> QED BY <1>9, <1>10, <1>11, <1>12 DEF Counted, Listed, L, n

\* RateInv is an invariant, together with IInv and StepInv: every login that was let in
\* is listed in the file, as far as the list goes.
THEOREM RateInductive == Spec => []RateInv
<1>1. Init => RateInv
  <2> SUFFICES ASSUME Init PROVE RateInv
    OBVIOUS
  <2>1. \A p \in Login : pc[p] = "idle"
    BY DEF Init
  <2>2. file # NoFile => Sorted(file.stamps)
    BY StampAssumption DEF Init
  <2>3. ASSUME file # NoFile PROVE Counted
    <3>0. file \in File /\ mtime = 0 /\ grants = {}
      BY <2>3, FileAssumption DEF Init
    <3>1. file.interval \in Nat /\ file.stamps \in Seq(Nat)
      BY <3>0 DEF File, Lines
    <3>2. ASSUME NEW y \in mtime - file.interval .. mtime
          PROVE  Cardinality({h \in grants : h.at >= y}) <= Listed(y)
      <4>1. {h \in grants : h.at >= y} = {}
        BY <3>0
      <4>2. Cardinality({h \in grants : h.at >= y}) = 0
        BY <4>1, FS_EmptySet
      <4>3. y \in Int /\ y - 1 \in Int /\ mtime \in Int /\ y - 1 <= mtime
        BY <3>0, <3>1
      <4>4. /\ UpTo(file.stamps, mtime) \in 0..Len(file.stamps)
            /\ UpTo(file.stamps, y - 1) \in 0..Len(file.stamps)
        BY <3>1, <4>3, UpToType, Zenon
      <4>5. UpTo(file.stamps, y - 1) <= UpTo(file.stamps, mtime)
        BY <3>1, <4>3, UpToGrows
      <4>6. 0 <= Listed(y)
        BY <4>4, <4>5 DEF Listed
      <4> QED BY <4>2, <4>6
    <3> QED BY <3>0, <3>2, FS_EmptySet DEF Counted
  <2> QED BY <2>1, <2>2, <2>3 DEF RateInv, RateTaken
<1>2. IInv /\ StepInv /\ RateInv /\ [Next]_vars => RateInv'
  <2> SUFFICES ASSUME IInv, StepInv, RateInv, [Next]_vars PROVE RateInv'
    OBVIOUS
  <2>1. TimesOK /\ AllRated /\ SortedOK
    BY StepInvParts DEF RateInv, AllRated, SortedOK
  <2>2. AllRated' /\ SortedOK' /\ (file # NoFile => file'.attempts = file.attempts)
    BY <2>1, RatedStep
  <2>3. ASSUME FreshStamps', file' # NoFile, file'.attempts > 0
        PROVE  Counted'
    <3>0. FreshStamps
      BY <2>3, SeenGrows
    <3>1. CASE Tick \/ UNCHANGED vars
      <4>1. UNCHANGED <<file, mtime, grants>>
        BY <3>1 DEF Tick, vars, history
      <4>2. Counted
        BY <2>3, <3>0, <4>1 DEF RateInv
      <4> QED BY <4>1, <4>2 DEF Counted, Listed
    <3>2. ASSUME NEW p \in Login, Act(p)
          PROVE  Counted'
      <4>1. file # NoFile
        <5>1. CASE Rename(p)
          BY <5>1 DEF Rename, IInv
        <5>2. CASE ~Rename(p)
          BY <2>3, <3>2, <5>2, OnlyRename
        <5> QED BY <5>1, <5>2
      <4>2. Counted /\ file.attempts > 0
        BY <2>2, <2>3, <3>0, <4>1 DEF RateInv
      <4>3. CASE Rename(p)
        BY <2>1, <3>0, <4>2, <4>3, RecordedCounts
      <4>4. CASE ~Rename(p)
        <5>1. UNCHANGED <<file, mtime, grants>>
          BY <2>1, <3>2, <4>1, <4>2, <4>4, OnlyRename, RateNeedsRename
        <5> QED BY <4>2, <5>1 DEF Counted, Listed
      <4> QED BY <4>3, <4>4
    <3> QED BY <3>1, <3>2 DEF Next, Act
  <2> QED BY <2>2, <2>3 DEF RateInv, AllRated, SortedOK
<1> QED BY <1>1, <1>2, Inductive, StepsInductive, PTL DEF Spec


LEMMA RecordedBound ==
    ASSUME IInv, TimesOK, AllRated, SortedOK, Counted, FreshStamps, NEW p \in Login, Rename(p),
           file.attempts > 0,
           \A g \in grants :
              Cardinality({h \in grants : h.at \in g.at - file.interval .. g.at}) <= file.attempts,
           NEW g \in grants'
    PROVE  Cardinality({h \in grants' : h.at \in g.at - file.interval .. g.at}) <= file.attempts
<1> DEFINE t == sess[p].at
           I == file.interval
           A == file.attempts
           x == [n |-> sess[p].id, cred |-> sess[p].cred, at |-> t]
           G == {h \in grants : h.at >= t - I}
           H == {h \in grants' : h.at \in g.at - I .. g.at}
<1>1. /\ file \in File /\ mtime \in Nat /\ t \in Nat /\ mtime <= t
      /\ grants' = grants \/ grants' = grants \cup {x}
  BY Recorded
<1>2. I \in Nat /\ A \in Nat
  BY <1>1 DEF File, Lines
<1>3. IsFiniteSet(grants) /\ \A h \in grants : h.at \in 0..mtime
  BY DEF Counted
<1>4. x.at = t
  OBVIOUS
<1>5. grants' # grants => Cardinality(G) + 1 <= A
  BY RoomLeft
<1> HIDE DEF x, t, I, A
<1>6. CASE grants' = grants
  BY <1>6 DEF I, A
<1>7. CASE grants' # grants /\ g.at # t
  <2>1. g \in grants
    BY <1>1, <1>4, <1>7
  <2>2. H = {h \in grants : h.at \in g.at - I .. g.at}
    BY <1>1, <1>3, <1>4, <1>7, <2>1
  <2> QED BY <2>1, <2>2 DEF H, I, A
<1>8. CASE grants' # grants /\ g.at = t
  <2>1. H \in SUBSET (G \cup {x})
    BY <1>1, <1>2, <1>3, <1>8
  <2>2. IsFiniteSet(G)
    <3>1. G \in SUBSET grants
      OBVIOUS
    <3> QED BY <1>3, <3>1, FS_Subset
  <2>3. Cardinality(G) + 1 <= A
    BY <1>5, <1>8
  <2> HIDE DEF G, H
  <2>4. Cardinality(H) \in Nat /\ Cardinality(G) \in Nat /\ Cardinality(H) <= Cardinality(G) + 1
    BY <2>1, <2>2, OneMore
  <2>5. Cardinality(H) <= A
    BY <1>2, <2>3, <2>4
  <2> QED BY <2>5 DEF H, I, A
<1> QED BY <1>6, <1>7, <1>8

\* With RATE_LIMIT, no interval sees more logins let in than the option allows, although
\* any number of logins may pass rate_limit(), and try a code, with the same copy of the file.
THEOREM RateIsBounded == Spec => []RateBound
<1>1. Init => RateBound
  BY DEF Init, RateBound
<1>2. IInv /\ StepInv /\ RateInv /\ RateBound /\ [Next]_vars => RateBound'
  <2> SUFFICES ASSUME IInv, StepInv, RateInv, RateBound, [Next]_vars,
                      FreshStamps', file' # NoFile, file'.attempts > 0, NEW g \in grants'
               PROVE  Cardinality({h \in grants' : h.at \in g.at - file'.interval .. g.at})
                         <= file'.attempts
    BY DEF RateBound
  <2>0. FreshStamps /\ TimesOK /\ AllRated /\ SortedOK
    BY SeenGrows, StepInvParts DEF RateInv, AllRated, SortedOK
  <2>1. CASE Tick \/ UNCHANGED vars
    <3>1. UNCHANGED <<file, mtime, grants>>
      BY <2>1 DEF Tick, vars, history
    <3> QED BY <2>0, <3>1 DEF RateBound
  <2>2. ASSUME NEW p \in Login, Act(p)
        PROVE  Cardinality({h \in grants' : h.at \in g.at - file'.interval .. g.at})
                  <= file'.attempts
    <3>1. file # NoFile
      <4>1. CASE Rename(p)
        BY <4>1 DEF Rename, IInv
      <4>2. CASE ~Rename(p)
        BY <2>2, <4>2, OnlyRename
      <4> QED BY <4>1, <4>2
    <3>2. file.attempts > 0
      BY <2>0, <3>1, RatedStep
    <3>3. CASE Rename(p)
      <4>1. file'.attempts = file.attempts /\ file'.interval = file.interval
        BY <2>0, <3>2, <3>3, Recorded
      <4>2. Counted
        BY <2>0, <3>1, <3>2 DEF RateInv
      <4>3. \A k \in grants :
              Cardinality({h \in grants : h.at \in k.at - file.interval .. k.at}) <= file.attempts
        BY <2>0, <3>1, <3>2 DEF RateBound
      <4>4. Cardinality({h \in grants' : h.at \in g.at - file.interval .. g.at}) <= file.attempts
        BY <2>0, <3>2, <3>3, <4>2, <4>3, RecordedBound
      <4> QED BY <4>1, <4>4
    <3>4. CASE ~Rename(p)
      <4>1. UNCHANGED <<file, mtime, grants>>
        BY <2>0, <2>2, <3>1, <3>2, <3>4, OnlyRename, RateNeedsRename
      <4> QED BY <2>0, <3>1, <3>2, <4>1 DEF RateBound
    <3> QED BY <3>3, <3>4
  <2> QED BY <2>1, <2>2 DEF Next, Act
<1> QED BY <1>1, <1>2, Inductive, StepsInductive, RateInductive, PTL DEF Spec
===============================================================================
