---------------------------- MODULE PamLoginProofs ----------------------------
(****************************************************************************)
(* Proofs about PamLogin: what the checks of SecretFile return and change in  *)
(* the buffer, type correctness, exclusive use of the temporary file, and the *)
(* inductive invariant IInv with what follows from it.                        *)
(****************************************************************************)
EXTENDS PamLogin, FiniteSetTheorems, SequenceTheorems, TLAPS

-------------------------------------------------------------------------------
(* The checks of SecretFile: the types of what they return, and what an       *)
(* accepted code changes in the buffer.                                       *)

\* A finite nonempty set has an element on which a given key is least.
LEMMA LeastKey ==
    ASSUME NEW S, IsFiniteSet(S), S # {}, NEW key \in [S -> Int]
    PROVE  \E x \in S : \A y \in S : key[x] <= key[y]
<1> DEFINE Below(x) == {y \in S : key[y] <= key[x]}
           Family == {Below(x) : x \in S}
<1>1. Family \subseteq FiniteSubsetsOf(S)
  BY FS_FiniteSubsetsOfFinite
<1>2. Family # {}
  <2>1. PICK x \in S : TRUE
    OBVIOUS
  <2>2. Below(x) \in Family
    BY <2>1
  <2> QED BY <2>2
<1>3. PICK B \in Family : \A C \in Family : ~(<<C, B>> \in StrictSubsetOrdering(S))
  <2> HIDE DEF Family
  <2> QED BY <1>1, <1>2, FS_StrictSubsetOrderingWellFounded, WFMin
<1>4. PICK x \in S : B = Below(x)
  OBVIOUS
<1>5. ASSUME NEW y \in S, key[y] < key[x]
      PROVE  FALSE
  <2>1. Below(y) \in Family
    OBVIOUS
  <2>2. Below(y) \subseteq Below(x)
    BY <1>5
  <2>3. x \in Below(x) /\ x \notin Below(y)
    BY <1>5
  <2>4. <<Below(y), B>> \in StrictSubsetOrdering(S)
    BY <1>4, <2>2, <2>3 DEF StrictSubsetOrdering
  <2> QED BY <1>3, <2>1, <2>4
<1> QED BY <1>5

\* The first match of a search over consecutive offsets is one of the matches.
LEMMA EarliestIsMember ==
    ASSUME NEW a \in Int, NEW b \in Int, NEW S \in SUBSET (a..b), S # {}
    PROVE  Earliest(S) \in S
<1>1. IsFiniteSet(S)
  BY FS_Interval, FS_Subset
<1>2. [i \in S |-> i] \in [S -> Int]
  OBVIOUS
<1>3. \E i \in S : \A j \in S : i <= j
  <2>1. PICK x \in S : \A y \in S : [i \in S |-> i][x] <= [i \in S |-> i][y]
    BY <1>1, <1>2, LeastKey
  <2> QED BY <2>1
<1> QED BY <1>3 DEF Earliest

\* The skew search returns one of the offsets that match.
LEMMA NearestIsMember ==
    ASSUME NEW a \in Int, NEW b \in Int, NEW S \in SUBSET (a..b), S # {}
    PROVE  Nearest(S) \in S
<1> DEFINE key == [i \in S |-> IF i > 0 THEN 2 * i + 1 ELSE -(2 * i)]
<1>1. IsFiniteSet(S)
  BY FS_Interval, FS_Subset
<1>2. key \in [S -> Int]
  OBVIOUS
<1>3. PICK x \in S : \A y \in S : key[x] <= key[y]
  <2> HIDE DEF key
  <2> QED BY <1>1, <1>2, LeastKey
<1>4. \A y \in S : Abs(x) < Abs(y) \/ (Abs(x) = Abs(y) /\ x <= y)
  BY <1>3 DEF Abs
<1> QED BY <1>4 DEF Nearest
-------------------------------------------------------------------------------
LEMMA DigitsType == ASSUME NEW n \in Int PROVE Digits(n) \in Nat
<1>1. IsFiniteSet(1..9)
  <2>1. 1 \in Int /\ 9 \in Int
    OBVIOUS
  <2> QED BY <2>1, FS_Interval, Zenon
<1>2. {k \in 1..9 : n >= 10^k} \subseteq 1..9
  OBVIOUS
<1>3. Cardinality({k \in 1..9 : n >= 10^k}) \in Nat
  BY <1>1, <1>2, FS_Subset, FS_CardinalityType
<1> QED BY <1>3 DEF Digits

LEMMA PrintedType == ASSUME NEW n \in Int PROVE Printed(n) \in Nat
<1>1. Abs(n) \in Int
  BY DEF Abs
<1>2. Digits(Abs(n)) \in Nat
  BY <1>1, DigitsType, Zenon
<1> QED BY <1>2 DEF Printed

LEMMA ResettingSizeType ==
    ASSUME NEW h \in Seq([tm : Int, skew : Int]) PROVE ResettingSize(h) \in Int
<1>1. \A i \in DOMAIN h : h[i] \in [tm : Int, skew : Int]
  BY ElementOfSeq, LenProperties
<1>2. \A i \in DOMAIN h : Abs(h[i].skew) \in Int
  BY <1>1 DEF Abs
<1>3. \A i \in DOMAIN h : Digits(Abs(h[i].skew)) \in Nat
  BY <1>2, DigitsType, Zenon
<1> DEFINE extra(i) == IF i \in DOMAIN h THEN 10 + Digits(Abs(h[i].skew)) ELSE 0
           blank == IF h = <<>> THEN 0 ELSE 1
<1>4. extra(1) \in Int /\ extra(2) \in Int /\ extra(3) \in Int
  BY <1>3
<1>5. blank \in Int
  OBVIOUS
<1>6. ResettingSize(h) = extra(1) + extra(2) + extra(3) - blank
  BY DEF ResettingSize
<1> HIDE DEF extra, blank
<1> QED BY <1>4, <1>5, <1>6

LEMMA FileSizeType == ASSUME NEW f \in File PROVE FileSize(f) \in Int
<1>1. Cardinality(f.scratch) \in Nat /\ Cardinality(f.blocked) \in Nat
  BY FS_CardinalityType DEF File
<1>2. f \in Lines
  BY DEF File
<1>3. f.hotp \in Int /\ f.attempts \in Int /\ f.interval \in Int /\ f.window \in Int /\ f.skew \in Int
  BY <1>2 DEF Lines
<1>4. /\ Printed(f.hotp) \in Nat /\ Printed(f.attempts) \in Nat /\ Printed(f.interval) \in Nat
      /\ Printed(f.window) \in Nat /\ Printed(f.skew) \in Nat
  BY <1>3, PrintedType, Zenon
<1>5. ResettingSize(f.resetting) \in Int
  BY <1>2, ResettingSizeType DEF Lines
<1>6. Len(f.stamps) \in Nat
  BY <1>2 DEF Lines
<1>7. LineSize(f, "SCRATCH") \in Int /\ LineSize(f, "TOTP_AUTH") \in Int
  BY <1>1 DEF LineSize
<1>8. LineSize(f, "HOTP_COUNTER") \in Int /\ LineSize(f, "DISALLOW_REUSE") \in Int
  BY <1>1, <1>4 DEF LineSize
<1>9. LineSize(f, "RATE_LIMIT") \in Int /\ LineSize(f, "WINDOW_SIZE") \in Int
  BY <1>4, <1>6 DEF LineSize
<1>10. LineSize(f, "TIME_SKEW") \in Int /\ LineSize(f, "RESETTING_TIME_SKEW") \in Int
  BY <1>4, <1>5 DEF LineSize
<1> QED BY <1>7, <1>8, <1>9, <1>10 DEF FileSize
-------------------------------------------------------------------------------
LEMMA UpToType ==
    ASSUME NEW s \in Seq(Nat), NEW x \in Int
    PROVE  UpTo(s, x) \in 0..Len(s)
<1>1. DOMAIN s = 1..Len(s) /\ Len(s) \in Nat
  BY LenProperties
<1>2. IsFiniteSet(1..Len(s)) /\ Cardinality(1..Len(s)) = Len(s)
  BY <1>1, FS_Interval, SMTT(30)
<1>3. {i \in DOMAIN s : s[i] <= x} \in SUBSET (1..Len(s))
  BY <1>1
<1>4. /\ Cardinality({i \in DOMAIN s : s[i] <= x}) \in Nat
      /\ Cardinality({i \in DOMAIN s : s[i] <= x}) <= Len(s)
  BY <1>2, <1>3, FS_Subset, FS_CardinalityType
<1> QED BY <1>1, <1>4 DEF UpTo

LEMMA InsertType ==
    ASSUME NEW s \in Seq(Nat), NEW x \in Nat
    PROVE  Insert(s, x) \in Seq(Nat)
<1> DEFINE k == UpTo(s, x)
<1>1. k \in 0..Len(s) /\ Len(s) \in Nat
  BY UpToType, LenProperties
<1>2. \A i \in 1..Len(s) : s[i] \in Nat
  BY ElementOfSeq
<1> HIDE DEF k
<1>3. SubSeq(s, 1, k) \in Seq(Nat)
  <2>1. \A i \in 1..k : s[i] \in Nat
    BY <1>1, <1>2
  <2> QED BY <1>1, <2>1, SubSeqProperties
<1>4. SubSeq(s, k + 1, Len(s)) \in Seq(Nat)
  <2>1. \A i \in (k+1)..Len(s) : s[i] \in Nat
    BY <1>1, <1>2
  <2> QED BY <1>1, <2>1, SubSeqProperties
<1>5. <<x>> \in Seq(Nat)
  OBVIOUS
<1>6. SubSeq(s, 1, k) \o <<x>> \o SubSeq(s, k + 1, Len(s)) \in Seq(Nat)
  BY <1>3, <1>4, <1>5, ConcatProperties
<1> QED BY <1>6 DEF Insert, k

\* The option RATE_LIMIT that rate_limit() refuses to read.
Unreadable(f) == f.attempts > 100 \/ f.interval \notin 1..3600

\* rate_limit() has three ends: there is no limit, the option is refused and the file
\* left alone, or the attempt is recorded.
LEMMA RateLimitForms ==
    ASSUME NEW f, NEW t
    PROVE  LET all   == Insert(f.stamps, t)
               stop  == UpTo(all, t)
               start == UpTo(all, t - f.interval - 1) + 1
               exceeded == stop - start + 1 > f.attempts
               list  == SubSeq(all, IF exceeded THEN stop - f.attempts + 1 ELSE start, stop)
           IN  /\ f.attempts = 0 => rate_limit(f, t) = [rc |-> 0, buf |-> f, upd |-> FALSE]
               /\ f.attempts # 0 /\ Unreadable(f) =>
                      rate_limit(f, t) = [rc |-> -1, buf |-> f, upd |-> FALSE]
               /\ f.attempts # 0 /\ ~Unreadable(f) =>
                      rate_limit(f, t) = [rc |-> IF exceeded THEN -1 ELSE 0,
                                          buf |-> [f EXCEPT !.stamps = list], upd |-> TRUE]
<1> DEFINE bad == Unreadable(f)
           all == Insert(f.stamps, t)
           stop == UpTo(all, t)
           start == UpTo(all, t - f.interval - 1) + 1
           exceeded == stop - start + 1 > f.attempts
           list == SubSeq(all, IF exceeded THEN stop - f.attempts + 1 ELSE start, stop)
           recorded == [rc |-> IF exceeded THEN -1 ELSE 0,
                        buf |-> [f EXCEPT !.stamps = list], upd |-> TRUE]
<1>1. rate_limit(f, t) = IF f.attempts = 0 THEN [rc |-> 0, buf |-> f, upd |-> FALSE]
                         ELSE IF bad THEN [rc |-> -1, buf |-> f, upd |-> FALSE] ELSE recorded
  BY Zenon DEF rate_limit, Unreadable
<1> HIDE DEF bad, recorded
<1>2. /\ f.attempts = 0 => rate_limit(f, t) = [rc |-> 0, buf |-> f, upd |-> FALSE]
      /\ f.attempts # 0 /\ bad => rate_limit(f, t) = [rc |-> -1, buf |-> f, upd |-> FALSE]
      /\ f.attempts # 0 /\ ~bad => rate_limit(f, t) = recorded
  BY <1>1
<1> QED BY <1>2, Zenon DEF bad, recorded

\* rate_limit() rewrites the list of attempts and nothing else.
LEMMA RateLimitResult ==
    ASSUME NEW f \in File, NEW t \in Nat
    PROVE  LET r == rate_limit(f, t)
           IN  /\ r.rc \in {0, -1} /\ r.upd \in BOOLEAN
               /\ r.buf \in File
               /\ r.buf.scratch = f.scratch /\ r.buf.hotp = f.hotp
               /\ Keeps(f, r.buf)
<1> DEFINE all == Insert(f.stamps, t)
           stop == UpTo(all, t)
           start == UpTo(all, t - f.interval - 1) + 1
           exceeded == stop - start + 1 > f.attempts
           first == IF exceeded THEN stop - f.attempts + 1 ELSE start
           list == SubSeq(all, first, stop)
<1>1. f \in Lines /\ IsFiniteSet(f.scratch) /\ IsFiniteSet(f.blocked)
  BY DEF File
<1>2. f.stamps \in Seq(Nat) /\ f.interval \in Nat /\ f.attempts \in Nat
  BY <1>1 DEF Lines
<1>3. all \in Seq(Nat)
  BY <1>2, InsertType
<1> HIDE DEF all
<1>4. Len(all) \in Nat /\ stop \in 0..Len(all) /\ start \in 1..Len(all)+1
  <2>1. t - f.interval - 1 \in Int
    BY <1>2
  <2>2. Len(all) \in Nat
    BY <1>3, LenProperties
  <2>3. UpTo(all, t) \in 0..Len(all)
    <3>1. t \in Int
      OBVIOUS
    <3> QED BY <1>3, <3>1, UpToType, Zenon
  <2>4. UpTo(all, t - f.interval - 1) \in 0..Len(all)
    BY <1>3, <2>1, UpToType, Zenon
  <2> QED BY <2>2, <2>3, <2>4
<1> HIDE DEF stop, start
<1>5. first \in Int /\ first >= 1
  BY <1>2, <1>4
<1> HIDE DEF first
<1>6. \A i \in first..stop : all[i] \in Nat
  BY <1>3, <1>4, <1>5, ElementOfSeq
<1>7. list \in Seq(Nat)
  BY <1>4, <1>5, <1>6, SubSeqProperties
<1> HIDE DEF list
<1>8. [f EXCEPT !.stamps = list] \in File
  BY <1>1, <1>7 DEF File, Lines
<1>9. /\ [f EXCEPT !.stamps = list].scratch = f.scratch
      /\ [f EXCEPT !.stamps = list].hotp = f.hotp
      /\ Keeps(f, [f EXCEPT !.stamps = list]) /\ Keeps(f, f)
  BY <1>1 DEF Lines, Keeps
<1> DEFINE g == [f EXCEPT !.stamps = list]
           rc == IF exceeded THEN -1 ELSE 0
<1>10. /\ f.attempts = 0 => rate_limit(f, t) = [rc |-> 0, buf |-> f, upd |-> FALSE]
       /\ f.attempts # 0 /\ Unreadable(f) =>
              rate_limit(f, t) = [rc |-> -1, buf |-> f, upd |-> FALSE]
       /\ f.attempts # 0 /\ ~Unreadable(f) =>
              rate_limit(f, t) = [rc |-> rc, buf |-> g, upd |-> TRUE]
  BY RateLimitForms, Zenon DEF all, stop, start, first, list
<1>11. rc \in {0, -1}
  OBVIOUS
<1>12. g \in File /\ g.scratch = f.scratch /\ g.hotp = f.hotp /\ Keeps(f, g) /\ Keeps(f, f)
  BY <1>8, <1>9
<1> HIDE DEF g, rc
<1>13. CASE f.attempts = 0
  <2>1. rate_limit(f, t) = [rc |-> 0, buf |-> f, upd |-> FALSE]
    BY <1>10, <1>13
  <2> QED BY <1>12, <2>1
<1>14. CASE f.attempts # 0 /\ Unreadable(f)
  <2>1. rate_limit(f, t) = [rc |-> -1, buf |-> f, upd |-> FALSE]
    BY <1>10, <1>14
  <2> QED BY <1>12, <2>1
<1>15. CASE f.attempts # 0 /\ ~Unreadable(f)
  <2>1. rate_limit(f, t) = [rc |-> rc, buf |-> g, upd |-> TRUE]
    BY <1>10, <1>15
  <2> QED BY <1>11, <1>12, <2>1
<1> QED BY <1>13, <1>14, <1>15
-------------------------------------------------------------------------------
\* What every check guarantees of its result: the loop in google_authenticator()
\* relies on it when it goes on to the next mode, and when it decides whether the
\* buffer has to be saved.
Sound(f, r) ==
    /\ r.rc \in {-1, 0, 1} /\ r.upd \in BOOLEAN /\ r.adv \in BOOLEAN
    /\ r.buf \in File /\ r.cred \in CredType
    /\ r.rc = 1 => r.buf = f /\ ~r.upd /\ r.cred = NoCred
    /\ r.cred.kind \in {"scratch", "hotp"} => r.upd
    /\ r.cred.kind = "hotp" => ~r.adv
    /\ Consumes(f, r)
    /\ Keeps(f, r.buf) /\ r.buf.stamps = f.stamps
    /\ r.cred.kind # "none" => r.cred.secret = f.secret

LEMMA NoCredType == NoCred \in CredType /\ NoCred.kind = "none"
BY DEF NoCred, CredType, Kind

\* A miss and an error change nothing.
LEMMA MissSound ==
    ASSUME NEW f \in File
    PROVE  Sound(f, Miss(f)) /\ Sound(f, Error(f)) /\ Sound(f, [Miss(f) EXCEPT !.adv = TRUE])
<1>1. f.hotp \in Nat
  BY DEF File, Lines
<1> QED BY <1>1, NoCredType DEF Sound, Miss, Error, Consumes, Keeps

LEMMA ScratchSound ==
    ASSUME NEW f \in File, NEW code
    PROVE  Sound(f, check_scratch_codes(f, code))
<1> DEFINE g == [f EXCEPT !.scratch = @ \ {code}]
           c == Cred(f, "scratch", code)
<1>1. CASE code \notin f.scratch
  BY <1>1, MissSound DEF check_scratch_codes
<1>2. CASE code \in f.scratch
  <2>1. f \in Lines /\ IsFiniteSet(f.scratch) /\ IsFiniteSet(f.blocked)
    BY DEF File
  <2>2. IsFiniteSet(f.scratch \ {code})
    BY <2>1, FS_Difference
  <2>3. g \in File /\ g.hotp = f.hotp /\ g.scratch = f.scratch \ {code} /\ f.hotp \in Nat
    BY <2>1, <2>2 DEF File, Lines
  <2>6. Keeps(f, g) /\ g.stamps = f.stamps
    BY <2>1 DEF Lines, Keeps
  <2>4. c \in CredType /\ c.kind = "scratch" /\ c.val = code /\ c.secret = f.secret
    BY <1>2, <2>1 DEF Cred, CredType, Kind, Lines
  <2>5. check_scratch_codes(f, code) = Accepted(g, c)
    BY <1>2 DEF check_scratch_codes
  <2> HIDE DEF g, c
  <2> DEFINE r == Accepted(g, c)
  <2>7. /\ r.rc = 0 /\ r.upd = TRUE /\ r.adv = FALSE /\ r.buf = g /\ r.cred = c
    BY DEF Accepted
  <2> HIDE DEF r
  <2>8. Consumes(f, r)
    BY <1>2, <2>3, <2>4, <2>7 DEF Consumes
  <2>9. r.rc \in {-1, 0, 1} /\ r.rc # 1
    BY <2>7, SMT
  <2>10. r.upd \in BOOLEAN /\ r.adv \in BOOLEAN
    BY <2>7, Zenon
  <2>11. Keeps(f, r.buf) /\ r.buf.stamps = f.stamps /\ r.cred.secret = f.secret
    BY <2>4, <2>6, <2>7
  <2>12. Sound(f, r)
    BY <2>3, <2>4, <2>7, <2>8, <2>9, <2>10, <2>11, Zenon DEF Sound
  <2> QED BY <2>5, <2>12 DEF r
<1> QED BY <1>1, <1>2

LEMMA InvalidateSound ==
    ASSUME NEW f \in File, NEW tm \in Int
    PROVE  Sound(f, invalidate_timebased_code(f, tm))
<1> DEFINE w == window_size(f)
           kept == {b \in f.blocked : b - tm < w /\ tm - b < w}
           g == [f EXCEPT !.blocked = kept \cup {tm}]
           c == Cred(f, "totp", tm)
<1>1. f \in Lines /\ IsFiniteSet(f.scratch) /\ IsFiniteSet(f.blocked)
  BY DEF File
<1>2. IsFiniteSet(kept \cup {tm})
  <2>1. kept \subseteq f.blocked
    OBVIOUS
  <2> HIDE DEF kept
  <2>2. IsFiniteSet(kept)
    BY <1>1, <2>1, FS_Subset
  <2> QED BY <2>2, FS_AddElement
<1>3. kept \cup {tm} \in SUBSET Int
  BY <1>1 DEF Lines
<1>4. invalidate_timebased_code(f, tm) \in
         {[Accepted(f, c) EXCEPT !.upd = FALSE], Error(f), Accepted(g, c)}
  BY DEF invalidate_timebased_code
<1> HIDE DEF kept, w
<1>5. g \in File /\ g.hotp = f.hotp /\ g.scratch = f.scratch /\ f.hotp \in Nat
  BY <1>1, <1>2, <1>3 DEF File, Lines
<1>9. Keeps(f, g) /\ g.stamps = f.stamps /\ Keeps(f, f)
  BY <1>1 DEF Lines, Keeps
<1>6. c \in CredType /\ c.kind = "totp" /\ c.secret = f.secret
  BY <1>1 DEF Cred, CredType, Kind, Lines
<1> HIDE DEF g, c
<1>7. Sound(f, [Accepted(f, c) EXCEPT !.upd = FALSE])
  BY <1>5, <1>6, <1>9 DEF Sound, Accepted, Consumes
<1>8. Sound(f, Accepted(g, c))
  BY <1>5, <1>6, <1>9 DEF Sound, Accepted, Consumes
<1> QED BY <1>4, <1>7, <1>8, MissSound

LEMMA RecentType ==
    ASSUME NEW T, NEW h \in Seq(T), NEW e \in T
    PROVE  Recent(h, e) \in Seq(T)
<1>1. CASE Len(h) = HISTORY
  <2>1. h # <<>>
    BY <1>1 DEF HISTORY
  <2>2. Tail(h) \in Seq(T)
    BY <2>1, HeadTailProperties
  <2>3. Append(Tail(h), e) \in Seq(T)
    BY <2>2, AppendProperties
  <2> QED BY <1>1, <2>3 DEF Recent
<1>2. CASE Len(h) # HISTORY
  <2>1. Append(h, e) \in Seq(T)
    BY AppendProperties
  <2> QED BY <1>2, <2>1 DEF Recent
<1> QED BY <1>1, <1>2

LEMMA QuotientType == ASSUME NEW a \in Int PROVE Quotient(a, HISTORY) \in Int
BY DEF Quotient, HISTORY

LEMMA SkewSound ==
    ASSUME NEW f \in File, NEW skew \in Int, NEW tm \in Int
    PROVE  Sound(f, check_time_skew(f, skew, tm))
<1> DEFINE T == [tm : Int, skew : Int]
           h == Recent(f.resetting, [tm |-> tm, skew |-> skew])
           avg == Quotient(h[1].skew + h[2].skew + h[3].skew, HISTORY)
           taught == [f EXCEPT !.skew = avg, !.resetting = <<>>,
                               !.lines = @ \cup {"TIME_SKEW", "RESETTING_TIME_SKEW"}]
           waiting == [f EXCEPT !.resetting = h,
                                !.lines = @ \cup {"RESETTING_TIME_SKEW"}]
           c == Cred(f, "totp", tm + skew)
<1>1. f \in Lines /\ IsFiniteSet(f.scratch) /\ IsFiniteSet(f.blocked)
  BY DEF File
<1>2. h \in Seq(T)
  <2>1. f.resetting \in Seq(T) /\ [tm |-> tm, skew |-> skew] \in T
    BY <1>1 DEF Lines
  <2> HIDE DEF T
  <2> QED BY <2>1, RecentType
<1>3. \/ check_time_skew(f, skew, tm) = Error(f)
      \/ Consistent(h, skew) /\ check_time_skew(f, skew, tm) = Accepted(taught, c)
      \/ check_time_skew(f, skew, tm) = [Error(waiting) EXCEPT !.upd = TRUE]
  BY DEF check_time_skew
<1> HIDE DEF h
<1>4. Consistent(h, skew) => avg \in Int
  <2> SUFFICES ASSUME Consistent(h, skew) PROVE avg \in Int
    OBVIOUS
  <2>1. Len(h) = 3
    BY DEF Consistent, HISTORY
  <2>2. h[1] \in T /\ h[2] \in T /\ h[3] \in T
    <3>1. 1 \in 1..Len(h) /\ 2 \in 1..Len(h) /\ 3 \in 1..Len(h)
      BY <2>1
    <3> HIDE DEF T
    <3> QED BY <1>2, <3>1, ElementOfSeq, Zenon
  <2>3. h[1].skew + h[2].skew + h[3].skew \in Int
    BY <2>2
  <2> QED BY <2>3, QuotientType
<1>5. c \in CredType /\ c.kind = "totp" /\ c.secret = f.secret
  <2>1. tm + skew \in Int
    OBVIOUS
  <2> QED BY <1>1, <2>1 DEF Cred, CredType, Kind, Lines
<1>6. /\ waiting \in File /\ waiting.hotp = f.hotp
      /\ waiting.scratch = f.scratch /\ f.hotp \in Nat
      /\ Keeps(f, waiting) /\ waiting.stamps = f.stamps
  BY <1>1, <1>2 DEF File, Lines, Option, Keeps
<1> HIDE DEF avg
<1>7. ASSUME avg \in Int
      PROVE  /\ taught \in File /\ taught.hotp = f.hotp /\ taught.scratch = f.scratch
             /\ Keeps(f, taught) /\ taught.stamps = f.stamps
  <2>1. <<>> \in Seq(T)
    OBVIOUS
  <2> QED BY <1>1, <1>7, <2>1 DEF File, Lines, Option, Keeps
<1> HIDE DEF taught, waiting, c
<1>8. ASSUME avg \in Int
      PROVE  Sound(f, Accepted(taught, c))
  BY <1>5, <1>6, <1>7, <1>8 DEF Sound, Accepted, Consumes
<1>9. Sound(f, [Error(waiting) EXCEPT !.upd = TRUE])
  BY <1>6, NoCredType DEF Sound, Error, Consumes
<1> QED BY <1>3, <1>4, <1>8, <1>9, MissSound

LEMMA WindowType == ASSUME NEW f PROVE window_size(f) \in 0..100
BY DEF window_size

LEMMA TimebasedSound ==
    ASSUME NEW f \in File, NEW code, NEW instant \in Nat, NEW noskewadj
    PROVE  Sound(f, check_timebased_code(f, code, instant, noskewadj))
<1> DEFINE tm == get_timestamp(instant)
           w == window_size(f)
           lo == -((w - 1) \div 2)
           hi == w \div 2
           hits == Matching(f, code, tm + f.skew, lo .. hi)
           far == Matching(f, code, tm, -(SKEW_SEARCH - 1) .. SKEW_SEARCH - 1)
           first == Earliest(hits)
           near == Nearest(far)
<1>1. tm \in Int
  BY StepAssumption DEF get_timestamp
<1>2. w \in Int
  BY WindowType
<1>3. f.skew \in Int
  BY DEF File, Lines
<1>4. \/ check_timebased_code(f, code, instant, noskewadj) \in {Miss(f), Error(f)}
      \/ /\ hits # {}
         /\ check_timebased_code(f, code, instant, noskewadj)
              = invalidate_timebased_code(f, tm + f.skew + Earliest(hits))
      \/ /\ far # {}
         /\ check_timebased_code(f, code, instant, noskewadj) = check_time_skew(f, Nearest(far), tm)
  BY DEF check_timebased_code
<1> HIDE DEF tm, w
<1>5. lo \in Int /\ hi \in Int
  BY <1>2
<1> HIDE DEF lo, hi
<1>6. ASSUME hits # {}
      PROVE  Sound(f, invalidate_timebased_code(f, tm + f.skew + Earliest(hits)))
  <2>1. hits \in SUBSET (lo .. hi)
    BY DEF Matching
  <2> HIDE DEF hits
  <2>2. first \in hits
    BY <1>5, <1>6, <2>1, EarliestIsMember
  <2> HIDE DEF first
  <2>3. tm + f.skew + first \in Int
    BY <1>1, <1>3, <1>5, <2>1, <2>2
  <2>4. Sound(f, invalidate_timebased_code(f, tm + f.skew + first))
    BY <2>3, InvalidateSound, Zenon
  <2> QED BY <2>4 DEF first
<1>7. ASSUME far # {}
      PROVE  Sound(f, check_time_skew(f, Nearest(far), tm))
  <2>1. SKEW_SEARCH - 1 \in Int /\ -(SKEW_SEARCH - 1) \in Int
    BY SearchAssumption
  <2>2. far \in SUBSET (-(SKEW_SEARCH - 1) .. SKEW_SEARCH - 1)
    BY DEF Matching
  <2> HIDE DEF far
  <2>3. near \in far
    BY <1>7, <2>1, <2>2, NearestIsMember
  <2> HIDE DEF near
  <2>4. near \in Int
    BY <2>1, <2>2, <2>3
  <2>5. Sound(f, check_time_skew(f, near, tm))
    BY <1>1, <2>4, SkewSound, Zenon
  <2> QED BY <2>5 DEF near
<1> HIDE DEF hits, far
<1> QED BY <1>4, <1>6, <1>7, MissSound

LEMMA CounterbasedSound ==
    ASSUME NEW f \in File, NEW code
    PROVE  Sound(f, check_counterbased_code(f, code))
<1> DEFINE w == window_size(f)
           hits == Matching(f, code, f.hotp, 0 .. w - 1)
           first == Earliest(hits)
           used == f.hotp + first
           g == [f EXCEPT !.hotp = used + 1]
           c == Cred(f, "hotp", used)
<1>1. f \in Lines /\ IsFiniteSet(f.scratch) /\ IsFiniteSet(f.blocked) /\ f.hotp \in Nat
  BY DEF File, Lines
<1>2. \/ check_counterbased_code(f, code) \in {Miss(f), Error(f), [Miss(f) EXCEPT !.adv = TRUE]}
      \/ hits # {} /\ check_counterbased_code(f, code) = Accepted(g, c)
  BY DEF check_counterbased_code
<1>3. ASSUME hits # {}
      PROVE  Sound(f, Accepted(g, c))
  <2>1. w - 1 \in Int /\ 0 \in Int
    BY WindowType
  <2>2. hits \in SUBSET (0 .. w - 1)
    BY DEF Matching
  <2> HIDE DEF hits, w
  <2>3. first \in hits
    BY <1>3, <2>1, <2>2, EarliestIsMember
  <2> HIDE DEF first
  <2>4. used \in Nat /\ used >= f.hotp
    BY <1>1, <2>1, <2>2, <2>3
  <2> HIDE DEF used
  <2>5. /\ g \in File /\ g.hotp = used + 1 /\ g.scratch = f.scratch
        /\ Keeps(f, g) /\ g.stamps = f.stamps
    <3>1. used + 1 \in Nat
      BY <2>4
    <3> QED BY <1>1, <3>1 DEF File, Lines, Keeps
  <2>6. c \in CredType /\ c.kind = "hotp" /\ c.val = used /\ c.secret = f.secret
    BY <1>1, <2>4 DEF Cred, CredType, Kind, Lines
  <2> HIDE DEF g, c
  <2> QED BY <2>4, <2>5, <2>6 DEF Sound, Accepted, Consumes
<1> HIDE DEF hits, g, c
<1> QED BY <1>2, <1>3, MissSound

LEMMA AdvanceType ==
    ASSUME NEW f \in File
    PROVE  /\ advance_counter(f) \in File
           /\ advance_counter(f).scratch = f.scratch
           /\ advance_counter(f).hotp = f.hotp + 1
           /\ Keeps(f, advance_counter(f)) /\ advance_counter(f).stamps = f.stamps
           /\ advance_counter(f).blocked = f.blocked /\ advance_counter(f).skew = f.skew
<1>1. f \in Lines /\ IsFiniteSet(f.scratch) /\ IsFiniteSet(f.blocked)
  BY DEF File
<1>2. f.hotp + 1 \in Nat
  BY <1>1 DEF Lines
<1> QED BY <1>1, <1>2 DEF File, Lines, advance_counter, Keeps

\* Every verdict of the loop is sound.
LEMMA CheckSound ==
    ASSUME NEW f \in File, NEW code, NEW instant \in Nat, NEW noskewadj
    PROVE  Sound(f, check_code(f, code, instant, noskewadj))
BY ScratchSound, TimebasedSound, CounterbasedSound DEF check_code
-------------------------------------------------------------------------------
(* Logins.                                                                    *)

USE DEF Phase, Working, Holding, Saving

LEMMA BlankType == Blank \in LocalType /\ Blank.rc = "SESSION_ERR" /\ Blank.cred = NoCred
<1>1. (CHOOSE p \in Params : TRUE) \in Params
  BY ParamAssumption
<1> QED BY <1>1, NoCredType DEF Blank, LocalType

LEMMA NoFileFresh == ASSUME NEW f \in File PROVE f # NoFile
BY FileAssumption

\* The part of TypeOK that is about the processes.
LocalOK ==
    /\ pc \in [Login -> Phase]
    /\ sess \in [Login -> LocalType]
    /\ \A p \in Login : pc[p] \in Working => sess[p].buf \in File
    /\ \A p \in Login : pc[p] = "loop" => sess[p].mode <= 3
SharedOK ==
    /\ now \in Nat /\ mtime \in Nat /\ logins \in Nat /\ version \in Nat
    /\ file \in File \cup {NoFile}

\* A process moves on with new local variables.
LEMMA Moves ==
    ASSUME LocalOK, NEW p \in Login, NEW l \in LocalType, NEW to \in Phase,
           to \in Working => l.buf \in File,
           to = "loop" => l.mode <= 3,
           pc' = [pc EXCEPT ![p] = to],
           sess' = [sess EXCEPT ![p] = l]
    PROVE  LocalOK'
<1>1. pc' \in [Login -> Phase] /\ sess' \in [Login -> LocalType]
  BY DEF LocalOK
<1>2. ASSUME NEW q \in Login
      PROVE  /\ pc'[q] \in Working => sess'[q].buf \in File
             /\ pc'[q] = "loop" => sess'[q].mode <= 3
  <2>1. CASE q = p
    BY <2>1 DEF LocalOK
  <2>2. CASE q # p
    <3>1. pc'[q] = pc[q] /\ sess'[q] = sess[q]
      BY <2>2 DEF LocalOK
    <3> QED BY <3>1 DEF LocalOK
  <2> QED BY <2>1, <2>2
<1> QED BY <1>1, <1>2 DEF LocalOK

\* A process returns.
LEMMA Returns ==
    ASSUME LocalOK, NEW p \in Login, NEW l, Return(p, l)
    PROVE  LocalOK'
<1>1. pc' = [pc EXCEPT ![p] = "idle"] /\ sess' = [sess EXCEPT ![p] = Blank]
  BY DEF Return, Goto
<1> QED BY <1>1, Moves, BlankType

\* A process moves on with the local variables it has.
LEMMA Goes ==
    ASSUME LocalOK, NEW p \in Login, NEW to \in Phase, to # "loop",
           pc[p] \in Working, Goto(p, to), UNCHANGED sess
    PROVE  LocalOK'
<1>1. pc' = [pc EXCEPT ![p] = to] /\ sess' = [sess EXCEPT ![p] = sess[p]]
  BY DEF Goto, LocalOK
<1>2. sess[p] \in LocalType /\ sess[p].buf \in File
  BY DEF LocalOK
<1> QED BY <1>1, <1>2, Moves

\* A pass of the loop keeps the types.
LEMMA AttemptType ==
    ASSUME NEW l \in LocalType, l.mode <= 3, NEW f, NEW r, Sound(f, r),
           NEW e \in Entry \cup {NoEntry}
    PROVE  /\ Attempt(l, e, r) \in LocalType
           /\ Attempt(l, e, r).buf \in File
           /\ Attempt(l, e, r).mode = l.mode + 1
<1> DEFINE n == l.mode + 1
           u == l.upd \/ r.upd
           a == r.adv \/ (l.adv /\ r.cred.kind # "hotp")
           v == IF r.rc = 0 THEN "SUCCESS" ELSE "SESSION_ERR"
           b == r.buf
           c == r.cred
<1>1. n \in 0..4
  BY DEF LocalType
<1>2. b \in File /\ c \in CredType
  BY DEF Sound
<1>3. u \in BOOLEAN /\ a \in BOOLEAN /\ v \in {"SUCCESS", "SESSION_ERR"}
  OBVIOUS
<1>4. Attempt(l, e, r) = [l EXCEPT !.pw = e, !.mode = n, !.buf = b, !.upd = u, !.adv = a,
                                   !.cred = c, !.rc = v]
  BY DEF Attempt
<1> HIDE DEF n, u, a, v, b, c
<1>5. Attempt(l, e, r) \in LocalType
  BY <1>1, <1>2, <1>3, <1>4, ZenonT(30) DEF LocalType
<1>6. Attempt(l, e, r).buf = b /\ Attempt(l, e, r).mode = n
  BY <1>4 DEF LocalType
<1> QED BY <1>2, <1>5, <1>6 DEF n

\* What Conclude makes of the local variables.
Concluded(l, rc) ==
    LET advance == l.adv /\ ~l.par.no_increment_hotp
    IN  [l EXCEPT !.rc  = rc,
                  !.buf = IF advance THEN advance_counter(@) ELSE @,
                  !.upd = @ \/ advance]

LEMMA ConcludedType ==
    ASSUME NEW l \in LocalType, l.buf \in File, NEW rc \in {"SUCCESS", "SESSION_ERR"}
    PROVE  /\ Concluded(l, rc) \in LocalType
           /\ Concluded(l, rc).buf \in File
<1> DEFINE advance == l.adv /\ ~l.par.no_increment_hotp
           b == IF advance THEN advance_counter(l.buf) ELSE l.buf
           u == l.upd \/ advance
<1>1. u \in BOOLEAN
  OBVIOUS
<1>2. b \in File
  BY AdvanceType
<1>3. Concluded(l, rc) = [l EXCEPT !.rc = rc, !.buf = b, !.upd = u]
  BY Zenon DEF Concluded
<1> HIDE DEF u, b
<1> QED BY <1>1, <1>2, <1>3 DEF LocalType

LEMMA TypeStep == LoginTypes /\ [Next]_vars => LoginTypes'
<1> SUFFICES ASSUME LoginTypes, [Next]_vars PROVE LoginTypes'
  OBVIOUS
<1>0. LocalOK /\ SharedOK
  BY DEF LoginTypes, LocalOK, SharedOK
<1> SUFFICES LocalOK' /\ SharedOK'
  BY DEF LoginTypes, LocalOK, SharedOK
<1>1. CASE Tick
  BY <1>0, <1>1 DEF Tick, history, LocalOK, SharedOK
<1>2. ASSUME NEW p \in Login, Open(p)
      PROVE  LocalOK' /\ SharedOK'
  <2>1. PICK par \in Params :
           sess' = [sess EXCEPT ![p] =
              [Blank EXCEPT !.buf = file, !.size = FileSize(file), !.mtime = mtime,
                            !.par = par, !.ver = version, !.id = logins]]
    BY <1>2 DEF Open
  <2> DEFINE l == [Blank EXCEPT !.buf = file, !.size = FileSize(file), !.mtime = mtime,
                                !.par = par, !.ver = version, !.id = logins]
  <2>2. file \in File
    BY <1>0, <1>2 DEF Open, SharedOK
  <2>3. FileSize(file) \in Int
    BY <2>2, FileSizeType
  <2>4. l \in LocalType /\ l.buf \in File
    BY <1>0, <2>2, <2>3, BlankType DEF SharedOK, LocalType
  <2>5. pc' = [pc EXCEPT ![p] = "rate"] /\ sess' = [sess EXCEPT ![p] = l]
    BY <1>2, <2>1 DEF Open, Goto
  <2> HIDE DEF l
  <2>6. LocalOK'
    BY <1>0, <2>4, <2>5, Moves
  <2> QED BY <1>0, <1>2, <2>6 DEF Open, shared, SharedOK
<1>3. ASSUME NEW p \in Login, OpenMissing(p)
      PROVE  LocalOK' /\ SharedOK'
  <2>1. PICK l : Return(p, l)
    BY <1>3 DEF OpenMissing
  <2> QED BY <1>0, <1>3, <2>1, Returns DEF OpenMissing, shared, SharedOK
<1>4. ASSUME NEW p \in Login, OpenFails(p) \/ CreateFails(p) \/ StatChanged(p) \/ SaveFails(p)
      PROVE  LocalOK' /\ SharedOK'
  <2>1. Return(p, Blank)
    BY <1>4 DEF OpenFails, CreateFails, StatChanged, SaveFails, Deny
  <2>2. LocalOK'
    BY <1>0, <2>1, Returns
  <2> QED BY <1>0, <1>4, <2>2 DEF OpenFails, CreateFails, StatChanged, SaveFails, shared, SharedOK
<1>5. ASSUME NEW p \in Login, RateLimit(p)
      PROVE  LocalOK' /\ SharedOK'
  <2> DEFINE r == rate_limit(sess[p].buf, now)
             b == r.buf
             u == r.upd
             m == FirstMode(sess[p].par)
             l == [sess[p] EXCEPT !.buf = b, !.early = u, !.at = now, !.mode = m]
             to == IF r.rc = 0 THEN "loop" ELSE "create"
  <2>1. CASE Return(p, Blank)
    BY <1>0, <1>5, <2>1, Returns DEF RateLimit, shared, SharedOK
  <2>2. CASE sess' = [sess EXCEPT ![p] = l] /\ Goto(p, to)
    <3>1. sess[p] \in LocalType /\ sess[p].buf \in File
      BY <1>0, <1>5 DEF RateLimit, LocalOK
    <3>2. b \in File /\ u \in BOOLEAN
      BY <1>0, <3>1, RateLimitResult DEF SharedOK
    <3>3. m \in 0..4 /\ m <= 3 /\ now \in Nat
      BY <1>0 DEF FirstMode, SharedOK
    <3> HIDE DEF b, u, m
    <3>4. l \in LocalType
      BY <3>1, <3>2, <3>3 DEF LocalType
    <3>5. l.buf = b /\ l.mode = m
      BY <3>1 DEF LocalType
    <3>6. l.buf \in File /\ l.mode <= 3
      BY <3>2, <3>3, <3>5
    <3>7. to \in Phase /\ pc' = [pc EXCEPT ![p] = to] /\ sess' = [sess EXCEPT ![p] = l]
      BY <2>2 DEF Goto
    <3> HIDE DEF l, to
    <3>8. LocalOK'
      BY <1>0, <3>4, <3>6, <3>7, Moves
    <3> QED BY <1>0, <1>5, <3>8 DEF RateLimit, shared, SharedOK
  <2> QED BY <1>5, <2>1, <2>2 DEF RateLimit, Deny
<1>6. ASSUME NEW p \in Login, TryCode(p)
      PROVE  LocalOK' /\ SharedOK'
  <2>1. sess[p] \in LocalType /\ sess[p].buf \in File /\ sess[p].mode <= 3
    BY <1>0, <1>6 DEF TryCode, LocalOK
  <2>2. PICK e \in Typed(sess[p]) :
           LET code == CodeOf(sess[p], e)
               r    == check_code(sess[p].buf, code, now, sess[p].par.noskewadj)
           IN  /\ sess' = [sess EXCEPT ![p] = Attempt(sess[p], e, r)]
               /\ Goto(p, IF r.rc = 1 /\ sess[p].mode < LastMode(sess[p].par)
                          THEN "loop" ELSE "conclude")
    BY <1>0, <1>6 DEF TryCode, LocalOK
  <2> DEFINE r == check_code(sess[p].buf, CodeOf(sess[p], e), now, sess[p].par.noskewadj)
             to == IF r.rc = 1 /\ sess[p].mode < LastMode(sess[p].par) THEN "loop" ELSE "conclude"
             l == Attempt(sess[p], e, r)
  <2>3. e \in Entry \cup {NoEntry}
    BY <2>1 DEF Typed, LocalType
  <2>4. Sound(sess[p].buf, r)
    BY <1>0, <2>1, CheckSound DEF SharedOK
  <2>5. sess' = [sess EXCEPT ![p] = l] /\ pc' = [pc EXCEPT ![p] = to]
    BY <2>2 DEF Goto
  <2> HIDE DEF r
  <2>6. l \in LocalType /\ l.buf \in File /\ l.mode = sess[p].mode + 1
    BY <2>1, <2>3, <2>4, AttemptType
  <2>7. to \in Phase /\ (to = "loop" => sess[p].mode < LastMode(sess[p].par))
    OBVIOUS
  <2>8. to = "loop" => sess[p].mode + 1 <= 3
    BY <2>1, <2>7 DEF LastMode, LocalType
  <2> HIDE DEF l, to
  <2>9. LocalOK'
    BY <1>0, <2>5, <2>6, <2>7, <2>8, Moves
  <2> QED BY <1>0, <1>6, <2>9 DEF TryCode, shared, history, SharedOK
<1>7. ASSUME NEW p \in Login, SkipMode(p)
      PROVE  LocalOK' /\ SharedOK'
  <2>1. sess[p] \in LocalType /\ sess[p].buf \in File /\ sess[p].mode <= 3
    BY <1>0, <1>7 DEF SkipMode, LocalOK
  <2>2. PICK e \in Typed(sess[p]) :
           sess' = [sess EXCEPT ![p] = [sess[p] EXCEPT !.pw = e, !.mode = sess[p].mode + 1]]
    BY <1>7, Zenon DEF SkipMode
  <2> DEFINE l == [sess[p] EXCEPT !.pw = e, !.mode = sess[p].mode + 1]
             to == IF sess[p].mode < LastMode(sess[p].par) THEN "loop" ELSE "conclude"
  <2>3. e \in Entry \cup {NoEntry}
    BY <2>1 DEF Typed, LocalType
  <2>4. sess[p].mode + 1 \in 0..4
    BY <2>1 DEF LocalType
  <2>5. l \in LocalType /\ l.buf \in File /\ l.mode = sess[p].mode + 1
    BY <2>1, <2>3, <2>4 DEF LocalType
  <2>6. to \in Phase /\ (to = "loop" => sess[p].mode + 1 <= 3)
    BY <2>1 DEF LastMode, LocalType
  <2>7. pc' = [pc EXCEPT ![p] = to] /\ sess' = [sess EXCEPT ![p] = l]
    BY <1>7, <2>2 DEF SkipMode, Goto
  <2> HIDE DEF l, to
  <2>8. LocalOK'
    BY <1>0, <2>5, <2>6, <2>7, Moves
  <2> QED BY <1>0, <1>7, <2>8 DEF SkipMode, shared, history, SharedOK
<1>8. ASSUME NEW p \in Login, Conclude(p)
      PROVE  LocalOK' /\ SharedOK'
  <2>1. sess[p] \in LocalType /\ sess[p].buf \in File
    BY <1>0, <1>8 DEF Conclude, LocalOK
  <2>2. PICK rc \in {sess[p].rc} \cup {"SESSION_ERR"} :
           \/ Goto(p, "create") /\ sess' = [sess EXCEPT ![p] = Concluded(sess[p], rc)]
           \/ Return(p, Concluded(sess[p], rc))
    BY <1>8 DEF Conclude, Concluded
  <2>3. rc \in {"SUCCESS", "SESSION_ERR"}
    BY <2>1 DEF LocalType
  <2>4. Concluded(sess[p], rc) \in LocalType /\ Concluded(sess[p], rc).buf \in File
    BY <2>1, <2>3, ConcludedType
  <2>5. CASE Goto(p, "create") /\ sess' = [sess EXCEPT ![p] = Concluded(sess[p], rc)]
    <3>1. LocalOK'
      BY <1>0, <2>4, <2>5, Moves DEF Goto
    <3> QED BY <1>0, <1>8, <3>1 DEF Conclude, shared, SharedOK
  <2>6. CASE Return(p, Concluded(sess[p], rc))
    <3>1. LocalOK'
      BY <1>0, <2>6, Returns
    <3> QED BY <1>0, <1>8, <3>1 DEF Conclude, shared, SharedOK
  <2> QED BY <2>2, <2>5, <2>6
<1>9. ASSUME NEW p \in Login, CreateTmp(p) \/ StatSame(p)
      PROVE  LocalOK' /\ SharedOK'
  <2>1. PICK to \in {"stat", "write"} : Goto(p, to) /\ UNCHANGED sess /\ pc[p] \in Working
    BY <1>9 DEF CreateTmp, StatSame
  <2>2. LocalOK'
    BY <1>0, <2>1, Goes
  <2> QED BY <1>0, <1>9, <2>2 DEF CreateTmp, StatSame, shared, history, SharedOK
<1>10. ASSUME NEW p \in Login, WriteTmp(p)
       PROVE  LocalOK' /\ SharedOK'
  <2> DEFINE l == [sess[p] EXCEPT !.wtime = now]
  <2>1. sess[p] \in LocalType /\ sess[p].buf \in File
    BY <1>0, <1>10 DEF WriteTmp, LocalOK
  <2>2. l \in LocalType /\ l.buf \in File
    BY <1>0, <2>1 DEF SharedOK, LocalType
  <2>3. pc' = [pc EXCEPT ![p] = "rename"] /\ sess' = [sess EXCEPT ![p] = l]
    BY <1>0, <1>10 DEF WriteTmp, Goto, LocalOK
  <2> HIDE DEF l
  <2>4. LocalOK'
    BY <1>0, <2>2, <2>3, Moves
  <2> QED BY <1>0, <1>10, <2>4 DEF WriteTmp, shared, history, SharedOK
<1>11. ASSUME NEW p \in Login, Rename(p)
       PROVE  LocalOK' /\ SharedOK'
  <2>1. LocalOK'
    BY <1>0, <1>11, Returns DEF Rename
  <2>2. sess[p].buf \in File /\ sess[p].wtime \in Nat
    BY <1>0, <1>11 DEF Rename, LocalOK, LocalType
  <2> QED BY <1>0, <1>11, <2>1, <2>2 DEF Rename, SharedOK
<1>12. ASSUME NEW p \in Login, Kill(p)
       PROVE  LocalOK' /\ SharedOK'
  <2>1. LocalOK'
    BY <1>0, <1>12, BlankType, Moves DEF Kill, Goto
  <2> QED BY <1>0, <1>12, <2>1 DEF Kill, shared, history, SharedOK
<1>13. CASE UNCHANGED vars
  BY <1>0, <1>13 DEF vars, LocalOK, SharedOK
<1> QED
  BY <1>1, <1>2, <1>3, <1>4, <1>5, <1>6, <1>7, <1>8, <1>9, <1>10, <1>11, <1>12, <1>13
  DEF Next, Step

\* Only a login puts a name on the temporary file, and that of its own.
LEMMA TmpType == [Next]_vars => tmp' \in {tmp, NoOne} \cup Login
<1>1. ASSUME NEW p \in Login,
             Open(p) \/ OpenMissing(p) \/ OpenFails(p) \/ Step(p) \/ Kill(p)
      PROVE  tmp' \in {tmp, NoOne, p}
  BY <1>1 DEF Open, OpenMissing, OpenFails, Step, RateLimit, TryCode, SkipMode, Conclude,
         CreateTmp, CreateFails, StatSame, StatChanged, WriteTmp, Rename, SaveFails, Kill, shared
<1> QED BY <1>1 DEF Next, Tick, vars

LEMMA TypeInit == Init => TypeOK
<1> SUFFICES ASSUME Init PROVE TypeOK
  OBVIOUS
<1>1. file \in File \cup {NoFile}
  BY FileAssumption DEF Init
<1> QED BY <1>1, BlankType DEF Init, TypeOK, LoginTypes

\* The variables of PamLogin always have their types.
THEOREM TypeCorrect == Spec => []TypeOK
<1>1. TypeOK /\ [Next]_vars => TypeOK'
  BY TypeStep, TmpType DEF TypeOK
<1> QED BY <1>1, TypeInit, PTL DEF Spec
-------------------------------------------------------------------------------
(* What a step of one login leaves alone.                                    *)

Act(p) == Open(p) \/ OpenMissing(p) \/ OpenFails(p) \/ Step(p) \/ Kill(p)

\* A step of p is a step of nobody else.
LEMMA Others ==
    ASSUME LoginTypes, NEW p \in Login, Act(p), NEW q \in Login, q # p
    PROVE  pc'[q] = pc[q] /\ sess'[q] = sess[q]
<1>1. (\E to : pc' = [pc EXCEPT ![p] = to]) => pc'[q] = pc[q]
  BY DEF LoginTypes
<1>2. (\E l : sess' = [sess EXCEPT ![p] = l]) \/ sess' = sess => sess'[q] = sess[q]
  BY DEF LoginTypes
<1>3. \E to : pc' = [pc EXCEPT ![p] = to]
  BY DEF Act, Open, OpenMissing, OpenFails, Step, RateLimit, TryCode, SkipMode, Conclude,
         CreateTmp, CreateFails, StatSame, StatChanged, WriteTmp, Rename, SaveFails, Kill,
         Deny, Return, Goto
<1>4. (\E l : sess' = [sess EXCEPT ![p] = l]) \/ sess' = sess
  BY DEF Act, Open, OpenMissing, OpenFails, Step, RateLimit, TryCode, SkipMode, Conclude,
         CreateTmp, CreateFails, StatSame, StatChanged, WriteTmp, Rename, SaveFails, Kill,
         Deny, Return, Goto
<1> QED BY <1>1, <1>2, <1>3, <1>4

\* Only rename() changes the file.
LEMMA OnlyRename ==
    ASSUME NEW p \in Login, Act(p), ~Rename(p)
    PROVE  UNCHANGED <<file, mtime, version, seen>>
BY DEF Act, Open, OpenMissing, OpenFails, Step, RateLimit, TryCode, SkipMode, Conclude,
       CreateTmp, CreateFails, StatSame, StatChanged, WriteTmp, SaveFails, Kill, shared, history

LEMMA SeenGrows == [Next]_vars => seen \subseteq seen' /\ (FreshStamps' => FreshStamps)
<1> SUFFICES ASSUME [Next]_vars PROVE seen \subseteq seen'
  BY DEF FreshStamps
<1>1. ASSUME NEW p \in Login, Act(p) PROVE seen \subseteq seen'
  BY <1>1, OnlyRename DEF Rename
<1> QED BY <1>1 DEF Next, Act, Tick, vars, history

LEMMA TmpStep == LoginTypes /\ TmpExclusive /\ [Next]_vars => TmpExclusive'
<1> SUFFICES ASSUME LoginTypes, TmpExclusive, [Next]_vars, NEW q \in Login, pc'[q] \in Holding
             PROVE  tmp' = q
  BY DEF TmpExclusive
<1>1. CASE Tick \/ UNCHANGED vars
  BY <1>1 DEF Tick, vars, TmpExclusive
<1>2. ASSUME NEW p \in Login, Act(p)
      PROVE  tmp' = q
  <2>1. CASE q # p
    <3>1. pc[q] \in Holding /\ tmp = q
      BY <1>2, <2>1, Others DEF TmpExclusive
    <3>2. pc[p] \notin Holding /\ tmp # NoOne
      BY <2>1, <3>1, LoginAssumption DEF TmpExclusive
    <3> QED
      BY <1>2, <3>1, <3>2
      DEF Act, Open, OpenMissing, OpenFails, Step, RateLimit, TryCode, SkipMode, Conclude,
          CreateTmp, CreateFails, StatSame, StatChanged, WriteTmp, Rename, SaveFails, Kill, shared
  <2>2. CASE q = p
    <3>1. pc \in [Login -> Phase]
      BY DEF LoginTypes
    <3>2. CreateTmp(p) \/ (StatSame(p) \/ WriteTmp(p))
      BY <1>2, <2>2, <3>1
      DEF Act, Open, OpenMissing, OpenFails, Step, RateLimit, TryCode, SkipMode, Conclude,
          CreateFails, StatChanged, Rename, SaveFails, Kill, Deny, Return, Goto
    <3> QED BY <2>2, <3>2 DEF CreateTmp, StatSame, WriteTmp, TmpExclusive, shared
  <2> QED BY <2>1, <2>2
<1> QED BY <1>1, <1>2 DEF Next, Act

\* The temporary file belongs to one login at a time.
THEOREM TmpIsExclusive == Spec => []TmpExclusive
<1>1. Init => TmpExclusive
  BY DEF Init, TmpExclusive
<1>2. TypeOK /\ TmpExclusive /\ [Next]_vars => TmpExclusive'
  BY TmpStep DEF TypeOK
<1> QED BY <1>1, <1>2, TypeCorrect, PTL DEF Spec
-------------------------------------------------------------------------------
(* What a step does to the identity of a login: the version it has read and  *)
(* its number.                                                               *)

SameRead(l, m) == l.ver = m.ver /\ l.size = m.size /\ l.mtime = m.mtime /\ l.id = m.id

LEMMA Inner ==
    ASSUME LoginTypes, NEW p \in Login, Act(p), ~Open(p), pc'[p] \in Working
    PROVE  /\ pc[p] \in Working
           /\ SameRead(sess'[p], sess[p])
           /\ UNCHANGED <<file, mtime, version, seen, logins, grants>>
<1>0. pc \in [Login -> Phase] /\ sess \in [Login -> LocalType]
  BY DEF LoginTypes
<1>1. CASE RateLimit(p)
  <2> DEFINE r == rate_limit(sess[p].buf, now)
             b == r.buf
             u == r.upd
             m == FirstMode(sess[p].par)
             l == [sess[p] EXCEPT !.buf = b, !.early = u, !.at = now, !.mode = m]
  <2>1. sess' = [sess EXCEPT ![p] = l] /\ UNCHANGED grants
    BY <1>0, <1>1 DEF RateLimit, Deny, Return, Goto
  <2>2. sess'[p] = l
    BY <1>0, <2>1
  <2> HIDE DEF b, u, m
  <2>3. SameRead(l, sess[p])
    BY <1>0 DEF LocalType, SameRead
  <2> QED BY <1>1, <2>1, <2>2, <2>3 DEF RateLimit, shared
<1>2. CASE TryCode(p)
  <2>1. PICK e, r : sess'[p] = Attempt(sess[p], e, r)
    BY <1>0, <1>2 DEF TryCode
  <2>2. SameRead(Attempt(sess[p], e, r), sess[p])
    <3> DEFINE n == sess[p].mode + 1
               u == sess[p].upd \/ r.upd
               a == r.adv \/ (sess[p].adv /\ r.cred.kind # "hotp")
               v == IF r.rc = 0 THEN "SUCCESS" ELSE "SESSION_ERR"
               b == r.buf
               c == r.cred
    <3>1. Attempt(sess[p], e, r) = [sess[p] EXCEPT !.pw = e, !.mode = n, !.buf = b, !.upd = u,
                                                   !.adv = a, !.cred = c, !.rc = v]
      BY DEF Attempt
    <3> HIDE DEF n, u, a, v, b, c
    <3> QED BY <1>0, <3>1 DEF LocalType, SameRead
  <2> QED BY <1>2, <2>1, <2>2 DEF TryCode, shared, history
<1>3. CASE SkipMode(p)
  <2>1. PICK e : sess'[p] = [sess[p] EXCEPT !.pw = e, !.mode = sess[p].mode + 1]
    BY <1>0, <1>3 DEF SkipMode
  <2>2. SameRead(sess'[p], sess[p])
    BY <1>0, <2>1 DEF LocalType, SameRead
  <2> QED BY <1>3, <2>2 DEF SkipMode, shared, history
<1>4. CASE Conclude(p)
  <2>1. PICK rc : sess' = [sess EXCEPT ![p] = Concluded(sess[p], rc)] /\ UNCHANGED grants
    BY <1>0, <1>4 DEF Conclude, Concluded, Return, Goto
  <2>2. sess'[p] = Concluded(sess[p], rc)
    BY <1>0, <2>1
  <2>3. SameRead(Concluded(sess[p], rc), sess[p])
    <3> DEFINE advance == sess[p].adv /\ ~sess[p].par.no_increment_hotp
               b == IF advance THEN advance_counter(sess[p].buf) ELSE sess[p].buf
               u == sess[p].upd \/ advance
    <3>1. Concluded(sess[p], rc) = [sess[p] EXCEPT !.rc = rc, !.buf = b, !.upd = u]
      BY Zenon DEF Concluded
    <3> HIDE DEF u, b
    <3> QED BY <1>0, <3>1 DEF LocalType, SameRead
  <2> QED BY <1>4, <2>1, <2>2, <2>3 DEF Conclude, shared
<1>5. CASE CreateTmp(p) \/ StatSame(p)
  BY <1>5 DEF CreateTmp, StatSame, SameRead, shared, history
<1>6. CASE WriteTmp(p)
  <2>1. sess'[p] = [sess[p] EXCEPT !.wtime = now]
    BY <1>0, <1>6 DEF WriteTmp
  <2>2. SameRead(sess'[p], sess[p])
    BY <1>0, <2>1 DEF LocalType, SameRead
  <2> QED BY <1>6, <2>2 DEF WriteTmp, shared, history
<1>7. ASSUME OpenMissing(p) \/ OpenFails(p) \/ CreateFails(p) \/ StatChanged(p) \/ Rename(p)
             \/ SaveFails(p) \/ Kill(p)
      PROVE  FALSE
  BY <1>0, <1>7 DEF OpenMissing, OpenFails, CreateFails, StatChanged, Rename, SaveFails, Kill,
                    Deny, Return, Goto
<1> QED BY <1>1, <1>2, <1>3, <1>4, <1>5, <1>6, <1>7 DEF Act, Step

LEMMA Opened ==
    ASSUME LoginTypes, NEW p \in Login, Open(p)
    PROVE  /\ file \in File
           /\ pc[p] = "idle" /\ pc'[p] = "rate"
           /\ sess'[p].ver = version /\ sess'[p].size = FileSize(file)
           /\ sess'[p].mtime = mtime /\ sess'[p].id = logins /\ sess'[p].buf = file
           /\ sess'[p].cred = NoCred /\ sess'[p].upd = FALSE /\ sess'[p].rc = "SESSION_ERR"
           /\ UNCHANGED <<file, mtime, version, seen, grants>> /\ logins' = logins + 1
<1>0. pc \in [Login -> Phase] /\ sess \in [Login -> LocalType] /\ file \in File
  BY DEF LoginTypes, Open
<1>1. PICK par \in Params :
        sess'[p] = [Blank EXCEPT !.buf = file, !.size = FileSize(file), !.mtime = mtime,
                                 !.par = par, !.ver = version, !.id = logins]
  BY <1>0 DEF Open
<1> DEFINE s == FileSize(file)
<1>2. sess'[p] = [Blank EXCEPT !.buf = file, !.size = s, !.mtime = mtime,
                               !.par = par, !.ver = version, !.id = logins]
  BY <1>1
<1>3. Blank.cred = NoCred /\ Blank.upd = FALSE /\ Blank.rc = "SESSION_ERR"
  BY DEF Blank
<1> HIDE DEF s
<1>4. /\ sess'[p].ver = version /\ sess'[p].size = s
      /\ sess'[p].mtime = mtime /\ sess'[p].id = logins /\ sess'[p].buf = file
      /\ sess'[p].cred = NoCred /\ sess'[p].upd = FALSE /\ sess'[p].rc = "SESSION_ERR"
  BY <1>2, <1>3, BlankType DEF LocalType
<1> QED BY <1>0, <1>4 DEF Open, Goto, shared, s

\* The record of versions stays complete.
LEMMA CurrentStep == LoginTypes /\ Current /\ [Next]_vars => Current'
<1> SUFFICES ASSUME LoginTypes, Current, [Next]_vars PROVE Current'
  OBVIOUS
<1>1. ASSUME NEW p \in Login, Act(p) PROVE Current'
  <2>1. CASE Rename(p)
    BY <2>1 DEF Rename, Current, Stamp
  <2>2. CASE ~Rename(p)
    BY <1>1, <2>2, OnlyRename DEF Current, Stamp
  <2> QED BY <2>1, <2>2
<1>2. CASE Tick \/ UNCHANGED vars
  BY <1>2 DEF Tick, vars, history, Current, Stamp
<1> QED BY <1>1, <1>2 DEF Next, Act

AllRead == \A p \in Login : pc[p] \in Working => HasRead(p)

LEMMA ReadStep == LoginTypes /\ Current /\ AllRead /\ [Next]_vars => AllRead'
<1> SUFFICES ASSUME LoginTypes, Current, AllRead, [Next]_vars,
                    NEW q \in Login, pc'[q] \in Working
             PROVE  HasRead(q)'
  BY DEF AllRead
<1>1. CASE Tick \/ UNCHANGED vars
  BY <1>1 DEF Tick, vars, history, AllRead, HasRead
<1>2. ASSUME NEW p \in Login, Act(p)
      PROVE  HasRead(q)'
  <2>1. CASE q = p /\ Open(p)
    <3>1. /\ file \in File /\ version \in Nat
          /\ sess'[q].ver = version /\ sess'[q].size = FileSize(file) /\ sess'[q].mtime = mtime
          /\ UNCHANGED <<file, mtime, version, seen>>
      BY <2>1, Opened DEF LoginTypes
    <3>2. [ver |-> version, size |-> FileSize(file), mtime |-> mtime] \in seen
      BY <3>1, NoFileFresh DEF Current, Stamp
    <3> QED BY <3>1, <3>2 DEF HasRead
  <2>2. CASE q = p /\ ~Open(p)
    BY <1>2, <2>2, Inner DEF SameRead, AllRead, HasRead
  <2>3. CASE q # p /\ ~Rename(p)
    BY <1>2, <2>3, Others, OnlyRename DEF AllRead, HasRead
  <2>4. CASE q # p /\ Rename(p)
    <3>1. HasRead(q) /\ sess'[q] = sess[q]
      BY <1>2, <2>4, Others DEF AllRead
    <3>2. version \in Nat /\ sess[q].ver \in Nat
      BY <2>4 DEF LoginTypes, LocalType
    <3> QED BY <2>4, <3>1, <3>2 DEF Rename, HasRead
  <2> QED BY <2>1, <2>2, <2>3, <2>4
<1> QED BY <1>1, <1>2 DEF Next, Act

\* Logins never remove the file.
LEMMA FileStays ==
    ASSUME LoginTypes, [Next]_vars
    PROVE  /\ file # NoFile => file' # NoFile
           /\ \A q \in Login : pc'[q] \in Working => pc[q] \in Working \/ file' # NoFile
<1>1. CASE Tick \/ UNCHANGED vars
  BY <1>1 DEF Tick, vars
<1>2. ASSUME NEW p \in Login, Act(p)
      PROVE  /\ file # NoFile => file' # NoFile
             /\ \A q \in Login : pc'[q] \in Working => pc[q] \in Working \/ file' # NoFile
  <2>1. file # NoFile => file' # NoFile
    <3>1. CASE Rename(p)
      BY <3>1, NoFileFresh DEF Rename, LoginTypes
    <3>2. CASE ~Rename(p)
      BY <1>2, <3>2, OnlyRename
    <3> QED BY <3>1, <3>2
  <2>2. ASSUME NEW q \in Login, pc'[q] \in Working
        PROVE  pc[q] \in Working \/ file' # NoFile
    BY <1>2, <2>2, Others, Inner, Opened, NoFileFresh
  <2> QED BY <2>1, <2>2
<1> QED BY <1>1, <1>2 DEF Next, Act
-------------------------------------------------------------------------------
(* Who is let in.                                                            *)

\* A login is let in when it returns: without a file, without anything to save,
\* or once its file is in force.
LEMMA Granted ==
    ASSUME LoginTypes, NEW p \in Login, Act(p), NEW g \in grants', g \notin grants
    PROVE  /\ pc'[p] \notin Working
           /\ \/ OpenMissing(p) /\ g.n = logins /\ g.cred = NoCred
              \/ Conclude(p) /\ g.n = sess[p].id /\ g.cred = sess[p].cred /\ ~sess[p].upd
              \/ Rename(p) /\ g.n = sess[p].id /\ g.cred = sess[p].cred
<1>0. pc \in [Login -> Phase] /\ sess \in [Login -> LocalType]
  BY DEF LoginTypes
<1>1. ASSUME NEW l, Return(p, l)
      PROVE  l.rc = "SUCCESS" /\ g.n = l.id /\ g.cred = l.cred /\ pc'[p] \notin Working
  BY <1>0, <1>1 DEF Return, Goto
<1>2. CASE OpenMissing(p)
  <2>1. PICK rc : Return(p, [Blank EXCEPT !.id = logins, !.at = now, !.rc = rc])
    BY <1>2 DEF OpenMissing
  <2>2. /\ [Blank EXCEPT !.id = logins, !.at = now, !.rc = rc].id = logins
        /\ [Blank EXCEPT !.id = logins, !.at = now, !.rc = rc].cred = NoCred
    BY BlankType DEF LocalType
  <2> QED BY <1>1, <1>2, <2>1, <2>2
<1>3. CASE Conclude(p)
  <2>1. PICK rc : Return(p, Concluded(sess[p], rc)) /\ ~Concluded(sess[p], rc).upd
    BY <1>3 DEF Conclude, Concluded
  <2>2. /\ Concluded(sess[p], rc).id = sess[p].id /\ Concluded(sess[p], rc).cred = sess[p].cred
        /\ sess[p].upd => Concluded(sess[p], rc).upd
    <3> DEFINE advance == sess[p].adv /\ ~sess[p].par.no_increment_hotp
               b == IF advance THEN advance_counter(sess[p].buf) ELSE sess[p].buf
               u == sess[p].upd \/ advance
    <3>1. Concluded(sess[p], rc) = [sess[p] EXCEPT !.rc = rc, !.buf = b, !.upd = u]
      BY Zenon DEF Concluded
    <3>2. sess[p].upd => u
      OBVIOUS
    <3> HIDE DEF u, b
    <3> QED BY <1>0, <3>1, <3>2 DEF LocalType
  <2> QED BY <1>1, <1>3, <2>1, <2>2
<1>4. CASE Rename(p)
  BY <1>1, <1>4 DEF Rename
<1>5. ASSUME OpenFails(p) \/ CreateFails(p) \/ StatChanged(p) \/ SaveFails(p)
      PROVE  FALSE
  BY <1>1, <1>5, BlankType DEF OpenFails, CreateFails, StatChanged, SaveFails, Deny
<1>6. ASSUME RateLimit(p)
      PROVE  FALSE
  BY <1>1, <1>6, BlankType DEF RateLimit, Deny
<1>7. ASSUME Open(p) \/ TryCode(p) \/ SkipMode(p) \/ CreateTmp(p) \/ StatSame(p)
             \/ WriteTmp(p) \/ Kill(p)
      PROVE  FALSE
  BY <1>7 DEF Open, TryCode, SkipMode, CreateTmp, StatSame, WriteTmp, Kill, history
<1> QED BY <1>2, <1>3, <1>4, <1>5, <1>6, <1>7 DEF Act, Step

LEMMA GrantsGrow == ASSUME NEW p \in Login, Act(p) PROVE grants \subseteq grants'
BY DEF Act, Open, OpenMissing, OpenFails, Step, RateLimit, TryCode, SkipMode, Conclude,
       CreateTmp, CreateFails, StatSame, StatChanged, WriteTmp, Rename, SaveFails, Kill,
       Deny, Return, history

LEMMA LoginsGrow ==
    ASSUME LoginTypes, NEW p \in Login, Act(p)
    PROVE  logins' = IF Open(p) \/ OpenMissing(p) \/ OpenFails(p) THEN logins + 1 ELSE logins
BY DEF Act, Open, OpenMissing, OpenFails, Step, RateLimit, TryCode, SkipMode, Conclude,
       CreateTmp, CreateFails, StatSame, StatChanged, WriteTmp, Rename, SaveFails, Kill, history

LEMMA NumberedStep == LoginTypes /\ Numbered /\ [Next]_vars => Numbered'
<1> SUFFICES ASSUME LoginTypes, Numbered, [Next]_vars PROVE Numbered'
  OBVIOUS
<1>0. logins \in Nat /\ \A q \in Login : sess[q].id \in Nat
  BY DEF LoginTypes, LocalType
<1>1. CASE Tick \/ UNCHANGED vars
  BY <1>1 DEF Tick, vars, history, Numbered
<1>2. ASSUME NEW p \in Login, Act(p)
      PROVE  Numbered'
  <2>1. logins' \in {logins, logins + 1}
    BY <1>2, LoginsGrow
  <2>2. ASSUME NEW q \in Login, pc'[q] \in Working
        PROVE  \/ pc[q] \in Working /\ sess'[q].id = sess[q].id
               \/ q = p /\ Open(p) /\ sess'[q].id = logins /\ logins' = logins + 1
    BY <1>2, <2>2, Others, Inner, Opened DEF SameRead
  <2>3. \A q \in Login : pc'[q] \in Working => sess'[q].id < logins'
    BY <1>0, <2>1, <2>2 DEF Numbered
  <2>4. ASSUME NEW q \in Login, NEW r \in Login, pc'[q] \in Working, pc'[r] \in Working,
               sess'[q].id = sess'[r].id
        PROVE  q = r
    BY <1>0, <2>2, <2>4 DEF Numbered
  <2>5. ASSUME NEW g \in grants'
        PROVE  g.n \in 0..logins'-1 /\ \A q \in Login : pc'[q] \in Working => g.n # sess'[q].id
    <3>1. CASE g \in grants
      BY <1>0, <2>1, <2>2, <3>1 DEF Numbered
    <3>2. CASE g \notin grants /\ OpenMissing(p) /\ g.n = logins
      <4>1. logins' = logins + 1
        BY <3>2 DEF OpenMissing
      <4>2. ~Open(p)
        BY <3>2 DEF OpenMissing, Open
      <4> QED BY <1>0, <2>2, <3>2, <4>1, <4>2 DEF Numbered
    <3>3. CASE /\ g \notin grants /\ pc[p] \in Working /\ pc'[p] \notin Working
               /\ g.n = sess[p].id
      BY <1>0, <2>1, <2>2, <3>3 DEF Numbered
    <3> QED BY <1>2, <3>1, <3>2, <3>3, Granted DEF Conclude, Rename
  <2> QED BY <2>3, <2>4, <2>5 DEF Numbered
<1> QED BY <1>1, <1>2 DEF Next, Act
-------------------------------------------------------------------------------
(* What a login consumes, from its own copy of the file.                     *)

LEMMA AttemptFields ==
    ASSUME NEW l \in LocalType, NEW e, NEW r
    PROVE  /\ Attempt(l, e, r).buf = r.buf /\ Attempt(l, e, r).cred = r.cred
           /\ Attempt(l, e, r).upd = (l.upd \/ r.upd)
           /\ Attempt(l, e, r).adv = (r.adv \/ (l.adv /\ r.cred.kind # "hotp"))
<1> DEFINE n == l.mode + 1
           u == l.upd \/ r.upd
           a == r.adv \/ (l.adv /\ r.cred.kind # "hotp")
           v == IF r.rc = 0 THEN "SUCCESS" ELSE "SESSION_ERR"
           b == r.buf
           c == r.cred
<1>1. Attempt(l, e, r) = [l EXCEPT !.pw = e, !.mode = n, !.buf = b, !.upd = u, !.adv = a,
                                   !.cred = c, !.rc = v]
  BY DEF Attempt
<1> HIDE DEF n, u, a, v, b, c
<1>2. /\ Attempt(l, e, r).buf = b /\ Attempt(l, e, r).cred = c
      /\ Attempt(l, e, r).upd = u /\ Attempt(l, e, r).adv = a
  BY <1>1 DEF LocalType
<1> QED BY <1>2, Zenon DEF b, c, u, a

LEMMA ConcludedFields ==
    ASSUME NEW l \in LocalType, l.buf \in File, NEW rc
    PROVE  /\ Concluded(l, rc).cred = l.cred
           /\ l.upd => Concluded(l, rc).upd
           /\ Concluded(l, rc).buf.scratch = l.buf.scratch
           /\ ~l.adv => Concluded(l, rc).buf.hotp = l.buf.hotp
           /\ Concluded(l, rc).buf.hotp \in {l.buf.hotp, l.buf.hotp + 1}
           /\ Keeps(l.buf, Concluded(l, rc).buf)
<1> DEFINE advance == l.adv /\ ~l.par.no_increment_hotp
           b == IF advance THEN advance_counter(l.buf) ELSE l.buf
           u == l.upd \/ advance
<1>1. Concluded(l, rc) = [l EXCEPT !.rc = rc, !.buf = b, !.upd = u]
  BY Zenon DEF Concluded
<1>2. l.upd => u
  OBVIOUS
<1>3. /\ b.scratch = l.buf.scratch
      /\ ~l.adv => b.hotp = l.buf.hotp
      /\ b.hotp \in {l.buf.hotp, l.buf.hotp + 1}
  BY AdvanceType
<1>4. Keeps(l.buf, b)
  BY AdvanceType DEF Keeps
<1> HIDE DEF u, b
<1>5. Concluded(l, rc).buf = b
  BY <1>1 DEF LocalType
<1> QED BY <1>1, <1>2, <1>3, <1>4, <1>5 DEF LocalType

Traced(p) ==
    /\ Marked(p)'
    /\ Keeps(sess[p].buf, sess'[p].buf)
    /\ \A f \in File : Consumes(f, sess[p]) => Consumes(f, sess'[p])

LEMMA Advances ==
    ASSUME LoginTypes, NEW p \in Login, Marked(p), Act(p), ~Open(p), pc'[p] \in Working
    PROVE  Traced(p)
<1>0. /\ pc \in [Login -> Phase] /\ sess \in [Login -> LocalType] /\ now \in Nat
      /\ pc[p] \in Working => sess[p].buf \in File
  BY DEF LoginTypes
<1>1. CASE RateLimit(p)
  <2> DEFINE r == rate_limit(sess[p].buf, now)
             b == r.buf
             u == r.upd
             m == FirstMode(sess[p].par)
             l == [sess[p] EXCEPT !.buf = b, !.early = u, !.at = now, !.mode = m]
  <2>1. sess'[p] = l
    BY <1>0, <1>1 DEF RateLimit, Deny, Return, Goto
  <2>2. b.scratch = sess[p].buf.scratch /\ b.hotp = sess[p].buf.hotp /\ Keeps(sess[p].buf, b)
    BY <1>0, <1>1, RateLimitResult DEF RateLimit
  <2> HIDE DEF b, u, m
  <2>3. /\ sess'[p].cred = sess[p].cred /\ sess'[p].upd = sess[p].upd
        /\ sess'[p].buf.scratch = sess[p].buf.scratch /\ sess'[p].buf.hotp = sess[p].buf.hotp
        /\ sess'[p].buf = b
    BY <1>0, <2>1, <2>2 DEF LocalType
  <2>4. pc[p] = "rate" /\ pc'[p] \in {"loop", "create"}
    BY <1>0, <1>1 DEF RateLimit, Deny, Return, Goto
  <2>5. sess'[p].cred = NoCred /\ ~sess'[p].upd
    BY <2>3, <2>4 DEF Marked
  <2> QED BY <2>2, <2>3, <2>4, <2>5, NoCredType DEF Marked, OneTime, Consumes, Traced
<1>2. CASE TryCode(p)
  <2>1. PICK e \in Typed(sess[p]) :
          LET r == check_code(sess[p].buf, CodeOf(sess[p], e), now, sess[p].par.noskewadj)
          IN  /\ sess'[p] = Attempt(sess[p], e, r)
              /\ pc'[p] = IF r.rc = 1 /\ sess[p].mode < LastMode(sess[p].par)
                          THEN "loop" ELSE "conclude"
    BY <1>0, <1>2 DEF TryCode, Goto
  <2> DEFINE r == check_code(sess[p].buf, CodeOf(sess[p], e), now, sess[p].par.noskewadj)
  <2>2. sess[p].buf \in File /\ sess[p].cred = NoCred /\ ~sess[p].upd
    BY <1>0, <1>2 DEF TryCode, Marked
  <2>3. Sound(sess[p].buf, r)
    BY <1>0, <2>2, CheckSound
  <2>4. pc'[p] \in {"loop", "conclude"} /\ (pc'[p] = "loop" => r.rc = 1)
    BY <2>1
  <2>5. sess'[p] = Attempt(sess[p], e, r)
    BY <2>1
  <2> HIDE DEF r
  <2>6. /\ sess'[p].buf = r.buf /\ sess'[p].cred = r.cred
        /\ sess'[p].upd = (sess[p].upd \/ r.upd)
        /\ sess'[p].adv = (r.adv \/ (sess[p].adv /\ r.cred.kind # "hotp"))
    BY <1>0, <2>5, AttemptFields
  <2>7. Marked(p)'
    <3>1. pc'[p] = "loop" => sess'[p].cred = NoCred /\ ~sess'[p].upd
      BY <2>2, <2>3, <2>4, <2>6 DEF Sound
    <3>2. OneTime(sess'[p].cred) =>
            sess'[p].upd /\ sess'[p].cred.secret = sess'[p].buf.secret
      BY <2>3, <2>6 DEF Sound, OneTime, Keeps
    <3>3. sess'[p].cred.kind = "hotp" => ~sess'[p].adv
      BY <2>3, <2>6 DEF Sound
    <3> QED BY <2>4, <3>1, <3>2, <3>3 DEF Marked
  <2>8. ASSUME NEW f \in File, Consumes(f, sess[p])
        PROVE  Consumes(f, sess'[p])
    <3>1. /\ sess[p].buf.scratch = f.scratch /\ sess[p].buf.hotp >= f.hotp
          /\ sess[p].buf.hotp \in Nat /\ f.hotp \in Nat
      BY <2>2, <2>8, NoCredType DEF Consumes, File, Lines
    <3>2. Consumes(sess[p].buf, r) /\ r.buf.hotp \in Nat
      BY <2>3 DEF Sound, File, Lines
    <3>3. sess'[p].buf = r.buf /\ sess'[p].cred = r.cred
      BY <2>6
    <3> QED BY <3>1, <3>2, <3>3 DEF Consumes
  <2> QED BY <2>3, <2>6, <2>7, <2>8 DEF Traced, Sound
<1>3. CASE SkipMode(p)
  <2>1. PICK e : sess'[p] = [sess[p] EXCEPT !.pw = e, !.mode = sess[p].mode + 1]
    BY <1>0, <1>3 DEF SkipMode
  <2>2. /\ sess'[p].cred = sess[p].cred /\ sess'[p].upd = sess[p].upd
        /\ sess'[p].buf = sess[p].buf
    BY <1>0, <2>1 DEF LocalType
  <2>3. sess[p].cred = NoCred /\ ~sess[p].upd
    BY <1>3 DEF SkipMode, Marked
  <2>4. pc'[p] \in {"loop", "conclude"}
    BY <1>0, <1>3 DEF SkipMode, Goto
  <2> QED BY <2>2, <2>3, <2>4, NoCredType DEF Marked, OneTime, Consumes, Traced, Keeps
<1>4. CASE Conclude(p)
  <2>1. PICK rc : sess' = [sess EXCEPT ![p] = Concluded(sess[p], rc)] /\ pc'[p] = "create"
    BY <1>0, <1>4 DEF Conclude, Concluded, Return, Goto
  <2>2. sess'[p] = Concluded(sess[p], rc)
    BY <1>0, <2>1
  <2>3. sess[p].buf \in File /\ sess[p].buf.hotp \in Nat
    BY <1>0, <1>4 DEF Conclude, File, Lines
  <2>4. /\ sess'[p].cred = sess[p].cred
        /\ sess[p].upd => sess'[p].upd
        /\ sess'[p].buf.scratch = sess[p].buf.scratch
        /\ ~sess[p].adv => sess'[p].buf.hotp = sess[p].buf.hotp
        /\ sess'[p].buf.hotp \in {sess[p].buf.hotp, sess[p].buf.hotp + 1}
        /\ Keeps(sess[p].buf, sess'[p].buf)
    BY <1>0, <2>2, <2>3, ConcludedFields
  <2>5. sess[p].cred.kind = "hotp" => sess'[p].buf.hotp = sess[p].buf.hotp
    BY <1>4, <2>4 DEF Conclude, Marked
  <2>6. Marked(p)'
    BY <1>4, <2>1, <2>4 DEF Conclude, Marked, Keeps
  <2>7. ASSUME NEW f \in File, Consumes(f, sess[p])
        PROVE  Consumes(f, sess'[p])
    <3>1. f.hotp \in Nat
      BY DEF File, Lines
    <3> QED BY <2>3, <2>4, <2>5, <2>7, <3>1 DEF Consumes
  <2> QED BY <2>4, <2>6, <2>7 DEF Traced
<1>5. CASE CreateTmp(p) \/ StatSame(p)
  <2>1. pc'[p] \in {"stat", "write"} /\ pc[p] \in Working /\ sess'[p] = sess[p]
    BY <1>0, <1>5 DEF CreateTmp, StatSame, Goto
  <2> QED BY <2>1 DEF Marked, Traced, Keeps
<1>6. CASE WriteTmp(p)
  <2>1. sess'[p] = [sess[p] EXCEPT !.wtime = now] /\ pc'[p] = "rename" /\ pc[p] \in Working
    BY <1>0, <1>6 DEF WriteTmp, Goto
  <2>2. sess'[p].cred = sess[p].cred /\ sess'[p].upd = sess[p].upd /\ sess'[p].buf = sess[p].buf
    BY <1>0, <2>1 DEF LocalType
  <2> QED BY <2>1, <2>2 DEF Marked, Consumes, Traced, Keeps
<1>7. ASSUME OpenMissing(p) \/ OpenFails(p) \/ CreateFails(p) \/ StatChanged(p) \/ Rename(p)
             \/ SaveFails(p) \/ Kill(p)
      PROVE  FALSE
  BY <1>0, <1>7 DEF OpenMissing, OpenFails, CreateFails, StatChanged, Rename, SaveFails, Kill,
                    Deny, Return, Goto
<1> QED BY <1>1, <1>2, <1>3, <1>4, <1>5, <1>6, <1>7 DEF Act, Step
-------------------------------------------------------------------------------
(* The inductive invariant.                                                  *)

AllMarked == \A p \in Login : Marked(p)
AllDerived == \A p \in Login : Derived(p)

LEMMA MarkedStep == LoginTypes /\ AllMarked /\ [Next]_vars => AllMarked'
<1> SUFFICES ASSUME LoginTypes, AllMarked, [Next]_vars, NEW q \in Login PROVE Marked(q)'
  BY DEF AllMarked
<1>1. CASE Tick \/ UNCHANGED vars
  BY <1>1 DEF Tick, vars, AllMarked, Marked
<1>2. ASSUME NEW p \in Login, Act(p)
      PROVE  Marked(q)'
  <2>1. CASE q # p
    BY <1>2, <2>1, Others DEF AllMarked, Marked
  <2>2. CASE q = p /\ pc'[p] \notin Working
    BY <2>2 DEF Marked
  <2>3. CASE q = p /\ Open(p)
    BY <2>3, Opened, NoCredType DEF Marked, OneTime
  <2>4. CASE q = p /\ ~Open(p) /\ pc'[p] \in Working
    BY <1>2, <2>4, Advances DEF AllMarked, Traced
  <2> QED BY <2>1, <2>2, <2>3, <2>4
<1> QED BY <1>1, <1>2 DEF Next, Act

LEMMA DerivedStep ==
    LoginTypes /\ AllMarked /\ AllRead /\ AllDerived /\ [Next]_vars => AllDerived'
<1> SUFFICES ASSUME LoginTypes, AllMarked, AllRead, AllDerived, [Next]_vars, NEW q \in Login,
                    pc'[q] \in Working, sess'[q].ver = version', file' # NoFile
             PROVE  Consumes(file', sess'[q]) /\ Keeps(file', sess'[q].buf)
  BY DEF AllDerived, Derived
<1>1. CASE Tick \/ UNCHANGED vars
  BY <1>1 DEF Tick, vars, history, AllDerived, Derived
<1>2. ASSUME NEW p \in Login, Act(p)
      PROVE  Consumes(file', sess'[q]) /\ Keeps(file', sess'[q].buf)
  <2>1. CASE q # p /\ ~Rename(p)
    BY <1>2, <2>1, Others, OnlyRename DEF AllDerived, Derived
  <2>2. CASE q # p /\ Rename(p)
    <3>1. sess[q].ver <= version /\ sess[q].ver \in Nat /\ version \in Nat
      BY <1>2, <2>2, Others DEF AllRead, HasRead, LoginTypes, LocalType
    <3>2. sess'[q].ver = sess[q].ver /\ version' = version + 1
      BY <1>2, <2>2, Others DEF Rename
    <3>3. sess[q].ver = version + 1
      BY <3>2
    <3> QED BY <3>1, <3>3, SMT
  <2>3. CASE q = p /\ Open(p)
    <3>1. file \in File /\ file' = file /\ sess'[p].buf = file /\ sess'[p].cred = NoCred
      BY <2>3, Opened
    <3>2. file.hotp \in Nat
      BY <3>1 DEF File, Lines
    <3> QED BY <2>3, <3>1, <3>2, NoCredType DEF Consumes, Keeps
  <2>4. CASE q = p /\ ~Open(p)
    <3>1. /\ pc[p] \in Working /\ sess[p].ver = version /\ UNCHANGED file
      BY <1>2, <2>4, Inner DEF SameRead
    <3>2. file \in File /\ Consumes(file, sess[p]) /\ Keeps(file, sess[p].buf)
      BY <3>1 DEF AllDerived, Derived, LoginTypes
    <3>3. Traced(p)
      BY <1>2, <2>4, Advances DEF AllMarked
    <3> QED BY <2>4, <3>1, <3>2, <3>3 DEF Traced, Keeps
  <2> QED BY <2>1, <2>2, <2>3, <2>4
<1> QED BY <1>1, <1>2 DEF Next, Act

LEMMA NoLostStep ==
    LoginTypes /\ TmpExclusive /\ Current /\ AllRead /\ NoLostUpdate /\ [Next]_vars
    => NoLostUpdate'
<1> SUFFICES ASSUME LoginTypes, TmpExclusive, Current, AllRead, NoLostUpdate, [Next]_vars,
                    FreshStamps', NEW q \in Login, pc'[q] \in Saving
             PROVE  sess'[q].ver = version'
  BY DEF NoLostUpdate
<1>0. FreshStamps
  BY SeenGrows
<1>1. CASE Tick \/ UNCHANGED vars
  BY <1>0, <1>1 DEF Tick, vars, history, NoLostUpdate
<1>2. ASSUME NEW p \in Login, Act(p)
      PROVE  sess'[q].ver = version'
  <2>1. CASE q # p
    <3>1. pc[q] \in Saving /\ sess'[q] = sess[q]
      BY <1>2, <2>1, Others
    <3>2. ~Rename(p)
      BY <2>1, <3>1 DEF Rename, TmpExclusive
    <3> QED BY <1>0, <1>2, <3>1, <3>2, OnlyRename DEF NoLostUpdate
  <2>2. CASE q = p /\ StatSame(p)
    <3>1. HasRead(p) /\ Unchanged(p) /\ file # NoFile
      BY <2>2 DEF StatSame, AllRead, Unchanged
    <3>2. Stamp(version, file, mtime) \in seen
      BY <3>1 DEF Current
    <3>3. sess[p].ver = version
      BY <1>0, <3>1, <3>2 DEF FreshStamps, Stamp, HasRead, Unchanged
    <3> QED BY <2>2, <3>3 DEF StatSame, history
  <2>3. CASE q = p /\ ~StatSame(p)
    <3>1. pc \in [Login -> Phase]
      BY DEF LoginTypes
    <3>2. WriteTmp(p)
      BY <1>2, <2>3, <3>1
      DEF Act, Open, OpenMissing, OpenFails, Step, RateLimit, TryCode, SkipMode, Conclude,
          CreateTmp, CreateFails, StatChanged, Rename, SaveFails, Kill, Deny, Return, Goto
    <3>3. SameRead(sess'[p], sess[p]) /\ version' = version
      BY <1>2, <2>3, <3>2, Inner DEF WriteTmp, Open
    <3> QED BY <1>0, <2>3, <3>2, <3>3 DEF WriteTmp, NoLostUpdate, SameRead
  <2> QED BY <2>1, <2>2, <2>3
<1> QED BY <1>1, <1>2 DEF Next, Act

\* With a one-time code only rename() lets anybody in.
LEMMA GrantRecorded ==
    ASSUME LoginTypes, NEW p \in Login, Marked(p), Act(p),
           NEW g \in grants', g \notin grants, OneTime(g.cred)
    PROVE  Rename(p) /\ g.n = sess[p].id /\ g.cred = sess[p].cred
<1>1. ~OpenMissing(p) \/ g.cred # NoCred
  BY NoCredType DEF OneTime
<1>2. ~Conclude(p) \/ g.cred # sess[p].cred \/ sess[p].upd
  BY DEF Conclude, Marked
<1> QED BY <1>1, <1>2, Granted

LEMMA GrantNeedsRename ==
    ASSUME IInv, NEW p \in Login, Act(p), NEW g \in grants', g \notin grants, OneTime(g.cred)
    PROVE  Rename(p) /\ g.n = sess[p].id /\ g.cred = sess[p].cred
BY GrantRecorded DEF IInv, TypeOK

\* What it consumed was then still in the file.
LEMMA GrantConsumes ==
    ASSUME IInv, FreshStamps, NEW p \in Login, Act(p), NEW g \in grants', g \notin grants,
           OneTime(g.cred)
    PROVE  /\ Rename(p) /\ g.n = sess[p].id
           /\ file \in File /\ file' = sess[p].buf /\ file' \in File
           /\ g.cred = sess[p].cred /\ Consumes(file, sess[p])
<1>0. LoginTypes
  BY DEF IInv, TypeOK
<1>1. Rename(p) /\ g.n = sess[p].id /\ g.cred = sess[p].cred
  BY GrantNeedsRename
<1>2. file \in File /\ Consumes(file, sess[p])
  <2>1. file # NoFile /\ sess[p].ver = version
    BY <1>1 DEF Rename, IInv, NoLostUpdate
  <2> QED BY <1>1, <2>1 DEF Rename, IInv, Derived, TypeOK, LoginTypes
<1>3. file' = sess[p].buf /\ sess[p].buf \in File
  BY <1>0, <1>1 DEF Rename, LoginTypes
<1> QED BY <1>1, <1>2, <1>3

\* A file that is replaced by a login that read it keeps no more than it had.
LEMMA RenameConsumes ==
    ASSUME IInv, FreshStamps, NEW p \in Login, Rename(p)
    PROVE  /\ file \in File /\ file' \in File
           /\ file'.scratch \subseteq file.scratch /\ file'.hotp >= file.hotp
<1>1. file # NoFile /\ sess[p].ver = version /\ file' = sess[p].buf
  BY DEF Rename, IInv, NoLostUpdate
<1>2. file \in File /\ file' \in File /\ Consumes(file, sess[p])
  BY <1>1 DEF Rename, IInv, Derived, TypeOK, LoginTypes
<1>3. file.hotp \in Nat /\ file'.hotp \in Nat
  BY <1>2 DEF File, Lines
<1> QED BY <1>1, <1>2, <1>3 DEF Consumes

LEMMA ConsumedStep == IInv /\ [Next]_vars => (FreshStamps' => Consumed')
<1> SUFFICES ASSUME IInv, [Next]_vars, FreshStamps', NEW g \in grants', OneTime(g.cred)
             PROVE  /\ file' # NoFile
                    /\ g.cred.kind = "scratch" => g.cred.val \notin file'.scratch
                    /\ g.cred.kind = "hotp" => g.cred.val \in Nat /\ g.cred.val < file'.hotp
  BY DEF Consumed
<1>0. FreshStamps /\ Consumed
  BY SeenGrows DEF IInv
<1>1. CASE Tick \/ UNCHANGED vars
  BY <1>0, <1>1 DEF Tick, vars, history, Consumed
<1>2. ASSUME NEW p \in Login, Act(p)
      PROVE  /\ file' # NoFile
             /\ g.cred.kind = "scratch" => g.cred.val \notin file'.scratch
             /\ g.cred.kind = "hotp" => g.cred.val \in Nat /\ g.cred.val < file'.hotp
  <2>1. CASE g \notin grants
    <3>1. /\ file' \in File /\ file' = sess[p].buf
          /\ g.cred = sess[p].cred /\ Consumes(file, sess[p])
      BY <1>0, <1>2, <2>1, GrantConsumes
    <3> QED BY <3>1, NoFileFresh DEF Consumes
  <2>2. CASE g \in grants /\ Rename(p)
    <3>1. /\ file \in File /\ file' \in File
          /\ file'.scratch \subseteq file.scratch /\ file'.hotp >= file.hotp
      BY <1>0, <2>2, RenameConsumes
    <3>2. file.hotp \in Nat /\ file'.hotp \in Nat
      BY <3>1 DEF File, Lines
    <3>3. /\ g.cred.kind = "scratch" => g.cred.val \notin file.scratch
          /\ g.cred.kind = "hotp" => g.cred.val \in Nat /\ g.cred.val < file.hotp
      BY <1>0, <2>2 DEF Consumed
    <3> QED BY <3>1, <3>2, <3>3, NoFileFresh
  <2>3. CASE g \in grants /\ ~Rename(p)
    BY <1>0, <1>2, <2>3, OnlyRename DEF Consumed
  <2> QED BY <2>1, <2>2, <2>3
<1> QED BY <1>1, <1>2 DEF Next, Act

LEMMA InvInit == Init => IInv
<1> SUFFICES ASSUME Init PROVE IInv
  OBVIOUS
<1>1. TypeOK
  BY TypeInit
<1>2. \A p \in Login : pc[p] = "idle"
  BY DEF Init
<1>3. Current /\ Numbered /\ Consumed
  BY <1>2 DEF Init, Current, Numbered, Consumed
<1> QED BY <1>1, <1>2, <1>3 DEF IInv, TmpExclusive, NoLostUpdate, Marked, Derived

LEMMA InvStep == IInv /\ [Next]_vars => IInv'
<1> SUFFICES ASSUME IInv, [Next]_vars PROVE IInv'
  OBVIOUS
<1>1. /\ LoginTypes /\ tmp \in Login \cup {NoOne}
      /\ TmpExclusive /\ Current /\ AllRead /\ Numbered /\ AllMarked
      /\ AllDerived /\ NoLostUpdate
  BY DEF IInv, TypeOK, AllRead, AllMarked, AllDerived
<1>2. LoginTypes' /\ TypeOK'
  BY <1>1, TypeStep, TmpType DEF TypeOK
<1>3. /\ TmpExclusive' /\ Current' /\ AllRead' /\ Numbered' /\ AllMarked'
      /\ AllDerived' /\ NoLostUpdate' /\ (FreshStamps' => Consumed')
  BY <1>1, TmpStep, CurrentStep, ReadStep, NumberedStep, MarkedStep, DerivedStep,
     NoLostStep, ConsumedStep
<1>4. \A p \in Login : pc'[p] \in Working => file' # NoFile
  BY <1>1, FileStays DEF IInv
<1> QED BY <1>2, <1>3, <1>4 DEF IInv, AllRead, AllMarked, AllDerived

THEOREM Inductive == Spec => []IInv
BY InvInit, InvStep, PTL DEF Spec
-------------------------------------------------------------------------------
(* What follows.                                                             *)

\* A login that is about to replace the file has read the version it replaces,
\* provided that versions differ in size or modification time.
THEOREM NoUpdateIsLost == Spec => []NoLostUpdate
<1>1. IInv => NoLostUpdate
  BY DEF IInv
<1> QED BY <1>1, Inductive, PTL

\* The loop never goes on with a buffer that a check has changed: the error
\* message of google_authenticator() that "should never trigger" never does.
THEOREM OopsNever == Spec => []OopsUnreachable
<1>1. IInv => OopsUnreachable
  BY DEF IInv, Marked, OopsUnreachable
<1> QED BY <1>1, Inductive, PTL

\* One-time codes are used once, however many logins are pending.
THEOREM CodesAreSingleUse == Spec => []SingleUse
<1>1. Init => SingleUse
  BY DEF Init, SingleUse
<1>2. IInv /\ SingleUse /\ [Next]_vars => SingleUse'
  <2> SUFFICES ASSUME IInv, SingleUse, [Next]_vars, FreshStamps',
                      NEW g \in grants', NEW h \in grants', g.cred = h.cred, OneTime(g.cred)
               PROVE  g.n = h.n
    BY DEF SingleUse
  <2>0. FreshStamps /\ Consumed
    BY SeenGrows DEF IInv
  <2>1. CASE Tick \/ UNCHANGED vars
    BY <2>0, <2>1 DEF Tick, vars, history, SingleUse
  <2>2. ASSUME NEW p \in Login, Act(p)
        PROVE  g.n = h.n
    <3>1. ASSUME NEW x \in grants', x \notin grants, NEW y \in grants, x.cred = y.cred,
                 OneTime(x.cred)
          PROVE  FALSE
      <4>1. file \in File /\ x.cred = sess[p].cred /\ Consumes(file, sess[p])
        BY <2>0, <2>2, <3>1, GrantConsumes
      <4>2. file.hotp \in Nat
        BY <4>1 DEF File, Lines
      <4>3. /\ x.cred.kind = "scratch" => x.cred.val \notin file.scratch
            /\ x.cred.kind = "hotp" => x.cred.val \in Nat /\ x.cred.val < file.hotp
        BY <2>0, <3>1 DEF Consumed
      <4> QED BY <3>1, <4>1, <4>2, <4>3 DEF Consumes, OneTime
    <3>2. CASE g \in grants /\ h \in grants
      BY <2>0, <3>2 DEF SingleUse
    <3>3. CASE g \notin grants /\ h \notin grants
      BY <2>0, <2>2, <3>3, GrantConsumes
    <3> QED BY <3>1, <3>2, <3>3
  <2> QED BY <2>1, <2>2 DEF Next, Act
<1> QED BY <1>1, <1>2, Inductive, PTL DEF Spec

\* Logins never set the HOTP counter back and never restore a scratch code.
THEOREM CodesAreOnlyConsumed == Spec => OnlyConsumed
<1>1. IInv /\ [Next]_vars =>
        [FreshStamps' /\ file # NoFile =>
           file'.hotp >= file.hotp /\ file'.scratch \subseteq file.scratch]_vars
  <2> SUFFICES ASSUME IInv, [Next]_vars, FreshStamps', file # NoFile
               PROVE  file'.hotp >= file.hotp /\ file'.scratch \subseteq file.scratch
    OBVIOUS
  <2>0. FreshStamps /\ file \in File /\ file.hotp \in Nat
    BY SeenGrows DEF IInv, TypeOK, LoginTypes, File, Lines
  <2>1. CASE Tick \/ UNCHANGED vars
    BY <2>0, <2>1 DEF Tick, vars
  <2>2. ASSUME NEW p \in Login, Act(p)
        PROVE  file'.hotp >= file.hotp /\ file'.scratch \subseteq file.scratch
    BY <2>0, <2>2, OnlyRename, RenameConsumes
  <2> QED BY <2>1, <2>2 DEF Next, Act
<1> QED BY <1>1, Inductive, PTL DEF Spec, OnlyConsumed

\* A temporary file left behind by a killed login keeps the state file as it is,
\* and from then on no one-time code lets anybody in.
THEOREM OrphanLocksOut == Spec => OrphanLocks
<1>1. IInv /\ [Next]_vars =>
        [Orphaned => /\ tmp' = tmp /\ file' = file
                     /\ \A g \in grants' \ grants : ~OneTime(g.cred)]_vars
  <2> SUFFICES ASSUME IInv, [Next]_vars, Orphaned
               PROVE  /\ tmp' = tmp /\ file' = file
                      /\ \A g \in grants' \ grants : ~OneTime(g.cred)
    OBVIOUS
  <2>1. CASE Tick \/ UNCHANGED vars
    BY <2>1 DEF Tick, vars, history
  <2>2. ASSUME NEW p \in Login, Act(p)
        PROVE  /\ tmp' = tmp /\ file' = file
               /\ \A g \in grants' \ grants : ~OneTime(g.cred)
    <3>1. pc[p] \notin Holding /\ tmp # NoOne
      BY DEF IInv, TmpExclusive, Orphaned
    <3>2. ~Rename(p)
      BY <3>1 DEF Rename
    <3>3. tmp' = tmp
      BY <2>2, <3>1
      DEF Act, Open, OpenMissing, OpenFails, Step, RateLimit, TryCode, SkipMode, Conclude,
          CreateTmp, CreateFails, StatSame, StatChanged, WriteTmp, Rename, SaveFails, Kill, shared
    <3> QED BY <2>2, <3>2, <3>3, OnlyRename, GrantNeedsRename
  <2> QED BY <2>1, <2>2 DEF Next, Act
<1> QED BY <1>1, Inductive, PTL DEF Spec, OrphanLocks
-------------------------------------------------------------------------------
(* Refinement.                                                               *)

\* Seen through the file, every step of a login is a step of the specification in
\* which codes are checked and consumed at once.
LEMMA AtomicStep == IInv /\ [FreshNext]_vars => [Abstract!Next]_(Abstract!vars)
<1> DEFINE scratch == IF file = NoFile THEN {} ELSE file.scratch
           counter == IF file = NoFile THEN 0 ELSE file.hotp
           admitted == {g \in grants : OneTime(g.cred)}
<1> SUFFICES ASSUME IInv, [FreshNext]_vars
             PROVE  Abstract!Next \/ UNCHANGED <<scratch, counter, admitted>>
  BY DEF Abstract!vars
<1>1. CASE Tick \/ UNCHANGED vars
  BY <1>1 DEF Tick, vars, history
<1>2. ASSUME NEW p \in Login, Act(p), FreshStamps'
      PROVE  Abstract!Next \/ UNCHANGED <<scratch, counter, admitted>>
  <2>1. CASE ~Rename(p)
    <3>1. UNCHANGED file
      BY <1>2, <2>1, OnlyRename
    <3>2. admitted' = admitted
      BY <1>2, <2>1, GrantsGrow, GrantNeedsRename
    <3> QED BY <3>1, <3>2
  <2>2. CASE Rename(p)
    <3>0. FreshStamps
      BY <1>2, SeenGrows DEF FreshNext, Next, Act
    <3>1. /\ file \in File /\ file' \in File
          /\ file'.scratch \subseteq file.scratch /\ file'.hotp >= file.hotp
      BY <2>2, <3>0, RenameConsumes
    <3>2. /\ scratch = file.scratch /\ counter = file.hotp
          /\ scratch' = file'.scratch /\ counter' = file'.hotp
          /\ counter \in Nat /\ counter' \in Nat
      BY <3>1, NoFileFresh DEF File, Lines
    <3>3. CASE admitted' = admitted
      <4>1. Abstract!Forfeit
        BY <3>1, <3>2, <3>3 DEF Abstract!Forfeit
      <4> QED BY <4>1 DEF Abstract!Next
    <3>4. CASE admitted' # admitted
      <4>1. PICK g \in grants' : g \notin grants /\ OneTime(g.cred)
        BY <1>2, <3>4, GrantsGrow
      <4>2. /\ g.n = sess[p].id /\ g.cred = sess[p].cred /\ Consumes(file, sess[p])
            /\ file' = sess[p].buf
        BY <1>2, <3>0, <4>1, GrantConsumes
      <4>3. admitted' = admitted \cup {g} /\ g \in admitted' \ admitted
        BY <2>2, <4>1 DEF Rename, Return
      <4>4. Abstract!New(g)
        BY <2>2, <4>2 DEF Rename, IInv, Numbered, Abstract!New
      <4>5. CASE g.cred.kind = "scratch"
        <5>1. Abstract!AdmitScratch(g)
          BY <3>1, <3>2, <4>2, <4>3, <4>4, <4>5 DEF Abstract!AdmitScratch, Consumes
        <5> QED BY <4>3, <5>1 DEF Abstract!Next
      <4>6. CASE g.cred.kind = "hotp"
        <5>1. Abstract!AdmitCounter(g)
          BY <3>1, <3>2, <4>2, <4>3, <4>4, <4>6 DEF Abstract!AdmitCounter, Consumes
        <5> QED BY <4>3, <5>1 DEF Abstract!Next
      <4> QED BY <4>1, <4>5, <4>6 DEF OneTime
    <3> QED BY <3>3, <3>4
  <2> QED BY <2>1, <2>2
<1> QED BY <1>1, <1>2 DEF FreshNext, Next, Act

\* As long as no two versions of the file coincide in size and modification time,
\* logins implement OneTimeAccess.
THEOREM LoginsAreAtomic == FreshSpec => Atomic
<1>1. Init => Abstract!Init
  <2> SUFFICES ASSUME Init PROVE Abstract!Init
    OBVIOUS
  <2>1. file = NoFile \/ file.hotp \in Nat
    BY FileAssumption DEF Init, File, Lines
  <2> QED BY <2>1 DEF Init, Abstract!Init
<1>2. IInv /\ [FreshNext]_vars => IInv'
  BY InvStep DEF FreshNext
<1> QED BY <1>1, <1>2, InvInit, AtomicStep, PTL DEF FreshSpec, Atomic, Abstract!Spec
===============================================================================
