------------------------------ MODULE SecretFile ------------------------------
(****************************************************************************)
(* The state file ~/.google_authenticator and the checks that              *)
(* libpam/pam_google_authenticator.c runs on an in-memory copy of it.       *)
(*                                                                          *)
(* A file is a record with one field per line the code reads or rewrites;   *)
(* get_cfg_value is field access and set_cfg_value is EXCEPT.  A check      *)
(* returns [rc, buf, upd, adv, cred]: the C return code (0 accepted, 1 not  *)
(* this kind of code, -1 error), the new buffer, *updated,                  *)
(* *must_advance_counter and the credential that was accepted.              *)
(****************************************************************************)
EXTENDS Integers, Sequences, FiniteSets

CONSTANTS
    compute_code(_, _),  \* HMAC-SHA1 code of a secret and a counter or time step
    SixDigit,            \* the values a six-digit verification code can take
    ScratchCode,         \* the values an eight-digit scratch code can take
    Secret,              \* shared secrets
    STEP,                \* seconds per time step (30 in the code)
    SKEW_SEARCH,         \* half-width of the skew search in steps (25*60)
    None                 \* no code, no value

ASSUME StepAssumption == STEP \in Nat \ {0}
ASSUME SearchAssumption == SKEW_SEARCH \in Nat \ {0}
ASSUME CodeAssumption == /\ SixDigit \cap ScratchCode = {}
                         /\ None \notin SixDigit \cup ScratchCode

\* RESETTING_TIME_SKEW keeps the last HISTORY pairs of step and skew.
HISTORY == 3

Option == {"WINDOW_SIZE", "TIME_SKEW", "RESETTING_TIME_SKEW"}
Lines ==
    [ secret         : Secret,
      totp           : BOOLEAN,              \* "TOTP_AUTH" is present
      hotp           : Nat,                  \* HOTP_COUNTER, 0 when absent
      scratch        : SUBSET ScratchCode,
      window         : Int,                  \* WINDOW_SIZE, 3 when absent
      disallow_reuse : BOOLEAN,              \* DISALLOW_REUSE is present
      blocked        : SUBSET Int,           \* the steps it lists
      attempts       : Nat,                  \* RATE_LIMIT, 0 when absent
      interval       : Nat,
      stamps         : Seq(Nat),             \* attempts it lists, oldest first
      skew           : Int,                  \* TIME_SKEW, 0 when absent
      resetting      : Seq([tm : Int, skew : Int]),
      lines          : SUBSET Option ]       \* other lines that are present
File == {f \in Lines : IsFiniteSet(f.scratch) /\ IsFiniteSet(f.blocked)}

\* A code that was accepted: which secret, which check, which counter, step or
\* scratch code.
Cred(f, kind, val) == [secret |-> f.secret, kind |-> kind, val |-> val]
Kind == {"none", "scratch", "hotp", "totp"}
CredType == [secret : Secret \cup {None}, kind : Kind, val : Int \cup ScratchCode \cup {None}]
NoCred == [secret |-> None, kind |-> "none", val |-> None]

Accepted(f, c) == [rc |-> 0, buf |-> f, upd |-> TRUE, adv |-> FALSE, cred |-> c]
Miss(f)        == [rc |-> 1, buf |-> f, upd |-> FALSE, adv |-> FALSE, cred |-> NoCred]
Error(f)       == [rc |-> -1, buf |-> f, upd |-> FALSE, adv |-> FALSE, cred |-> NoCred]
-------------------------------------------------------------------------------
(* The length of the file, less that of the line with the secret.  A step is  *)
(* printed with 8 digits, a time with 10: true of every clock since 2001.     *)

Digits(n) == 1 + Cardinality({k \in 1..9 : n >= 10^k})
Abs(n) == IF n < 0 THEN -n ELSE n
Printed(n) == Digits(Abs(n)) + (IF n < 0 THEN 1 ELSE 0)   \* "%d"

\* " %d%+d" for each history entry, the leading blank left out of the first.
ResettingSize(h) ==
    LET extra(i) == IF i \in DOMAIN h THEN 10 + Digits(Abs(h[i].skew)) ELSE 0
    IN  extra(1) + extra(2) + extra(3) - (IF h = <<>> THEN 0 ELSE 1)

\* A line has two characters before its name, one behind it, and one at its end.
LineSize(f, line) ==
    CASE line = "SCRATCH"             -> 9 * Cardinality(f.scratch)
      [] line = "TOTP_AUTH"           -> IF f.totp THEN 12 ELSE 0
      [] line = "HOTP_COUNTER"        -> IF f.hotp > 0 THEN 16 + Printed(f.hotp) ELSE 0
      [] line = "DISALLOW_REUSE"      -> IF f.disallow_reuse THEN 17 + 9 * Cardinality(f.blocked) ELSE 0
      [] line = "RATE_LIMIT"          -> IF f.attempts = 0 THEN 0
                                         ELSE 15 + Printed(f.attempts) + Printed(f.interval)
                                              + 11 * Len(f.stamps)
      [] line = "WINDOW_SIZE"         -> IF line \in f.lines THEN 15 + Printed(f.window) ELSE 0
      [] line = "TIME_SKEW"           -> IF line \in f.lines THEN 13 + Printed(f.skew) ELSE 0
      [] line = "RESETTING_TIME_SKEW" -> IF line \in f.lines THEN 23 + ResettingSize(f.resetting) ELSE 0

FileSize(f) ==
    LineSize(f, "SCRATCH") + LineSize(f, "TOTP_AUTH") + LineSize(f, "HOTP_COUNTER")
    + LineSize(f, "DISALLOW_REUSE") + LineSize(f, "RATE_LIMIT") + LineSize(f, "WINDOW_SIZE")
    + LineSize(f, "TIME_SKEW") + LineSize(f, "RESETTING_TIME_SKEW")
-------------------------------------------------------------------------------
get_timestamp(now) == now \div STEP

\* 0 is the error return: the option holds something outside 1..100.
window_size(f) == IF f.window \in 1..100 THEN f.window ELSE 0

Sorted(s) == \A i, j \in DOMAIN s : i <= j => s[i] <= s[j]

\* How many entries of the sorted list s are at most x.
UpTo(s, x) == Cardinality({i \in DOMAIN s : s[i] <= x})

\* The list is kept sorted by this function itself, so sorting it with `now`
\* added is an insertion behind the entries that are not later.
Insert(s, x) == SubSeq(s, 1, UpTo(s, x)) \o <<x>> \o SubSeq(s, UpTo(s, x) + 1, Len(s))

\* Mutant: one attempt too many.
rate_limit_off_by_one(f, now) ==
    LET all   == Insert(f.stamps, now)
        stop  == UpTo(all, now)
        start == UpTo(all, now - f.interval - 1) + 1
    IN  IF f.attempts = 0 THEN [rc |-> 0, buf |-> f, upd |-> FALSE]
        ELSE [rc |-> IF stop - start > f.attempts THEN -1 ELSE 0,
              buf |-> [f EXCEPT !.stamps = SubSeq(all, start, stop)], upd |-> TRUE]

\* The attempt is recorded whether or not it exceeds the limit.
rate_limit(f, now) ==
    LET all   == Insert(f.stamps, now)
        stop  == UpTo(all, now)
        start == UpTo(all, now - f.interval - 1) + 1
        exceeded == stop - start + 1 > f.attempts
        list  == SubSeq(all, IF exceeded THEN stop - f.attempts + 1 ELSE start, stop)
    IN  IF f.attempts = 0 THEN [rc |-> 0, buf |-> f, upd |-> FALSE]
        ELSE IF f.attempts > 100 \/ f.interval \notin 1..3600
        THEN [rc |-> -1, buf |-> f, upd |-> FALSE]
        ELSE [rc |-> IF exceeded THEN -1 ELSE 0,
              buf |-> [f EXCEPT !.stamps = list],
              upd |-> TRUE]

\* Mutant: *updated is not set.
check_scratch_codes_unmarked(f, code) ==
    IF code \in f.scratch
    THEN [Accepted([f EXCEPT !.scratch = @ \ {code}], Cred(f, "scratch", code)) EXCEPT !.upd = FALSE]
    ELSE Miss(f)

check_scratch_codes(f, code) ==
    IF code \in f.scratch
    THEN Accepted([f EXCEPT !.scratch = @ \ {code}], Cred(f, "scratch", code))
    ELSE Miss(f)

\* Mutant: steps are forgotten one too early.
invalidate_timebased_code_early(f, tm) ==
    LET w    == window_size(f)
        kept == {b \in f.blocked : b - tm < w - 1 /\ tm - b < w - 1}
    IN  IF tm \in f.blocked THEN Error(f)
        ELSE Accepted([f EXCEPT !.blocked = kept \cup {tm}], Cred(f, "totp", tm))

\* A blocked step that no code of the present window can name is forgotten.
invalidate_timebased_code(f, tm) ==
    LET w    == window_size(f)
        kept == {b \in f.blocked : b - tm < w /\ tm - b < w}
        cred == Cred(f, "totp", tm)
    IN  IF ~f.disallow_reuse THEN [Accepted(f, cred) EXCEPT !.upd = FALSE]
        ELSE IF w = 0 \/ tm \in f.blocked THEN Error(f)
        ELSE Accepted([f EXCEPT !.blocked = kept \cup {tm}], cred)
-------------------------------------------------------------------------------
\* Mutant: without the cast to int the division is unsigned, here of 16 bits.
Quotient_unsigned(a, b) == IF a < 0 THEN (2^16 + a) \div b ELSE a \div b

\* C division rounds towards zero.
Quotient(a, b) == IF a < 0 THEN -((-a) \div b) ELSE a \div b

\* The last HISTORY attempts, this one included.
Recent(h, e) == IF Len(h) = HISTORY THEN Append(Tail(h), e) ELSE Append(h, e)

\* Three steps in quick succession, all with nearly the skew of the last one.
Consistent(h, skew) ==
    /\ Len(h) = HISTORY
    /\ \A i \in 2..HISTORY : /\ h[i].tm > h[i-1].tm
                             /\ h[i].tm <= h[i-1].tm + 2
                             /\ h[i-1].skew - skew \in -1..1

check_time_skew(f, skew, tm) ==
    LET last == f.resetting[Len(f.resetting)]
        h    == Recent(f.resetting, [tm |-> tm, skew |-> skew])
        avg  == Quotient(h[1].skew + h[2].skew + h[3].skew, HISTORY)
        taught  == [f EXCEPT !.skew = avg, !.resetting = <<>>,
                             !.lines = @ \cup {"TIME_SKEW", "RESETTING_TIME_SKEW"}]
        waiting == [f EXCEPT !.resetting = h,
                             !.lines = @ \cup {"RESETTING_TIME_SKEW"}]
    IN  IF f.resetting # <<>> /\ tm + skew = last.tm + last.skew THEN Error(f)
        ELSE IF Consistent(h, skew)
        THEN Accepted(taught, Cred(f, "totp", tm + skew))
        ELSE [Error(waiting) EXCEPT !.upd = TRUE]

\* Offsets at which the code of a step near tm equals the code entered.
Matching(f, code, tm, offsets) == {i \in offsets : compute_code(f.secret, tm + i) = code}
Earliest(S) == CHOOSE i \in S : \A j \in S : i <= j
\* The search tries 0, -1, 1, -2, 2, ...
Nearest(S) == CHOOSE i \in S : \A j \in S : Abs(i) < Abs(j) \/ (Abs(i) = Abs(j) /\ i <= j)

check_timebased_code(f, code, now, noskewadj) ==
    LET tm   == get_timestamp(now)
        w    == window_size(f)
        hits == Matching(f, code, tm + f.skew, -((w - 1) \div 2) .. (w \div 2))
        far  == Matching(f, code, tm, -(SKEW_SEARCH - 1) .. SKEW_SEARCH - 1)
    IN  IF ~f.totp \/ code \notin SixDigit THEN Miss(f)
        ELSE IF w = 0 THEN Error(f)
        ELSE IF hits # {} THEN invalidate_timebased_code(f, tm + f.skew + Earliest(hits))
        ELSE IF ~noskewadj /\ far # {} THEN check_time_skew(f, Nearest(far), tm)
        ELSE Miss(f)

\* Mutants: the advanced counter is not marked for saving; a miss is.
check_counterbased_code_unmarked(f, code) ==
    LET hits == Matching(f, code, f.hotp, 0 .. window_size(f) - 1)
        used == f.hotp + Earliest(hits)
    IN  IF f.hotp < 1 \/ code \notin SixDigit \/ hits = {} THEN Miss(f)
        ELSE [Accepted([f EXCEPT !.hotp = used + 1], Cred(f, "hotp", used)) EXCEPT !.upd = FALSE]
check_counterbased_code_marks_miss(f, code) ==
    [Miss(f) EXCEPT !.adv = TRUE, !.upd = TRUE]

check_counterbased_code(f, code) ==
    LET w    == window_size(f)
        hits == Matching(f, code, f.hotp, 0 .. w - 1)
        used == f.hotp + Earliest(hits)
    IN  IF f.hotp < 1 \/ code \notin SixDigit THEN Miss(f)
        ELSE IF w = 0 THEN Error(f)
        ELSE IF hits # {} THEN Accepted([f EXCEPT !.hotp = used + 1], Cred(f, "hotp", used))
        ELSE [Miss(f) EXCEPT !.adv = TRUE]

\* After a failed attempt with an HOTP account.
advance_counter(f) == [f EXCEPT !.hotp = @ + 1]

\* One pass of the loop in google_authenticator(): scratch codes first, then
\* the kind of one-time code this account uses.
check_code(f, code, now, noskewadj) ==
    LET scratch == check_scratch_codes(f, code)
    IN  IF scratch.rc # 1 THEN scratch
        ELSE IF f.hotp > 0 THEN check_counterbased_code(f, code)
        ELSE check_timebased_code(f, code, now, noskewadj)
-------------------------------------------------------------------------------
\* How a buffer and the credential it was accepted with (l, the result of a check
\* or the local variables of a login) differ from the file f they came from.
Consumes(f, l) ==
    /\ l.buf.scratch = IF l.cred.kind = "scratch" THEN f.scratch \ {l.cred.val} ELSE f.scratch
    /\ l.cred.kind = "scratch" => l.cred.val \in f.scratch
    /\ IF l.cred.kind = "hotp"
       THEN l.cred.val \in Nat /\ l.cred.val >= f.hotp /\ l.buf.hotp = l.cred.val + 1
       ELSE l.buf.hotp >= f.hotp

\* The settings of an account, which no check changes: a line may be added but not removed.
Keeps(f, g) ==
    /\ g.secret = f.secret /\ g.totp = f.totp /\ g.window = f.window
    /\ g.disallow_reuse = f.disallow_reuse
    /\ g.attempts = f.attempts /\ g.interval = f.interval
    /\ f.lines \subseteq g.lines

\* The steps whose codes are accepted in step T.
Window(f, T) ==
    T + f.skew - ((window_size(f) - 1) \div 2) .. T + f.skew + window_size(f) \div 2

\* With DISALLOW_REUSE: l was accepted in step T with the code of a step that f did
\* not list and the buffer does, and dropped only steps a window away from it.
Spends(f, l, T) ==
    LET w == window_size(f)
        v == l.cred.val
    IN  /\ w # 0
        /\ v \in Window(f, T) /\ v \notin f.blocked /\ v \in l.buf.blocked
        /\ \A b \in f.blocked \ l.buf.blocked : b <= v - w \/ b >= v + w
===============================================================================
