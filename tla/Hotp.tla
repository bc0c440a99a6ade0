--------------------------------- MODULE Hotp ---------------------------------
(****************************************************************************)
(* From the HMAC of a counter to the digits of a code: compute_code() of the  *)
(* PAM module, generateCode() of the setup command and generateOTP() of       *)
(* hotp/generate_hotp.c, which do it each in its own way.                     *)
(****************************************************************************)
EXTENDS Integers, Sequences
LOCAL INSTANCE FiniteSetsExt

CONSTANTS
    Hashes,       \* what hmac_sha1() may return
    KeyLengths,   \* lengths of a secret that is typed
    CodeDigits    \* lengths of a code

HashBytes == 20   \* SHA1_DIGEST_LENGTH
ASSUME HotpAssumption ==
    /\ \A h \in Hashes : h \in [0..HashBytes - 1 -> 0..255]
    /\ KeyLengths \subseteq Nat /\ CodeDigits \subseteq 1..8

VARIABLE otp   \* the last code: who computed it, from what, and what was returned

hotpVars == <<otp>>
NoCode == [by |-> "nobody"]
HotpInit == otp = NoCode
-------------------------------------------------------------------------------
DynamicOffset(hash) == hash[HashBytes - 1] % 16

\* The loop shifts four bytes into 32 bits, of which the first is then masked; here it
\* is masked before the last shift.
truncatedHash(hash) ==
    LET at == DynamicOffset(hash)
        three == 256 * (256 * hash[at] + hash[at + 1]) + hash[at + 2]
    IN  256 * (three % 2^23) + hash[at + 3]

compute_code(hash) == otp' = [by |-> "pam", hash |-> hash, code |-> truncatedHash(hash) % 1000000]

\* The buffer for the secret has room for 100 bytes; decoded is what base32_decode()
\* returns for the key.
generateCode(hash, keyLen, decoded) ==
    LET secretLen == ((keyLen + 7) \div 8) * 5
        refused == secretLen <= 0 \/ secretLen > 100 \/ decoded < 1
    IN  otp' = [by |-> "setup", hash |-> hash, keyLen |-> keyLen, decoded |-> decoded,
                code |-> IF refused THEN -1 ELSE truncatedHash(hash) % 1000000]
-------------------------------------------------------------------------------
doubleDigits == <<0, 2, 4, 6, 8, 1, 3, 5, 7, 9>>
Place(num, n) == (num \div 10^n) % 10

\* Mutant: the last digit is not doubled.
calcChecksum_from_second(num, digits) ==
    LET total == MapThenSumSet(LAMBDA n : IF n % 2 = 1 THEN doubleDigits[Place(num, n) + 1] ELSE Place(num, n),
                               0..digits - 1)
    IN  IF total % 10 > 0 THEN 10 - (total % 10) ELSE 0
\* The digits are doubled in turn, the last one first.
calcChecksum(num, digits) ==
    LET total == MapThenSumSet(LAMBDA n : IF n % 2 = 0 THEN doubleDigits[Place(num, n) + 1] ELSE Place(num, n),
                               0..digits - 1)
    IN  IF total % 10 > 0 THEN 10 - (total % 10) ELSE 0

\* The decimal digits of a number that is not negative.
myitoa(value) ==
    LET n == Min({w \in 1..9 : value < 10^w})
    IN  [j \in 1..n |-> Place(value, n - j)]

\* A code with fewer digits is filled up with zeros behind them.
generateOTP(hash, codeDigits, addChecksum, truncationOffset) ==
    LET digits == IF addChecksum THEN codeDigits + 1 ELSE codeDigits
        offset == IF truncationOffset \in 0..HashBytes - 5 THEN truncationOffset ELSE DynamicOffset(hash)
        binary == (hash[offset] % 128) * 2^24 + hash[offset + 1] * 2^16 + hash[offset + 2] * 2^8 + hash[offset + 3]
        short  == binary % 10^codeDigits
        number == IF addChecksum THEN 10 * short + calcChecksum(short, codeDigits) ELSE short
        text   == myitoa(number)
    IN  otp' = [by |-> "hotp", hash |-> hash, codeDigits |-> codeDigits, checksum |-> addChecksum,
                dynamic |-> offset # truncationOffset, code |-> number,
                result |-> text \o [n \in 1..digits - Len(text) |-> 0]]

\* The functions keep no state: a call does not depend on earlier ones.
HotpNext ==
    /\ otp = NoCode
    /\ \E hash \in Hashes :
       \/ compute_code(hash)
       \/ \E keyLen \in KeyLengths : \E decoded \in {-1, (5 * keyLen) \div 8} : generateCode(hash, keyLen, decoded)
       \/ \E codeDigits \in CodeDigits, addChecksum \in BOOLEAN, offset \in -1..HashBytes - 4 :
             generateOTP(hash, codeDigits, addChecksum, offset)

HotpSpec == HotpInit /\ [][HotpNext]_hotpVars
-------------------------------------------------------------------------------
(* Properties.                                                               *)

\* RFC 4226, 5.3: 31 bits, most significant first, from where the last four bits of
\* the hash point to, as a number of six digits.  (777216 is 2^24 modulo 10^6.)
Rfc4226(hash) ==
    LET o == hash[19] % 16
    IN  ((hash[o] % 128) * 777216 + hash[o + 1] * 65536 + hash[o + 2] * 256 + hash[o + 3]) % 1000000

\* A code with a digit that is wrong, or two neighbours exchanged that are not 0 and 9.
Typos(num, digits) ==
    ({num + (d - Place(num, n)) * 10^n : n \in 0..digits - 1, d \in 0..9}
     \cup {num + 9 * 10^n * (Place(num, n) - Place(num, n + 1)) :
              n \in {m \in 0..digits - 2 : {Place(num, m), Place(num, m + 1)} # {0, 9}}})
    \ {num}

\* The three programs compute the code of RFC 4226 from a hash; generateCode() refuses a
\* secret only if it has no whole byte or more than 160 characters.  The digits that generateOTP() returns are those of its code, except that a
\* code with leading zeros has them at its end; and "it detects any single mistyped
\* digit and any single transposition of adjacent digits" holds for every code with a
\* check digit, but for a 0 and a 9 that change places.
CodesAgree ==
    /\ otp.by = "pam" => otp.code = Rfc4226(otp.hash)
    /\ otp.by = "setup" =>
          otp.code = IF otp.keyLen <= 160 /\ otp.decoded > 0 THEN Rfc4226(otp.hash) ELSE -1
    /\ otp.by = "hotp" =>
          /\ otp.dynamic /\ otp.codeDigits = 6 /\ ~otp.checksum => otp.code = Rfc4226(otp.hash)
          /\ LET digits == Len(otp.result)
             IN  /\ digits = otp.codeDigits + (IF otp.checksum THEN 1 ELSE 0)
                 /\ otp.code >= 10^(digits - 1) =>
                       \A n \in 1..digits : otp.result[n] = Place(otp.code, digits - n)
                 /\ otp.checksum => \A t \in Typos(otp.code, digits) :
                                       t % 10 # calcChecksum(t \div 10, otp.codeDigits)
===============================================================================
