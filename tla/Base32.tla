-------------------------------- MODULE Base32 --------------------------------
(****************************************************************************)
(* libpam/base32.c: a secret is encoded for the state file and the user, who *)
(* may retype it in lower case, in groups or with digits that look like the  *)
(* letters; the file's line is decoded in place.  A character is its code.   *)
(****************************************************************************)
EXTENDS Integers, Sequences

CONSTANTS
    Secrets,      \* the byte sequences that are encoded
    BadLengths,   \* lengths that are refused
    BufSizes,     \* sizes of the buffer for the encoded text
    BufferBits    \* width of the accumulator; an int has 32

ASSUME Base32Assumption ==
    /\ BufferBits \in Nat /\ BufferBits >= 13 /\ BufSizes \subseteq Nat
    /\ \A l \in BadLengths : l \in Int /\ (l < 0 \/ l > 2^28)

VARIABLES
    data, length,      \* the secret, and its length as it is passed
    bufSize,           \* the size of the buffer for its text
    phase,             \* "encode", "type", "decode" or "done"
    buffer, bitsLeft,  \* the accumulator
    next,              \* how many bytes of data, or characters, have been read
    text,              \* the text
    mem,               \* the text as it has been retyped, and what replaces it
    written,             \* how many characters, or bytes, have been written
    style              \* how the text has been retyped

base32Vars == <<data, length, bufSize, phase, buffer, bitsLeft, next, text, mem, written, style>>

Alphabet == [n \in 0..31 |-> IF n < 26 THEN 65 + n ELSE 24 + n]
Accumulator(n) == n % 2^BufferBits

Refused == length < 0 \/ length > 2^28

Base32Init ==
    /\ data \in Secrets /\ bufSize \in BufSizes
    /\ length \in {Len(data)} \cup BadLengths
    /\ phase = "encode" /\ text = <<>> /\ mem = <<>> /\ written = 0 /\ style = "none"
    /\ IF Refused \/ data = <<>> THEN next = 0 /\ buffer = 0 /\ bitsLeft = 0
       ELSE next = 1 /\ buffer = data[1] /\ bitsLeft = 8

\* base32_encode() looks at the length before it reads or writes anything.
EncodeRefuses ==
    /\ phase = "encode" /\ Refused
    /\ written' = -1 /\ phase' = "done"
    /\ UNCHANGED <<data, length, bufSize, text, buffer, bitsLeft, next, mem, style>>

\* Bits that fill up the last character.
Padding == 5 - bitsLeft

\* One character of base32_encode().
base32_encode ==
    /\ phase = "encode" /\ ~Refused /\ written < bufSize /\ (bitsLeft > 0 \/ next < length)
    /\ LET byte == bitsLeft < 5 /\ next < length
           b    == CASE byte -> Accumulator(buffer * 256 + data[next + 1])
                     [] ~byte /\ bitsLeft < 5 -> Accumulator(buffer * 2^Padding)
                     [] OTHER -> buffer
           bits == CASE byte -> bitsLeft + 8
                     [] ~byte /\ bitsLeft < 5 -> bitsLeft + Padding
                     [] OTHER -> bitsLeft
       IN  /\ text' = Append(text, Alphabet[(b \div 2^(bits - 5)) % 32])
           /\ buffer' = b /\ bitsLeft' = bits - 5
           /\ next' = IF byte THEN next + 1 ELSE next
    /\ written' = written + 1
    /\ UNCHANGED <<data, length, bufSize, phase, mem, style>>

\* A character as the user types it, after a separator in the style "grouped".
Typed(ch, how) ==
    CASE how = "lower" /\ ch \in 65..90 -> <<ch + 32>>
      [] how = "digits" /\ ch = 79 -> <<48>>    \* O as 0
      [] how = "digits" /\ ch = 76 -> <<49>>    \* L as 1
      [] how = "digits" /\ ch = 66 -> <<56>>    \* B as 8
      [] how = "grouped" -> <<45, ch>>
      [] how = "wrong" /\ ch \in {65, 50} -> <<57>>
      [] OTHER -> <<ch>>
Retyped(t, how) ==
    LET f[n \in 0..Len(t)] == IF n = 0 THEN <<>> ELSE f[n - 1] \o Typed(t[n], how)
    IN  f[Len(t)]

\* The text is written and comes back; get_shared_secret() gives it a buffer of
\* its own length.
Retype ==
    /\ phase = "encode" /\ ~Refused /\ ~(written < bufSize /\ (bitsLeft > 0 \/ next < length))
    /\ \E how \in {"none", "lower", "digits", "grouped", "wrong"} :
          mem' = Retyped(text, how) /\ style' = how
    /\ phase' = "decode" /\ buffer' = 0 /\ bitsLeft' = 0 /\ next' = 0 /\ written' = 0
    /\ UNCHANGED <<data, length, bufSize, text>>

Separator == {32, 9, 13, 10, 45}
\* Mutant: 8 is left alone, as 2 to 7 are.
Mistyped_not_8(ch) == CASE ch = 48 -> 79 [] ch = 49 -> 76 [] OTHER -> ch
Mistyped(ch) == CASE ch = 48 -> 79 [] ch = 49 -> 76 [] ch = 56 -> 66 [] OTHER -> ch
\* The value of a digit, -1 if it is none.
Digit(ch) == CASE ch \in 65..90 \cup 97..122 -> (ch % 32) - 1
               [] ch \in 50..55 -> ch - 24
               [] OTHER -> -1

More == phase = "decode" /\ written < Len(mem) /\ next < Len(mem)

DecodeSkip ==
    /\ More /\ mem[next + 1] \in Separator
    /\ next' = next + 1
    /\ UNCHANGED <<data, length, bufSize, text, phase, buffer, bitsLeft, mem, written, style>>

DecodeInvalid ==
    /\ More /\ mem[next + 1] \notin Separator /\ Digit(Mistyped(mem[next + 1])) = -1
    /\ written' = -1 /\ phase' = "done"
    /\ UNCHANGED <<data, length, bufSize, text, buffer, bitsLeft, next, mem, style>>

\* One digit of base32_decode(); result and encoded are the same buffer.
DecodeDigit ==
    /\ More /\ mem[next + 1] \notin Separator /\ Digit(Mistyped(mem[next + 1])) # -1
    /\ LET b    == Accumulator(buffer * 32 + Digit(Mistyped(mem[next + 1])))
           bits == bitsLeft + 5
       IN  /\ buffer' = b
           /\ IF bits < 8 THEN bitsLeft' = bits /\ UNCHANGED <<mem, written>>
              ELSE /\ mem' = [mem EXCEPT ![written + 1] = (b \div 2^(bits - 8)) % 256]
                   /\ written' = written + 1
                   /\ bitsLeft' = bits - 8
    /\ next' = next + 1
    /\ UNCHANGED <<data, length, bufSize, text, phase, style>>

\* The terminating zero is written if there is room.
DecodeDone ==
    /\ phase = "decode" /\ ~More
    /\ phase' = "done"
    /\ mem' = IF written < Len(mem) THEN [mem EXCEPT ![written + 1] = 0] ELSE mem
    /\ UNCHANGED <<data, length, bufSize, text, buffer, bitsLeft, next, written, style>>

Base32Next == \/ EncodeRefuses \/ base32_encode \/ Retype \/ DecodeSkip \/ DecodeInvalid
              \/ DecodeDigit \/ DecodeDone
Base32Spec == Base32Init /\ [][Base32Next]_base32Vars
-------------------------------------------------------------------------------
\* However a secret is retyped, decoding it in place gives the secret back, all of
\* it if the buffer for its text had room to spare; nothing is decoded past the
\* character that is being read.  Only a text with a wrong character is refused, and a
\* length that is out of range, for which there is no text.
SecretComesBack ==
    /\ phase = "decode" => written <= next
    /\ phase = "done" /\ written = -1 => style = "wrong" \/ (Refused /\ text = <<>>)
    /\ phase = "done" /\ written # -1 =>
          /\ ~Refused
          /\ written <= Len(data) /\ SubSeq(mem, 1, written) = SubSeq(data, 1, written)
          /\ Len(text) < bufSize => written = Len(data)
===============================================================================
