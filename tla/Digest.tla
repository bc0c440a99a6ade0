-------------------------------- MODULE Digest --------------------------------
(****************************************************************************)
(* The digests: SHA-1 of google-authenticator/libpam/sha1.c and SHA-224 to   *)
(* SHA-512 of hmac/hmac/sha2.c, which take a message in pieces: what of it   *)
(* is buffered, when a block is compressed, and how the last one is padded.  *)
(*                                                                          *)
(* The compression is free: the chaining value is its initial value and the  *)
(* blocks that went into it, so two digests are equal only when the same     *)
(* blocks were compressed in the same order.  A byte is a cell; the low and   *)
(* the high word of a length in bits take one cell each, and words have       *)
(* LenBits bits (32 in the code).                                            *)
(****************************************************************************)
EXTENDS Integers, Sequences

CONSTANTS
    BLOCK_SIZE,    \* for each algorithm, a power of two
    LENGTH_SIZE,   \* the cells of the length at the end of the padding: 8 bytes or 16
    DIGEST_SIZE,
    LenBits,
    MaxMessage,    \* bound: cells of a message
    Piece          \* bound: sizes of the pieces it is given in

Sha2 == {"sha224", "sha256", "sha384", "sha512"}
Alg == Sha2 \cup {"sha1"}

ASSUME DigestAssumption ==
    /\ {BLOCK_SIZE, LENGTH_SIZE, DIGEST_SIZE} \subseteq [Alg -> Nat \ {0}]
    /\ \A a \in Alg : LENGTH_SIZE[a] \in 2..BLOCK_SIZE[a] - 1 /\ DIGEST_SIZE[a] <= BLOCK_SIZE[a]
    /\ \A a \in Alg : 2^(LenBits - 3) % BLOCK_SIZE[a] = 0
    /\ MaxMessage \in Nat /\ Piece \subseteq Nat

VARIABLES
    sctx,     \* the context
    taken,    \* history: how much of the message has been given to it
    digest    \* what _final() returned, or <<>>

digestVars == <<sctx, taken, digest>>

\* A cell: its value, for a cell of a digest the digest it is of, and what it was xored with.
Cell(v) == [v |-> v, of |-> <<>>, x |-> 0]
Zero == Cell(0)
Pad == Cell(128)
Zeros(n) == [i \in 1..n |-> Zero]
\* The cells of a message differ, so that one lost, repeated or moved shows.
Message(from, n) == [i \in 1..n |-> Cell(200 + from + i)]

memcpy(buf, at, s) == [i \in DOMAIN buf |-> IF i \in at + 1..at + Len(s) THEN s[i - at] ELSE buf[i]]

\* nb blocks of s are compressed.
Compressed(c, s, nb) ==
    LET B == BLOCK_SIZE[c.alg]
    IN  [c EXCEPT !.h = @ \o [i \in 1..nb |-> SubSeq(s, (i - 1) * B + 1, i * B)]]
sha1_transform(c, s, nb) == Compressed(c, s, nb)
sha256_transf(c, s, nb) == Compressed(c, s, nb)
sha512_transf(c, s, nb) == Compressed(c, s, nb)

\* The chaining value is written out.
DigestOf(c) == [i \in 1..DIGEST_SIZE[c.alg] |-> [v |-> i, of |-> <<c.alg, c.h>>, x |-> 0]]

\* The block is not cleared: what it holds is not initialised.
NewBlock(n) == [i \in 1..n |-> Cell(255)]
-------------------------------------------------------------------------------
(* SHA-2.                                                                    *)

transf(c, s, nb) == IF c.alg \in {"sha384", "sha512"} THEN sha512_transf(c, s, nb) ELSE sha256_transf(c, s, nb)

sha2_init(a) ==
    [alg |-> a, h |-> <<>>, block |-> NewBlock(2 * BLOCK_SIZE[a]), len |-> 0, tot_len |-> 0]

sha2_update(c, m) ==
    LET B == BLOCK_SIZE[c.alg]
        tmp_len == B - c.len
        rem_len == IF Len(m) < tmp_len THEN Len(m) ELSE tmp_len
        filled == [c EXCEPT !.block = memcpy(@, c.len, SubSeq(m, 1, rem_len))]
        shifted == SubSeq(m, rem_len + 1, Len(m))
        block_nb == Len(shifted) \div B
    IN  IF c.len + Len(m) < B THEN [filled EXCEPT !.len = @ + Len(m)]
        ELSE [transf(transf(filled, filled.block, 1), shifted, block_nb) EXCEPT
                 !.block = memcpy(@, 0, SubSeq(shifted, block_nb * B + 1, Len(shifted))),
                 !.len = Len(shifted) % B,
                 !.tot_len = @ + (block_nb + 1) * B]

\* Mutant: the room for the length is one byte short.
LastBlocks_short(c) == IF BLOCK_SIZE[c.alg] - LENGTH_SIZE[c.alg] < c.len THEN 2 ELSE 1
\* block_nb of _final(): BLOCK_SIZE - 9, or - 17, is the most that leaves room for the length.
LastBlocks(c) == IF BLOCK_SIZE[c.alg] - (LENGTH_SIZE[c.alg] + 1) < c.len THEN 2 ELSE 1

\* The context after _final(): only the low word of the length is written.
sha2_final(c) ==
    LET pm_len == LastBlocks(c) * BLOCK_SIZE[c.alg]
        len_b == ((c.tot_len + c.len) * 8) % 2^LenBits
        last == <<Pad>> \o Zeros(pm_len - c.len - 2) \o <<Cell(len_b)>>
        padded == [c EXCEPT !.block = memcpy(@, c.len, last)]
    IN  transf(padded, padded.block, LastBlocks(c))
-------------------------------------------------------------------------------
(* SHA-1.                                                                    *)

sha1_init ==
    [alg |-> "sha1", h |-> <<>>, data |-> NewBlock(BLOCK_SIZE["sha1"]), local |-> 0,
     count_lo |-> 0, count_hi |-> 0]

\* The length in bits, kept in two words.
Counted(c, n) ==
    LET clo == (c.count_lo + n * 8) % 2^LenBits
    IN  [c EXCEPT !.count_lo = clo,
                  !.count_hi = @ + (IF clo < c.count_lo THEN 1 ELSE 0) + (n * 8) \div 2^LenBits]

\* The loop over whole blocks, and the rest.
sha1_blocks(c, m) ==
    LET B == BLOCK_SIZE["sha1"]
        nb == Len(m) \div B
        rest == SubSeq(m, nb * B + 1, Len(m))
        last == IF nb = 0 THEN c.data ELSE SubSeq(m, (nb - 1) * B + 1, nb * B)
    IN  [sha1_transform(c, m, nb) EXCEPT !.data = memcpy(last, 0, rest), !.local = Len(rest)]

sha1_update(c, m) ==
    LET B == BLOCK_SIZE["sha1"]
        i == IF B - c.local > Len(m) THEN Len(m) ELSE B - c.local
        counted == Counted(c, Len(m))
        filled == [counted EXCEPT !.data = memcpy(@, c.local, SubSeq(m, 1, i)), !.local = @ + i]
    IN  IF c.local = 0 THEN sha1_blocks(counted, m)
        ELSE IF filled.local # B THEN filled
        ELSE sha1_blocks(sha1_transform(filled, filled.data, 1), SubSeq(m, i + 1, Len(m)))

\* With sha1_transform_and_copy().
sha1_final(c) ==
    LET B == BLOCK_SIZE["sha1"]
        count == (c.count_lo \div 8) % B
        padded == memcpy(c.data, count, <<Pad>>)
        filled == memcpy(padded, count + 1, Zeros(B - (count + 1)))
        full == [c EXCEPT !.data = filled]
        over == count + 1 > B - LENGTH_SIZE["sha1"]
        room == IF over THEN Zeros(B) ELSE filled
        last == memcpy(room, B - 2, <<Cell(c.count_hi), Cell(c.count_lo)>>)
    IN  sha1_transform(IF over THEN sha1_transform(full, filled, 1) ELSE c, last, 1)
-------------------------------------------------------------------------------
(* The functions of each algorithm, called for one context.                  *)

Start(c) == sctx' = c /\ taken' = 0 /\ digest' = <<>>
\* A piece of the message: none is given after _final().
Takes(a, n) == /\ sctx.alg = a /\ digest = <<>> /\ taken + n <= MaxMessage
               /\ taken' = taken + n /\ UNCHANGED digest
Finishes(a, c) == sctx.alg = a /\ digest = <<>> /\ sctx' = c /\ digest' = DigestOf(c) /\ UNCHANGED taken

sha224_init == Start(sha2_init("sha224"))
sha256_init == Start(sha2_init("sha256"))
sha384_init == Start(sha2_init("sha384"))
sha512_init == Start(sha2_init("sha512"))

sha224_update(n) == Takes("sha224", n) /\ sctx' = sha2_update(sctx, Message(taken, n))
sha256_update(n) == Takes("sha256", n) /\ sctx' = sha2_update(sctx, Message(taken, n))
sha384_update(n) == Takes("sha384", n) /\ sctx' = sha2_update(sctx, Message(taken, n))
sha512_update(n) == Takes("sha512", n) /\ sctx' = sha2_update(sctx, Message(taken, n))

sha224_final == Finishes("sha224", sha2_final(sctx))
sha256_final == Finishes("sha256", sha2_final(sctx))
sha384_final == Finishes("sha384", sha2_final(sctx))
sha512_final == Finishes("sha512", sha2_final(sctx))

DigestInit ==
    /\ sctx \in {sha1_init} \cup {sha2_init(a) : a \in Sha2}
    /\ taken = 0 /\ digest = <<>>

\* A finished context is used again only after _init().
DigestNext ==
    \/ /\ digest # <<>>
       /\ \/ sctx.alg = "sha224" /\ sha224_init
          \/ sctx.alg = "sha256" /\ sha256_init
          \/ sctx.alg = "sha384" /\ sha384_init
          \/ sctx.alg = "sha512" /\ sha512_init
          \/ sctx.alg = "sha1" /\ Start(sha1_init)
    \/ \E n \in Piece : \/ sha224_update(n) \/ sha256_update(n) \/ sha384_update(n) \/ sha512_update(n)
                        \/ Takes("sha1", n) /\ sctx' = sha1_update(sctx, Message(taken, n))
    \/ sha224_final \/ sha256_final \/ sha384_final \/ sha512_final
    \/ Finishes("sha1", sha1_final(sctx))
-------------------------------------------------------------------------------
(* Properties.                                                               *)

\* FIPS 180: a one bit, as few zeros as make whole blocks of it, the length in bits.
Padded(a, m) ==
    LET B == BLOCK_SIZE[a]
        L == LENGTH_SIZE[a]
        fill == CHOOSE k \in 0..B - 1 : (Len(m) + 1 + k + L) % B = 0
        bits == 8 * Len(m)
    IN  m \o <<Pad>> \o Zeros(fill + L - 2) \o <<Cell(bits \div 2^LenBits), Cell(bits % 2^LenBits)>>

\* The digest of a whole message.
Sha(a, m) == LET p == Padded(a, m) IN DigestOf(Compressed([alg |-> a, h |-> <<>>], p, Len(p) \div BLOCK_SIZE[a]))

\* SHA-2 keeps the length of a message in one word.
Countable(a, n) == a = "sha1" \/ 8 * n < 2^LenBits

\* The digest of a message does not depend on the pieces it is given in, nor on what
\* the buffer held before, and is that of the padded message as the standard
\* defines it, for every length up to the limit of the word sha2.c counts in (512 MB)
\* and, for SHA-1, past the carry from the low into the high word.
DigestsMessage ==
    (digest # <<>> /\ Countable(sctx.alg, taken)) => digest = Sha(sctx.alg, Message(0, taken))
===============================================================================
