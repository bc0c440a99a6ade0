--------------------------------- MODULE Hmac ---------------------------------
(****************************************************************************)
(* HMAC: the functions of hmac/hmac/hmac_sha2.c, incremental, with contexts  *)
(* kept to begin again under the same key, or in one call, and hmac_sha1() of *)
(* google-authenticator/libpam/hmac.c, from which the one-time codes come.   *)
(****************************************************************************)
EXTENDS Digest

CONSTANTS
    MaxKey,     \* bound: cells of a key
    MaxText     \* bound: cells of a message

ASSUME HmacAssumption == MaxKey \in Nat /\ MaxText \in Nat

VARIABLES
    hctx,      \* the contexts, once a key is set: inside, outside and the two for reinit
    key, fed,  \* history: the key, how much of the message has been given
    mac        \* what _final() returned, or <<>>

hmacVars == <<hctx, key, fed, mac>>

NoKey == [alg |-> "none"]
HmacInit == hctx = NoKey /\ key = <<>> /\ fed = 0 /\ mac = <<>>

Secret(n) == [i \in 1..n |-> Cell(300 + i)]

\* Zero xor a constant is the constant, with which the block is filled behind the key.
Xor(s, x) == [i \in DOMAIN s |-> IF s[i] = Zero THEN Cell(x) ELSE [s[i] EXCEPT !.x = x]]
Fill(n, x) == [i \in 1..n |-> Cell(x)]

sha224(m) == DigestOf(sha2_final(sha2_update(sha2_init("sha224"), m)))
sha256(m) == DigestOf(sha2_final(sha2_update(sha2_init("sha256"), m)))
sha384(m) == DigestOf(sha2_final(sha2_update(sha2_init("sha384"), m)))
sha512(m) == DigestOf(sha2_final(sha2_update(sha2_init("sha512"), m)))

\* The key, or its digest when it does not fit in a block.
KeyUsed(a, k, hashed) == IF Len(k) > BLOCK_SIZE[a] THEN hashed ELSE k
Block(a, k, x) == Xor(k, x) \o Fill(BLOCK_SIZE[a] - Len(k), x)

\* _init(): the contexts after the first block, and copies of them.
Contexts(a, k, hashed) ==
    LET used == KeyUsed(a, k, hashed)
        in == sha2_update(sha2_init(a), Block(a, used, 54))
        out == sha2_update(sha2_init(a), Block(a, used, 92))
    IN  [alg |-> a, in |-> in, out |-> out, in_reinit |-> in, out_reinit |-> out]
Keyed(a, k, hashed) == hctx' = Contexts(a, k, hashed) /\ key' = k /\ fed' = 0 /\ mac' = <<>>
HasContext(a) == hctx.alg = a /\ "in" \in DOMAIN hctx

\* Mutant: only the inner context is set back.
Again_inside(a) ==
    /\ HasContext(a) /\ mac # <<>>
    /\ hctx' = [hctx EXCEPT !.in = hctx.in_reinit]
    /\ fed' = 0 /\ mac' = <<>> /\ UNCHANGED key
\* _reinit().
Again(a) ==
    /\ HasContext(a) /\ mac # <<>>
    /\ hctx' = [hctx EXCEPT !.in = hctx.in_reinit, !.out = hctx.out_reinit]
    /\ fed' = 0 /\ mac' = <<>> /\ UNCHANGED key

\* _update(): a piece of the message; none is given after _final().
Given(a, n) ==
    /\ hctx.alg = a /\ mac = <<>> /\ fed + n <= MaxText
    /\ hctx' = [hctx EXCEPT !.in = sha2_update(@, Message(fed, n))]
    /\ fed' = fed + n /\ UNCHANGED <<key, mac>>

\* _final(), for a mac_size of at most the digest's.
Final(a, mac_size) ==
    /\ hctx.alg = a /\ mac = <<>> /\ mac_size \in 1..DIGEST_SIZE[a]
    /\ LET in == sha2_final(hctx.in)
           out == sha2_final(sha2_update(hctx.out, DigestOf(in)))
       IN  /\ mac' = SubSeq(DigestOf(out), 1, mac_size)
           /\ hctx' = [hctx EXCEPT !.in = in, !.out = out]
    /\ UNCHANGED <<key, fed>>

\* The functions that compute a code in one call; the contexts are local to them.
AtOnce(a, k, hashed, n, mac_size) ==
    /\ mac_size \in 1..DIGEST_SIZE[a]
    /\ LET ctx == Contexts(a, k, hashed)
           in == sha2_final(sha2_update(ctx.in, Message(0, n)))
           out == sha2_final(sha2_update(ctx.out, DigestOf(in)))
       IN  mac' = SubSeq(DigestOf(out), 1, mac_size)
    /\ hctx' = [alg |-> a] /\ key' = k /\ fed' = n

hmac_sha224_init(k) == Keyed("sha224", k, sha224(k))
hmac_sha256_init(k) == Keyed("sha256", k, sha256(k))
hmac_sha384_init(k) == Keyed("sha384", k, sha384(k))
hmac_sha512_init(k) == Keyed("sha512", k, sha512(k))
hmac_sha224_reinit == Again("sha224")
hmac_sha256_reinit == Again("sha256")
hmac_sha384_reinit == Again("sha384")
hmac_sha512_reinit == Again("sha512")
hmac_sha224_update(n) == Given("sha224", n)
hmac_sha256_update(n) == Given("sha256", n)
hmac_sha384_update(n) == Given("sha384", n)
hmac_sha512_update(n) == Given("sha512", n)
hmac_sha224_final(m) == Final("sha224", m)
hmac_sha256_final(m) == Final("sha256", m)
hmac_sha384_final(m) == Final("sha384", m)
hmac_sha512_final(m) == Final("sha512", m)

hmac_sha224(k, n, m) == AtOnce("sha224", k, sha224(k), n, m)
hmac_sha256(k, n, m) == AtOnce("sha256", k, sha256(k), n, m)
hmac_sha384(k, n, m) == AtOnce("sha384", k, sha384(k), n, m)
hmac_sha512(k, n, m) == AtOnce("sha512", k, sha512(k), n, m)

\* hmac_sha1(): the whole computation; a result longer than the digest ends in zeros.
hmac_sha1(k, n, resultLength) ==
    LET used == KeyUsed("sha1", k, DigestOf(sha1_final(sha1_update(sha1_init, k))))
        first(x) == sha1_update(sha1_init, Block("sha1", used, x))
        sha == DigestOf(sha1_final(sha1_update(first(54), Message(0, n))))
        result == DigestOf(sha1_final(sha1_update(first(92), sha)))
    IN  /\ mac' = [i \in 1..resultLength |-> IF i <= DIGEST_SIZE["sha1"] THEN result[i] ELSE Zero]
        /\ hctx' = [alg |-> "sha1"] /\ key' = k /\ fed' = n

\* Calls that keep no context do not depend on what was called before.
HmacNext ==
    \/ /\ hctx = NoKey
       /\ \E k \in {Secret(n) : n \in 0..MaxKey}, n \in 0..MaxText :
             \/ \E m \in 1..MaxKey : \/ hmac_sha224(k, n, m) \/ hmac_sha256(k, n, m)
                                     \/ hmac_sha384(k, n, m) \/ hmac_sha512(k, n, m)
             \/ \E r \in 1..DIGEST_SIZE["sha1"] + 1 : hmac_sha1(k, n, r)
    \/ /\ hctx = NoKey \/ mac # <<>>
       /\ \E k \in {Secret(n) : n \in 0..MaxKey} :
             hmac_sha224_init(k) \/ hmac_sha256_init(k) \/ hmac_sha384_init(k) \/ hmac_sha512_init(k)
    \/ hmac_sha224_reinit \/ hmac_sha256_reinit \/ hmac_sha384_reinit \/ hmac_sha512_reinit
    \/ \E n \in 0..MaxText : \/ hmac_sha224_update(n) \/ hmac_sha256_update(n)
                             \/ hmac_sha384_update(n) \/ hmac_sha512_update(n)
    \/ \E m \in 1..MaxKey : \/ hmac_sha224_final(m) \/ hmac_sha256_final(m)
                            \/ hmac_sha384_final(m) \/ hmac_sha512_final(m)
-------------------------------------------------------------------------------
(* Properties.                                                               *)

\* RFC 2104.
HMAC(a, k, m) ==
    LET B == BLOCK_SIZE[a]
        used == IF Len(k) <= B THEN k ELSE Sha(a, k)
        padded == used \o Zeros(B - Len(used))
    IN  Sha(a, Xor(padded, 92) \o Sha(a, Xor(padded, 54) \o m))

\* The code of a message under a key is that of RFC 2104, cut to the size asked for,
\* in whatever pieces the message is given, for keys shorter than a block, as long
\* and longer, and for every message computed after _reinit() as for the first.
MacsMessage ==
    mac # <<>> =>
        LET m == HMAC(hctx.alg, key, Message(0, fed))
        IN  \A i \in DOMAIN mac : mac[i] = IF i <= Len(m) THEN m[i] ELSE Zero

\* Digests and authentication codes are those of their standards, in whatever pieces a
\* message is given to whichever function.
DigestsAndMacs == DigestsMessage /\ MacsMessage
===============================================================================
