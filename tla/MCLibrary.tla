------------------------------- MODULE MCLibrary -------------------------------
(* The data structures, the searches in texts, the digests and the code for       *)
(* secrets, side by side: they share no state.  Every behaviour is about one of   *)
(* them; the others stay in an initial state.                                     *)
EXTENDS RedBlackTree, SfgHash, LinkedList, HashList, AddrHash, Heap,
        Kmp, AcBm, MultiKeyMatch, Hmac, Hotp, Base32

VARIABLE part
-------------------------------------------------------------------------------
(* Data structures.                                                              *)

\* Three keys in the first row, none in the second.
MCHash == [k \in Key |-> IF k = "d" THEN 2 ELSE 0]

MCAddrKey == [src : {1}, src_port : {1}, dst : {1, 2}, dst_port : {0}, protocol : {6, 17}]
-------------------------------------------------------------------------------
(* Texts, over two letters, small and, for the search that folds case, capital.  *)

Words(letters, from, to) == UNION {[1..n -> letters] : n \in from..to}
Ab == {97, 98}

MCKmpPattern == Words(Ab, 1, 4)
MCKmpText == Words(Ab, 6, 6)

\* A list of some strings with their case_sen flags.
Each(strings, flags) == [i \in DOMAIN strings |-> [case_sen |-> flags[i], data |-> strings[i]]]
Flags == {<<TRUE, TRUE>>, <<TRUE, FALSE>>, <<FALSE, TRUE>>, <<FALSE, FALSE>>}
MCLists ==
    {Each(<<p>>, <<TRUE>>) : p \in Words(Ab, 1, 3)}
    \cup {Each(<<p, r>>, <<TRUE, TRUE>>) : p \in Words(Ab, 1, 3), r \in Words(Ab, 3, 3)}
    \cup {Each(<<p, r>>, f) : f \in Flags, p \in Words({97, 66}, 2, 2), r \in Words({65, 98}, 1, 2)}
    \cup {Each(<<p, r>>, <<TRUE, FALSE>>) : p \in Words({97, 65}, 1, 2), r \in Words({65, 97}, 1, 2)}
    \cup {Each(<<<<65>>, <<65, 66>>>>, <<TRUE, TRUE>>)}
MCTexts == Words(Ab, 5, 5) \cup {<<97, 66, 65, 98, 98>>, <<>>}

MCKeyLists == {<<>>} \cup {<<p, r>> : p \in Words(Ab, 1, 3), r \in Words(Ab, 3, 4)}
MCSources == Words(Ab, 4, 4) \cup {<<97>>}
\* Nothing, or the end of a key.
MCInFront == {<<0, 0>>, <<97, 98>>}
-------------------------------------------------------------------------------
(* Digests and codes.                                                            *)

MCBLOCK_SIZE == [a \in Alg |-> IF a \in {"sha384", "sha512"} THEN 8 ELSE 4]
MCLENGTH_SIZE == [a \in Alg |-> IF a \in {"sha384", "sha512"} THEN 4 ELSE 2]
MCDIGEST_SIZE == [a \in Alg |->
    CASE a = "sha384" -> 3 [] a = "sha512" -> 4 [] a = "sha256" -> 2 [] OTHER -> 1]
MCPiece == 0..9

\* Bytes that rise, fall and wrap around; all zero; all ones.
MCHashes == {[n \in 0..19 |-> (m * n + c) % 256] : m \in {0, 1, 59, 201}, c \in {0, 9, 128, 255}}

\* One below and one above what base32_encode() takes.
MCBadLengths == {-1, 2^28 + 1}
MCSecrets == {<<>>} \cup Words({0, 90, 255}, 1, 2) \cup Words({16, 175}, 3, 3) \cup Words({129, 66}, 5, 6)
-------------------------------------------------------------------------------
(* Where there is a choice of inputs, one is fixed while a behaviour is about      *)
(* another part.                                                                  *)

HeapAny == IF part = "heap" THEN HeapInit
           ELSE big = TRUE /\ array = [n \in 0..heapSize - 1 |-> 1] /\ created = FALSE /\ seen = <<>>
KmpAny == IF part = "kmp" THEN KmpInit
          ELSE /\ P = <<97>> /\ T = <<>> /\ making = FALSE /\ kmp_next = <<0>>
               /\ upto = 0 /\ have = 0 /\ shifts = <<>>
AcAny == IF part = "acbm" THEN AcInit
         ELSE /\ ac = [list |-> Each(<<<<97>>>>, <<TRUE>>), adder |-> [n \in {<<>>} |-> 0],
                    label |-> [n \in {<<>>} |-> -2], bc |-> <<>>, gs |-> <<>>, text |-> <<>>, nmax |-> 0]
              /\ adding = 1 /\ base_index = 0 /\ tree_node = <<>> /\ matched = <<>> /\ returned = TRUE /\ left = {}
MkAny == IF part = "multikey" THEN MkInit
         ELSE /\ mk = [calls |-> <<>>, keys |-> <<>>, source |-> <<>>, front |-> <<>>]
              /\ at_pos = 0 /\ results = <<>> /\ matching = "returned"
DigestAny == IF part = "digest" THEN DigestInit ELSE sctx = sha1_init /\ taken = 0 /\ digest = <<>>
Base32Any == IF part = "base32" THEN Base32Init
             ELSE /\ data = <<>> /\ length = 0 /\ bufSize = 0 /\ phase = "encode" /\ text = <<>> /\ mem = <<>>
                  /\ written = 0 /\ style = "none" /\ next = 0 /\ buffer = 0 /\ bitsLeft = 0

Init ==
    /\ part \in {"rbtree", "sfghash", "list", "hlist", "hash",
                 "heap", "kmp", "acbm", "multikey", "digest", "hmac", "hotp", "base32"}
    /\ RBInit /\ SfgInit /\ ListInit /\ HListInit /\ HashInit /\ HeapAny
    /\ KmpAny /\ AcAny /\ MkAny
    /\ DigestAny /\ HmacInit /\ HotpInit /\ Base32Any

structures == <<rbVars, sfgVars, listVars, hlistVars, hashVars, heapVars>>
searches   == <<kmpVars, acVars, mkVars>>
digests    == <<digestVars, hmacVars, hotpVars, base32Vars>>

InTree(A)  == part = "rbtree" /\ A /\ UNCHANGED <<part, sfgVars, listVars, hlistVars, hashVars, heapVars, searches, digests>>
InHash(A)  == part = "sfghash" /\ A /\ UNCHANGED <<part, rbVars, listVars, hlistVars, hashVars, heapVars, searches, digests>>
InList(A)  == part = "list" /\ A /\ UNCHANGED <<part, rbVars, sfgVars, hlistVars, hashVars, heapVars, searches, digests>>
InHList(A) == part = "hlist" /\ A /\ UNCHANGED <<part, rbVars, sfgVars, listVars, hashVars, heapVars, searches, digests>>
InAddr(A)  == part = "hash" /\ A /\ UNCHANGED <<part, rbVars, sfgVars, listVars, hlistVars, heapVars, searches, digests>>
InHeap(A)  == part = "heap" /\ A /\ UNCHANGED <<part, rbVars, sfgVars, listVars, hlistVars, hashVars, searches, digests>>

InKmp(A)  == part = "kmp" /\ A /\ UNCHANGED <<part, acVars, mkVars, structures, digests>>
InAcBm(A) == part = "acbm" /\ A /\ UNCHANGED <<part, kmpVars, mkVars, structures, digests>>
InKeys(A) == part = "multikey" /\ A /\ UNCHANGED <<part, kmpVars, acVars, structures, digests>>

InDigest(A) == part = "digest" /\ A /\ UNCHANGED <<part, hmacVars, hotpVars, base32Vars, structures, searches>>
InHmac(A)   == part = "hmac" /\ A /\ UNCHANGED <<part, digestVars, hotpVars, base32Vars, structures, searches>>
InHotp(A)   == part = "hotp" /\ A /\ UNCHANGED <<part, digestVars, hmacVars, base32Vars, structures, searches>>
InBase32(A) == part = "base32" /\ A /\ UNCHANGED <<part, digestVars, hmacVars, hotpVars, structures, searches>>

Next ==
    \/ InTree(RBNext) \/ InHash(SfgNext) \/ InList(ListNext) \/ InHList(HListNext) \/ InAddr(HashNext)
    \/ InHeap(HeapNext)
    \/ InKmp(KmpNext) \/ InAcBm(AcNext) \/ InKeys(MkNext)
    \/ InDigest(DigestNext) \/ InHmac(HmacNext) \/ InHotp(HotpNext) \/ InBase32(Base32Next)

Spec == Init /\ [][Next]_<<part, structures, searches, digests>>
===============================================================================
