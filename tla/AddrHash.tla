------------------------------- MODULE AddrHash -------------------------------
(****************************************************************************)
(* The hash table of hash/hash.c with the keys of hash/addr_hash.c: pairs of  *)
(* addresses and ports with a protocol.  A record is inserted in front of     *)
(* its bucket whether or not its key is there.  xmalloc() aborts rather than  *)
(* return NULL.                                                              *)
(*                                                                          *)
(* A bucket is the sequence of its nodes; only nodes that are in one are      *)
(* passed to hash_next_item().                                               *)
(****************************************************************************)
EXTENDS Integers, Sequences, SequencesExt, FiniteSetsExt

CONSTANTS
    AddrKey,           \* [src, src_port, dst, dst_port, protocol |-> numbers]
    Rec,
    hash_table_size,   \* 256 in the code, where 0xFF is one less
    MaxNodes           \* bound: nodes in the table

ASSUME AddrHashAssumption ==
    /\ hash_table_size \in Nat \ {0, 1} /\ MaxNodes \in Nat
    /\ AddrKey \subseteq [src : Nat, src_port : Nat, dst : Nat, dst_port : Nat, protocol : Nat]

VARIABLES
    htable,    \* the nodes of each bucket: id, key, rec
    cursor,    \* the node of the iteration, or 0
    visited,   \* history: the ids the iteration has returned, while the table is not changed
    inserted   \* history: the records of each key, the last first

hashVars == <<htable, cursor, visited, inserted>>

\* hash(): a shift binds tighter than &, so that every term is the low byte of an address.
hash(k) ==
    LET B == hash_table_size
        h == (4 * (k.src % B) + k.src_port) % (B - 1)
    IN  (h + 4 * (k.dst % B) + k.dst_port) % (B - 1)

NotIterating == visited' = <<>> /\ cursor' = 0

\* addr_hash_create() with hash_initialise().
HashInit ==
    /\ htable = [b \in 0..hash_table_size - 1 |-> <<>>]
    /\ cursor = 0 /\ visited = <<>>
    /\ inserted = [k \in AddrKey |-> <<>>]

TableNodes == UNION {Range(htable[b]) : b \in DOMAIN htable}
NewId == CHOOSE i \in 1..MaxNodes : i \notin {n.id : n \in TableNodes}

hash_insert(k, r) ==
    /\ \E i \in 1..MaxNodes : i \notin {n.id : n \in TableNodes}
    /\ htable' = [htable EXCEPT ![hash(k)] = <<[id |-> NewId, key |-> k, rec |-> r]>> \o @]
    /\ inserted' = [inserted EXCEPT ![k] = <<r>> \o @]
    /\ NotIterating

\* The place in its bucket of the first node with a key, or 0.
First(k) ==
    LET P == {i \in DOMAIN htable[hash(k)] : htable[hash(k)][i].key = k}
    IN  IF P = {} THEN 0 ELSE Min(P)

\* Mutant: the last node with the key is unlinked.
Unlinked_last(k) ==
    LET P == {i \in DOMAIN htable[hash(k)] : htable[hash(k)][i].key = k}
    IN  RemoveAt(htable[hash(k)], Max(P))
\* p0->next = p->next, or the first node of the bucket.
Unlinked(k) == RemoveAt(htable[hash(k)], First(k))

hash_delete(k) ==
    /\ First(k) # 0
    /\ htable' = [htable EXCEPT ![hash(k)] = Unlinked(k)]
    /\ inserted' = [inserted EXCEPT ![k] = Tail(@)]
    /\ NotIterating

hash_find(k) == IF First(k) = 0 THEN <<>> ELSE <<htable[hash(k)][First(k)].rec>>

\* The first node of the buckets from b on, or 0.
FirstIn(b) ==
    LET F == {c \in b..hash_table_size - 1 : htable[c] # <<>>}
    IN  IF F = {} THEN 0 ELSE htable[Min(F)][1].id

\* From NULL the first node; behind the last one NULL again.
NextItem ==
    IF cursor = 0 THEN FirstIn(0)
    ELSE LET n == CHOOSE n \in TableNodes : n.id = cursor
             s == htable[hash(n.key)]
             j == CHOOSE j \in DOMAIN s : s[j].id = cursor
         IN  IF j < Len(s) THEN s[j + 1].id ELSE FirstIn(hash(n.key) + 1)

hash_next_item ==
    /\ cursor' = NextItem
    /\ visited' = IF cursor' = 0 THEN <<>> ELSE Append(visited, cursor')
    /\ UNCHANGED <<htable, inserted>>

hash_delete_all ==
    /\ htable' = [b \in 0..hash_table_size - 1 |-> <<>>]
    /\ inserted' = [k \in AddrKey |-> <<>>]
    /\ NotIterating

HashNext ==
    \/ \E k \in AddrKey : hash_delete(k) \/ \E r \in Rec : hash_insert(k, r)
    \/ hash_next_item \/ hash_delete_all

HashSpec == HashInit /\ [][HashNext]_hashVars
-------------------------------------------------------------------------------
(* Properties.                                                               *)

\* A key finds the record inserted for it last, deleting it uncovers the one before,
\* whatever other keys share its bucket; and an iteration comes to every node of
\* the table, once, before it is at its end.
LastInserted ==
    /\ \A k \in AddrKey : hash_find(k) = IF inserted[k] = <<>> THEN <<>> ELSE <<Head(inserted[k])>>
    /\ IsInjective(visited)
    /\ (cursor # 0 /\ NextItem = 0) => Range(visited) = {n.id : n \in TableNodes}
===============================================================================
