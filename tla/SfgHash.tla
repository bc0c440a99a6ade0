------------------------------- MODULE SfgHash -------------------------------
(****************************************************************************)
(* The hash table of sfghash/sfghash.c: rows of doubly linked nodes, a       *)
(* cursor that is one node ahead of the node last returned, and splaying.    *)
(* A call that finds no memory changes nothing.  findfirst1() and findnext1() *)
(* are not in sfghash.h and have no caller.                                  *)
(*                                                                          *)
(* movetofront() breaks the row it is called for; tables are followed up to  *)
(* that point.  Until then a key has one node, which is named by it.         *)
(****************************************************************************)
EXTENDS Integers, FiniteSets, Sequences, Functions

CONSTANTS
    Key, Data,
    nrows,         \* number of rows
    hash_fcn       \* hash_fcn[k]: the row of a key

ASSUME SfgAssumption ==
    /\ {"null", "freed"} \cap Key = {}
    /\ nrows \in Nat \ {0}
    /\ hash_fcn \in [Key -> 0..nrows - 1]

NoNode == "null"
Freed == "freed"   \* a pointer to memory that has been freed

VARIABLES
    table,     \* the first node of each row
    nodes,     \* the nodes allocated: data, next, prev
    count, crow, cnode, splay,
    \* History.
    map,       \* what has been added and not removed
    splayed,   \* a node that was not the first of its row has been moved
    iter       \* the iteration, while nothing but returned nodes is removed: the keys
               \* it began with and those returned so far

sfgVars == <<table, nodes, count, crow, cnode, splay, map, splayed, iter>>

NoIter == [on |-> FALSE, from |-> {}, seen |-> <<>>]

SfgInit ==
    /\ table = [r \in 0..nrows - 1 |-> NoNode]
    /\ nodes = <<>> /\ count = 0 /\ crow = 0 /\ cnode = NoNode /\ splay = FALSE
    /\ map = <<>> /\ splayed = FALSE /\ iter = NoIter

\* The nodes of a list from node i on: Chain[i].
Chain[i \in Key \cup {NoNode}] ==
    IF i \notin DOMAIN nodes THEN <<>> ELSE <<i>> \o Chain[nodes[i].next]

\* The search that add, find and remove begin with.
Lookup(k) ==
    IF k \in Range(Chain[table[hash_fcn[k]]]) THEN k ELSE NoNode

sfghash_splaymode(n) ==
    /\ splay' = n
    /\ UNCHANGED <<table, nodes, count, crow, cnode, map, splayed, iter>>

\* SFGHASH_INTABLE: the cursor is set to the node.
AddPresent(k) ==
    /\ Lookup(k) # NoNode
    /\ cnode' = Lookup(k)
    /\ iter' = NoIter
    /\ UNCHANGED <<table, nodes, count, crow, splay, map, splayed>>

\* A new node becomes the first of its row.
AddNew(k, d) ==
    /\ Lookup(k) = NoNode
    /\ LET r == hash_fcn[k]
           h == table[r]
           n == [data |-> d, next |-> h, prev |-> NoNode]
       IN  /\ nodes' = [j \in DOMAIN nodes \cup {k} |->
                  IF j = k THEN n ELSE IF j = h THEN [nodes[j] EXCEPT !.prev = k] ELSE nodes[j]]
           /\ table' = [table EXCEPT ![r] = k]
    /\ count' = count + 1
    /\ map' = [j \in DOMAIN map \cup {k} |-> IF j = k THEN d ELSE map[j]]
    /\ iter' = NoIter
    /\ UNCHANGED <<crow, cnode, splay, splayed>>

\* Out of the list: n->prev->next = n->next; n->next->prev = n->prev.
Unlink(i) ==
    LET n == nodes[i]
    IN  [j \in DOMAIN nodes |->
            [nodes[j] EXCEPT !.next = IF j = n.prev THEN n.next ELSE @,
                             !.prev = IF j = n.next THEN n.prev ELSE @]]

\* movetofront(): the row itself is not changed.
movetofront(r, i) ==
    IF table[r] = i THEN UNCHANGED <<nodes, splayed>>
    ELSE /\ nodes' = [Unlink(i) EXCEPT ![i].prev = NoNode, ![i].next = table[r], ![table[r]].prev = i]
         /\ splayed' = TRUE

\* sfghash_find_node(), and sfghash_find() and sfghash_find2() which call it.
sfghash_find_node(k) ==
    /\ splay /\ Lookup(k) # NoNode
    /\ movetofront(hash_fcn[k], Lookup(k))
    /\ iter' = NoIter
    /\ UNCHANGED <<table, count, crow, cnode, splay, map>>

\* Mutant: the node behind the first one keeps its prev.
FirstOff_keeps_prev(r) == nodes
\* The first node of a row leaves it.
FirstOff(r) ==
    LET h == nodes[table[r]].next
    IN  [j \in DOMAIN nodes |-> IF j = h THEN [nodes[j] EXCEPT !.prev = NoNode] ELSE nodes[j]]

\* sfghash_remove() with sfghash_free_node().
sfghash_remove(k) ==
    LET i == Lookup(k)
        r == hash_fcn[k]
    IN  /\ i # NoNode
        /\ LET after == IF nodes[i].prev # NoNode THEN Unlink(i) ELSE FirstOff(r)
           IN  nodes' = [j \in DOMAIN nodes \ {i} |-> after[j]]
        /\ table' = IF nodes[i].prev # NoNode THEN table
                    ELSE [table EXCEPT ![r] = nodes[table[r]].next]
        /\ count' = count - 1
        /\ map' = [j \in DOMAIN map \ {k} |-> map[j]]
        /\ iter' = IF k \in Range(iter.seen) THEN iter ELSE NoIter
        /\ cnode' = IF cnode = i THEN Freed ELSE cnode
        /\ UNCHANGED <<crow, splay, splayed>>

\* The first node of the rows from r on, and its row.
FirstFrom(r) ==
    LET R == {q \in r..nrows - 1 : table[q] # NoNode}
    IN  IF R = {} THEN [row |-> nrows, node |-> NoNode]
        ELSE LET q == CHOOSE q \in R : \A p \in R : q <= p IN [row |-> q, node |-> table[q]]

\* Mutant: the rows in between are not passed over.
sfghash_next_one_row(r, i) ==
    IF nodes[i].next # NoNode THEN [row |-> r, node |-> nodes[i].next]
    ELSE [row |-> r + 1, node |-> IF r + 1 < nrows THEN table[r + 1] ELSE NoNode]
\* sfghash_next(): the node after i, which is in row r.
sfghash_next(r, i) ==
    IF nodes[i].next # NoNode THEN [row |-> r, node |-> nodes[i].next] ELSE FirstFrom(r + 1)

\* Returns node i of row r, with the cursor set to the one after it.
Returns(r, i) ==
    LET n == sfghash_next(r, i) IN crow' = n.row /\ cnode' = n.node

sfghash_findfirst ==
    LET f == FirstFrom(0)
    IN  /\ IF f.node = NoNode THEN crow' = f.row /\ cnode' = NoNode ELSE Returns(f.row, f.node)
        /\ iter' = [on |-> TRUE, from |-> DOMAIN map,
                    seen |-> IF f.node = NoNode THEN <<>> ELSE <<f.node>>]
        /\ UNCHANGED <<table, nodes, count, splay, map, splayed>>

\* The cursor may be used as long as its node has not been removed.
sfghash_findnext ==
    /\ cnode \notin {NoNode, Freed}
    /\ Returns(crow, cnode)
    /\ iter' = IF iter.on THEN [iter EXCEPT !.seen = Append(@, cnode)] ELSE iter
    /\ UNCHANGED <<table, nodes, count, splay, map, splayed>>

\* sfghash_findnext() returns NULL.
FindnextEnds == cnode = NoNode /\ iter.on /\ iter' = NoIter
                /\ UNCHANGED <<table, nodes, count, crow, cnode, splay, map, splayed>>

\* sfghash_delete(), and a new table.
sfghash_delete ==
    /\ table' = [r \in 0..nrows - 1 |-> NoNode]
    /\ LET linked == UNION {Range(Chain[table[r]]) : r \in DOMAIN table}
       IN  nodes' = [j \in DOMAIN nodes \ linked |-> nodes[j]]
    /\ count' = 0 /\ crow' = 0 /\ cnode' = NoNode /\ splay' = FALSE
    /\ map' = <<>> /\ splayed' = FALSE /\ iter' = NoIter

SfgNext ==
    /\ ~splayed
    /\ \/ \E k \in Key : \/ AddPresent(k) \/ sfghash_find_node(k) \/ sfghash_remove(k)
                         \/ \E d \in Data : AddNew(k, d)
       \/ \E n \in BOOLEAN : sfghash_splaymode(n)
       \/ sfghash_findfirst \/ sfghash_findnext \/ FindnextEnds \/ sfghash_delete

SfgSpec == SfgInit /\ [][SfgNext]_sfgVars
-------------------------------------------------------------------------------
(* Properties.                                                               *)

\* The table maps every key added and not removed to its data, finds no other, has
\* no node outside its rows (sfghash_delete() would not free it), no pointer to freed
\* memory but the cursor, and counts what it holds.
Maps ==
    /\ \A k \in Key : IF k \in DOMAIN map
                      THEN Lookup(k) # NoNode /\ nodes[Lookup(k)].data = map[k]
                      ELSE Lookup(k) = NoNode
    /\ DOMAIN nodes = UNION {Range(Chain[table[r]]) : r \in DOMAIN table}
    /\ {table[r] : r \in DOMAIN table} \subseteq DOMAIN nodes \cup {NoNode}
    /\ \A i \in DOMAIN nodes : {nodes[i].next, nodes[i].prev} \subseteq DOMAIN nodes \cup {NoNode}
    /\ count = Cardinality(DOMAIN map)

\* It does so as long as no node has been moved to the front, whatever is added,
\* removed, found and returned by iterations.
MapsKeys == ~splayed => Maps

\* "move a node to the front of the list": a key that is looked up in splay mode
\* is still in the table afterwards.
SplayKeeps == splayed => Maps

\* An iteration during which at most nodes that were returned are removed, as in
\* main(), returns every key it began with, and none twice.
VisitsAll ==
    iter.on =>
        /\ IsInjective(iter.seen)
        /\ Range(iter.seen) \subseteq iter.from
        /\ cnode = NoNode => Range(iter.seen) = iter.from

\* Both, through every sequence of calls.
HoldsKeys == MapsKeys /\ VisitsAll
===============================================================================
