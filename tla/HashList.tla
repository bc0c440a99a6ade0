------------------------------- MODULE HashList -------------------------------
(****************************************************************************)
(* The list with a single pointer head of list/mylist.h, meant for the       *)
(* buckets of a hash table: pprev is the address of the pointer that points  *)
(* to the node, either the first of a head or the next of a node.  A place   *)
(* in memory, h->first or n->next, is named by its head or node.             *)
(****************************************************************************)
EXTENDS Integers, Sequences, SequencesExt

CONSTANTS Bucket, HNode

ASSUME HashListAssumption ==
    Bucket \cap HNode = {} /\ {"null", "hpoison"} \cap (Bucket \cup HNode) = {}

HNull == "null"
HPoison == "hpoison"     \* LIST_POISON1, LIST_POISON2

VARIABLES
    place,        \* what the pointer at each place points to: h->first, n->next
    pprev,     \* the place each node's pprev is the address of
    buckets,   \* history: the nodes of each list
    walk       \* the loop that is running, or NoWalk

hlistVars == <<place, pprev, buckets, walk>>

NoWalk == [on |-> FALSE]

\* Heads made by HLIST_HEAD, nodes by INIT_HLIST_NODE.
HListInit ==
    /\ place = [p \in Bucket \cup HNode |-> HNull]
    /\ pprev = [n \in HNode |-> HNull]
    /\ buckets = [h \in Bucket |-> <<>>]
    /\ walk = NoWalk

In(h) == Range(buckets[h])
Hashed == UNION {In(h) : h \in Bucket}
hlist_unhashed(n) == pprev[n] = HNull
hlist_empty(h) == place[h] = HNull

\* f with f[n] = v, unless n is NULL.
SetUnlessNull(f, n, v) == IF n = HNull THEN f ELSE [f EXCEPT ![n] = v]

\* Where a sequence has n.
PlaceOf(s, n) == CHOOSE i \in DOMAIN s : s[i] = n
Dropped(n) ==
    [h \in Bucket |-> IF n \in In(h) THEN RemoveAt(buckets[h], PlaceOf(buckets[h], n)) ELSE buckets[h]]

\* __hlist_del(), after which next and pprev of n are set to v.
DelAndSet(n, v) ==
    /\ place' = [place EXCEPT ![pprev[n]] = place[n], ![n] = v]
    /\ pprev' = [SetUnlessNull(pprev, place[n], pprev[n]) EXCEPT ![n] = v]
    /\ buckets' = Dropped(n)

hlist_del(n) == n \in Hashed /\ DelAndSet(n, HPoison)

\* Nothing is done for a node that has been initialised.
hlist_del_init(n) == n \in Hashed /\ ~hlist_unhashed(n) /\ DelAndSet(n, HNull)

INIT_HLIST_NODE(n) == /\ n \notin Hashed /\ ~hlist_unhashed(n)
                      /\ place' = [place EXCEPT ![n] = HNull]
                      /\ pprev' = [pprev EXCEPT ![n] = HNull]
                      /\ UNCHANGED buckets

hlist_add_head(n, h) ==
    /\ n \notin Hashed
    /\ place' = [place EXCEPT ![n] = place[h], ![h] = n]
    /\ pprev' = [SetUnlessNull(pprev, place[h], n) EXCEPT ![n] = h]
    /\ buckets' = [buckets EXCEPT ![h] = <<n>> \o @]

\* The sequence with n put in before, or after, the node that is there.
Insert(s, there, n, after) ==
    IF there \notin Range(s) THEN s ELSE InsertAt(s, PlaceOf(s, there) + after, n)

hlist_add_before(n, next) ==
    /\ n \notin Hashed /\ next \in Hashed
    /\ place' = [place EXCEPT ![n] = next, ![pprev[next]] = n]
    /\ pprev' = [pprev EXCEPT ![n] = pprev[next], ![next] = n]
    /\ buckets' = [h \in Bucket |-> Insert(buckets[h], next, n, 0)]

\* Mutant: the node behind the new one keeps its pprev.
hlist_add_after_keeps_pprev(n, next) ==
    /\ n \in Hashed /\ next \notin Hashed
    /\ place' = [place EXCEPT ![next] = place[n], ![n] = next]
    /\ pprev' = [pprev EXCEPT ![next] = n]
    /\ buckets' = [h \in Bucket |-> Insert(buckets[h], n, next, 1)]
\* Adds next after n.
hlist_add_after(n, next) ==
    /\ n \in Hashed /\ next \notin Hashed
    /\ place' = [place EXCEPT ![next] = place[n], ![n] = next]
    /\ pprev' = SetUnlessNull([pprev EXCEPT ![next] = n], place[n], next)
    /\ buckets' = [h \in Bucket |-> Insert(buckets[h], n, next, 1)]

\* Whatever the new list held is lost.
hlist_move_list(old, new) ==
    /\ old # new
    /\ place' = [place EXCEPT ![new] = place[old], ![old] = HNull]
    /\ pprev' = SetUnlessNull(pprev, place[old], new)
    /\ buckets' = [buckets EXCEPT ![new] = buckets[old], ![old] = <<>>]

\* The loops, from the first node, from a node (_from) or after it (_continue). n of a
\* safe loop is read before the body.
hlist_for_each(h, safe, p) ==
    /\ ~walk.on /\ p \in In(h) \cup {place[q] : q \in In(h) \cup {h}}
    /\ LET s == buckets[h]
       IN  walk' = [on |-> TRUE, safe |-> safe, pos |-> p, seen |-> <<>>,
                    todo |-> IF p = HNull THEN <<>> ELSE SubSeq(s, PlaceOf(s, p), Len(s))]
    /\ UNCHANGED <<place, pprev, buckets>>

\* The body of a safe loop may delete the node.
WalkBody ==
    /\ walk.on /\ walk.pos # HNull
    /\ LET p == walk.pos
       IN  /\ \/ UNCHANGED <<place, pprev, buckets>>
              \/ walk.safe /\ hlist_del(p)
           /\ walk' = [walk EXCEPT !.seen = Append(@, p), !.pos = IF walk.safe THEN place[p] ELSE place'[p]]

WalkDone == walk.on /\ walk.pos = HNull /\ walk' = NoWalk /\ UNCHANGED <<place, pprev, buckets>>

HListNext ==
    \/ /\ ~walk.on /\ UNCHANGED walk
       /\ \/ \E n \in HNode : \/ hlist_del(n) \/ hlist_del_init(n) \/ INIT_HLIST_NODE(n)
                              \/ \E h \in Bucket : hlist_add_head(n, h)
                              \/ \E m \in HNode \ {n} : hlist_add_before(n, m) \/ hlist_add_after(n, m)
          \/ \E old, new \in Bucket : hlist_move_list(old, new)
    \/ \E h \in Bucket, safe \in BOOLEAN, p \in HNode \cup {HNull} : hlist_for_each(h, safe, p)
    \/ WalkBody \/ WalkDone

HListSpec == HListInit /\ [][HListNext]_hlistVars
-------------------------------------------------------------------------------
(* Properties.                                                               *)

\* Whatever calls are made, every list leads from its head through its nodes in
\* order to NULL, the pprev of every node is the address of the pointer to it (what
\* deleting it in constant time depends on), and a loop visits every node it begins
\* with once and in order, whatever the body of a safe loop deletes.
HListsAgree ==
    /\ \A h \in Bucket :
          LET s == <<h>> \o buckets[h] \o <<HNull>>
          IN  /\ \A i \in 1..Len(s) - 1 : place[s[i]] = s[i + 1] /\ (s[i + 1] # HNull => pprev[s[i + 1]] = s[i])
              /\ hlist_empty(h) <=> buckets[h] = <<>>
    /\ \A n \in Hashed : ~hlist_unhashed(n)
    /\ walk.on => /\ walk.pos # HPoison
                  /\ walk.seen = SubSeq(walk.todo, 1, Len(walk.seen))
                  /\ walk.pos = HNull => walk.seen = walk.todo
===============================================================================
