------------------------------ MODULE LinkedList ------------------------------
(****************************************************************************)
(* The doubly linked list of list/mylist.h.  A list is a circle through its  *)
(* head.  Every operation is the sequence of its pointer assignments; beside *)
(* them the lists are kept as sequences, changed as each operation's comment *)
(* says, and the two are compared.                                           *)
(*                                                                          *)
(* The loops are macros: what a caller's body does in between is the choice  *)
(* of the model.  The _entry variants differ by list_entry(), the struct     *)
(* around a list_head, which the model names by its list_head.               *)
(****************************************************************************)
EXTENDS Integers, Sequences, SequencesExt

CONSTANTS LHead, Entry

ASSUME ListAssumption == LHead \cap Entry = {} /\ "poison" \notin LHead \cup Entry

Poison == "poison"     \* LIST_POISON1, LIST_POISON2

VARIABLES
    links,     \* the next and prev of every list_head
    lists,     \* history: the entries of each list
    stale,     \* history: the heads that have to be initialised before they are used again
    loop       \* the loop that is running, or NoLoop

listVars == <<links, lists, stale, loop>>

NoLoop == [on |-> FALSE]

\* Two heads made by LIST_HEAD; entries whose memory is not initialised.
ListInit ==
    /\ links = [next |-> [i \in LHead \cup Entry |-> IF i \in LHead THEN i ELSE Poison],
                prev |-> [i \in LHead \cup Entry |-> IF i \in LHead THEN i ELSE Poison]]
    /\ lists = [h \in LHead |-> <<>>] /\ stale = {}
    /\ loop = NoLoop

On(h) == Range(lists[h])
Linked == UNION {On(h) : h \in LHead}
Alone(L, e) == L.next[e] = e /\ L.prev[e] = e
-------------------------------------------------------------------------------
(* The functions, from links to links.                                       *)

INIT_LIST_HEAD(L, l) == [next |-> [L.next EXCEPT ![l] = l], prev |-> [L.prev EXCEPT ![l] = l]]

__list_add(L, new, prev, next) ==
    [next |-> [L.next EXCEPT ![new] = next, ![prev] = new],
     prev |-> [L.prev EXCEPT ![next] = new, ![new] = prev]]

list_add(L, new, head) == __list_add(L, new, head, L.next[head])
list_add_tail(L, new, head) == __list_add(L, new, L.prev[head], head)

__list_del(L, prev, next) ==
    [next |-> [L.next EXCEPT ![prev] = next], prev |-> [L.prev EXCEPT ![next] = prev]]

list_del(L, e) ==
    LET D == __list_del(L, L.prev[e], L.next[e])
    IN  [next |-> [D.next EXCEPT ![e] = Poison], prev |-> [D.prev EXCEPT ![e] = Poison]]

\* Mutant: old->prev is read before it may have been overwritten.
list_replace_reads_first(L, old, new) ==
    [next |-> [L.next EXCEPT ![new] = L.next[old], ![L.prev[old]] = new],
     prev |-> [L.prev EXCEPT ![L.next[old]] = new, ![new] = L.prev[old]]]
\* new->next = old->next; new->next->prev = new; new->prev = old->prev; new->prev->next = new:
\* when old is an empty head, old->prev is new by then.
list_replace(L, old, new) ==
    LET P == [L.prev EXCEPT ![L.next[old]] = new]
    IN  [next |-> [L.next EXCEPT ![new] = L.next[old], ![P[old]] = new],
         prev |-> [P EXCEPT ![new] = P[old]]]

list_replace_init(L, old, new) == INIT_LIST_HEAD(list_replace(L, old, new), old)
list_del_init(L, e) == INIT_LIST_HEAD(__list_del(L, L.prev[e], L.next[e]), e)
list_move(L, e, head) == list_add(__list_del(L, L.prev[e], L.next[e]), e, head)
list_move_tail(L, e, head) == list_add_tail(__list_del(L, L.prev[e], L.next[e]), e, head)

list_is_last(L, e, head) == L.next[e] = head
list_empty(L, head) == L.next[head] = head
list_empty_careful(L, head) == L.next[head] = head /\ L.prev[head] = head
list_is_singular(L, head) == ~list_empty(L, head) /\ L.next[head] = L.prev[head]

__list_cut_position(L, list, head, e) ==
    LET new_first == L.next[e]
        first == L.next[head]
    IN  [next |-> [L.next EXCEPT ![list] = first, ![e] = list, ![head] = new_first],
         prev |-> [L.prev EXCEPT ![first] = list, ![list] = e, ![new_first] = head]]

list_cut_position(L, list, head, e) ==
    IF \/ list_empty(L, head)
       \/ list_is_singular(L, head) /\ L.next[head] # e /\ head # e
    THEN L
    ELSE IF e = head THEN INIT_LIST_HEAD(L, list) ELSE __list_cut_position(L, list, head, e)

__list_splice(L, list, prev, next) ==
    LET first == L.next[list]
        last == L.prev[list]
    IN  [next |-> [L.next EXCEPT ![prev] = first, ![last] = next],
         prev |-> [L.prev EXCEPT ![first] = prev, ![next] = last]]

list_splice(L, list, head) ==
    IF list_empty(L, list) THEN L ELSE __list_splice(L, list, head, L.next[head])
list_splice_tail(L, list, head) ==
    IF list_empty(L, list) THEN L ELSE __list_splice(L, list, L.prev[head], head)
list_splice_init(L, list, head) ==
    IF list_empty(L, list) THEN L
    ELSE INIT_LIST_HEAD(__list_splice(L, list, head, L.next[head]), list)
list_splice_tail_init(L, list, head) ==
    IF list_empty(L, list) THEN L
    ELSE INIT_LIST_HEAD(__list_splice(L, list, L.prev[head], head), list)
-------------------------------------------------------------------------------
(* The calls a program may make: an entry is added when it is on no list, and *)
(* deleted when it is on one or has been initialised.                        *)

Idle == ~loop.on /\ UNCHANGED loop
Known(h) == h \notin stale
IndexOf(s, e) == CHOOSE i \in DOMAIN s : s[i] = e
Without(e) ==
    [h \in LHead |-> IF e \in On(h) THEN RemoveAt(lists[h], IndexOf(lists[h], e)) ELSE lists[h]]

InitHead(h) == /\ ~Known(h)
               /\ links' = INIT_LIST_HEAD(links, h)
               /\ stale' = stale \ {h}
               /\ UNCHANGED lists
InitEntry(e) == /\ e \notin Linked /\ ~Alone(links, e)
                /\ links' = INIT_LIST_HEAD(links, e)
                /\ UNCHANGED <<lists, stale>>

Add(e, h) ==
    /\ e \notin Linked /\ Known(h) /\ UNCHANGED stale
    /\ \/ links' = list_add(links, e, h) /\ lists' = [lists EXCEPT ![h] = <<e>> \o @]
       \/ links' = list_add_tail(links, e, h) /\ lists' = [lists EXCEPT ![h] = Append(@, e)]

Del(e) ==
    /\ e \in Linked \/ Alone(links, e)
    /\ links' \in {list_del(links, e), list_del_init(links, e)}
    /\ lists' = Without(e)
    /\ UNCHANGED stale

\* An entry takes the place of another one, or a head that of another head.
Replace(old, new) ==
    \/ /\ old \in Linked /\ new \in Entry \ Linked
       /\ links' \in {list_replace(links, old, new), list_replace_init(links, old, new)}
       /\ lists' = [h \in LHead |-> [i \in DOMAIN lists[h] |->
                       IF lists[h][i] = old THEN new ELSE lists[h][i]]]
       /\ UNCHANGED stale
    \/ /\ old \in LHead /\ new \in LHead /\ old # new /\ Known(old) /\ lists[new] = <<>>
       /\ lists' = [lists EXCEPT ![new] = lists[old], ![old] = <<>>]
       /\ \/ links' = list_replace(links, old, new) /\ stale' = (stale \ {new}) \cup {old}
          \/ links' = list_replace_init(links, old, new) /\ stale' = stale \ {new}

MoveTo(e, h) ==
    /\ e \in Linked \/ Alone(links, e)
    /\ Known(h) /\ UNCHANGED stale
    /\ \/ links' = list_move(links, e, h) /\ lists' = [Without(e) EXCEPT ![h] = <<e>> \o @]
       \/ links' = list_move_tail(links, e, h) /\ lists' = [Without(e) EXCEPT ![h] = Append(@, e)]

\* "moves the initial part of @head, up to and including @entry, from @head to @list".
\* The entries list had are lost.
Cut(list, head, e) ==
    /\ list # head /\ Known(head) /\ e \in On(head) \cup {head}
    /\ links' = list_cut_position(links, list, head, e)
    /\ IF lists[head] = <<>> THEN UNCHANGED <<lists, stale>>
       ELSE LET i == IF e = head THEN 0 ELSE IndexOf(lists[head], e)
            IN  /\ lists' = [lists EXCEPT ![list] = SubSeq(lists[head], 1, i),
                                          ![head] = SubSeq(@, i + 1, Len(@))]
                /\ stale' = stale \ {list}

\* Only the _init variants leave a list that may be used, unless it was empty.
Splice(list, head) ==
    /\ list # head /\ Known(list) /\ Known(head)
    /\ LET front == [lists EXCEPT ![head] = lists[list] \o @, ![list] = <<>>]
           back == [lists EXCEPT ![head] = @ \o lists[list], ![list] = <<>>]
           left == IF lists[list] = <<>> THEN stale ELSE stale \cup {list}
       IN  \/ links' = list_splice(links, list, head) /\ lists' = front /\ stale' = left
           \/ links' = list_splice_tail(links, list, head) /\ lists' = back /\ stale' = left
           \/ links' = list_splice_init(links, list, head) /\ lists' = front /\ UNCHANGED stale
           \/ links' = list_splice_tail_init(links, list, head) /\ lists' = back /\ UNCHANGED stale
-------------------------------------------------------------------------------
(* The loops: forwards or backwards (dir), safe against removal of the entry  *)
(* or not, from the head, from an entry (_from) or after it (_continue).      *)

Follow(dir, i) == IF dir = "next" THEN links.next[i] ELSE links.prev[i]
\* The entries a loop from i on is to visit.
Rest(h, dir, i) ==
    LET s == IF dir = "next" THEN lists[h] ELSE Reverse(lists[h])
    IN  IF i = h THEN s ELSE SubSeq(s, IndexOf(s, i), Len(s))

\* Mutant: the cursor n is that of the loops that are not safe.
Ahead_unsafe(dir, pos) == pos
\* n, read before the body.
Ahead(dir, pos) == Follow(dir, pos)

list_for_each(h, dir, safe, start, i) ==
    /\ ~loop.on /\ Known(h) /\ i \in On(h) \cup {h}
    /\ start \in {"from", "continue"} /\ (start = "from" => i # h)
    /\ LET pos == IF start = "from" THEN i ELSE Follow(dir, i)
           todo == Rest(h, dir, i)
       IN  loop' = [on |-> TRUE, head |-> h, dir |-> dir, safe |-> safe, pos |-> pos, seen |-> <<>>,
                    n |-> IF safe THEN Ahead(dir, pos) ELSE pos,
                    todo |-> IF start = "continue" /\ i # h THEN Tail(todo) ELSE todo]
    /\ UNCHANGED <<links, lists, stale>>

\* The body for an entry: the body of a safe loop may delete it, or move it to the
\* front of another list.
Body ==
    /\ loop.on /\ loop.pos # loop.head /\ UNCHANGED stale
    /\ LET e == loop.pos
       IN  /\ \/ UNCHANGED <<links, lists>>
              \/ /\ loop.safe
                 /\ \/ links' = list_del(links, e) /\ lists' = Without(e)
                    \/ \E g \in LHead \ {loop.head} :
                          /\ Known(g)
                          /\ links' = list_move(links, e, g)
                          /\ lists' = [Without(e) EXCEPT ![g] = <<e>> \o @]
           /\ LET to == IF loop.safe THEN loop.n ELSE Follow(loop.dir, e)
                  after == IF loop.dir = "next" THEN links'.next ELSE links'.prev
              IN  loop' = [loop EXCEPT !.seen = Append(@, e), !.pos = to,
                               !.n = IF loop.safe /\ to # Poison THEN after[to] ELSE to]

LoopDone == loop.on /\ loop.pos = loop.head /\ loop' = NoLoop /\ UNCHANGED <<links, lists, stale>>

ListNext ==
    \/ /\ Idle
       /\ \/ \E h \in LHead : InitHead(h)
          \/ \E e \in Entry : InitEntry(e) \/ Del(e) \/ \E h \in LHead : Add(e, h) \/ MoveTo(e, h)
          \/ \E old, new \in LHead \cup Entry : Replace(old, new)
          \/ \E g, h \in LHead : Splice(g, h) \/ \E e \in LHead \cup Entry : Cut(g, h, e)
    \/ \E h \in LHead, dir \in {"next", "prev"}, safe \in BOOLEAN, start \in {"from", "continue"},
          i \in LHead \cup Entry : list_for_each(h, dir, safe, start, i)
    \/ Body \/ LoopDone

ListSpec == ListInit /\ [][ListNext]_listVars
-------------------------------------------------------------------------------
(* Properties.                                                               *)

\* Whatever calls are made, every list is one circle: from its head through its
\* entries in order and back, backwards through prev as well as forwards through
\* next, and the tests of a list say what it holds.
ListsAgree ==
    \A h \in LHead : Known(h) =>
        LET s == <<h>> \o lists[h] \o <<h>>
        IN  /\ \A i \in 1..Len(s) - 1 : links.next[s[i]] = s[i + 1] /\ links.prev[s[i + 1]] = s[i]
            /\ list_empty(links, h) <=> lists[h] = <<>>
            /\ list_empty_careful(links, h) <=> lists[h] = <<>>
            /\ list_is_singular(links, h) <=> Len(lists[h]) = 1
            /\ \A e \in On(h) : list_is_last(links, e, h) <=> e = Last(lists[h])

\* A loop visits the entries it begins with, each once and in order, whatever the
\* body of a safe loop removes, and follows no pointer of a deleted entry.
LoopVisits ==
    loop.on => /\ loop.pos # Poison
               /\ loop.seen = SubSeq(loop.todo, 1, Len(loop.seen))
               /\ loop.pos = loop.head => loop.seen = loop.todo

\* Both, through every sequence of calls.
ListsHold == ListsAgree /\ LoopVisits
===============================================================================
