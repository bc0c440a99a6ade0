--------------------------------- MODULE AcBm ---------------------------------
(****************************************************************************)
(* The search for several patterns of acbm/ac_bm_success/ac_bm.c: a tree of  *)
(* the patterns is moved over the text from the right to the left, by the    *)
(* larger of a good suffix and a bad character shift.                        *)
(*                                                                          *)
(* A node of the tree is named by the path to it, with the characters with    *)
(* which its nodes were added.  No pattern is empty (the bad character shifts *)
(* would read its data).  acbm_search() is acbm_search_ex() without the       *)
(* offsets.                                                                  *)
(****************************************************************************)
EXTENDS Integers, Sequences, FiniteSets, SequencesExt, FiniteSetsExt

CONSTANTS
    Lists,       \* the lists of patterns: [case_sen |-> a Boolean, data |-> a string]
    Texts,       \* the texts
    NMax         \* the sizes of the array for the matches

\* The size of data[] in a pattern_data.
PATTERN_LEN == 1024

ASSUME AcBmAssumption ==
    /\ Lists \subseteq Seq([case_sen : BOOLEAN, data : Seq(Nat)]) /\ <<>> \notin Lists
    /\ \A l \in Lists : \A i \in DOMAIN l : Len(l[i].data) \in 1..PATTERN_LEN
    /\ Texts \subseteq Seq(Nat) /\ NMax \subseteq Nat \ {0}

VARIABLES
    ac,          \* the patterns, the tree, its shifts, the text and the size
    adding,      \* the pattern that is being added to the tree
    base_index,
    tree_node,   \* where the pattern, or the text from base_index on, has led in the tree
    matched,     \* the matches: pattern and offset
    returned,    \* the search has returned
    left         \* the nodes of a tree that is complete, until they are freed

acVars == <<ac, adding, base_index, tree_node, matched, returned, left>>

Capital == 65..90
Lower(c) == IF c \in Capital THEN c + 32 ELSE c
\* What a character is compared as.
FoldAs(case_sen, c) == IF case_sen THEN c ELSE Lower(c)
-------------------------------------------------------------------------------
(* The tree.                                                                 *)

Tree == DOMAIN ac.adder
CaseSen(n) == ac.list[ac.adder[n]].case_sen

\* n->childs[c], if it is in the tree: a node of a pattern that is not case sensitive is
\* linked as the capital letter too, in place of a node that was there before.
child(n, c) ==
    LET small == Append(n, Lower(c)) IN
    IF c \in Capital /\ small \in Tree /\ ~CaseSen(small) THEN small ELSE Append(n, c)

childs(n) == {m \in Tree : Len(m) = Len(n) + 1 /\ IsPrefix(n, m)}
\* The child that was added last.
one_child(n) == CHOOSE m \in childs(n) : \A k \in childs(n) : ac.adder[k] <= ac.adder[m]
label(n) == ac.label[n]

\* The characters of pattern i lead from the root to n.
Leads(i, n) ==
    /\ Len(n) <= Len(ac.list[i].data)
    /\ \A k \in 1..Len(n) : child(SubSeq(n, 1, k - 1), ac.list[i].data[k]) = SubSeq(n, 1, k)

\* _init_GSshifts(), _clean_tree(): capital letters are left out below a node that is not
\* case sensitive, as the root (its memory is cleared).
Visited(n) ==
    \A k \in 1..Len(n) :
        LET parent == SubSeq(n, 1, k - 1) IN
        /\ n[k] \in Capital => parent # <<>> /\ CaseSen(parent)
        /\ child(parent, n[k]) = SubSeq(n, 1, k)
-------------------------------------------------------------------------------
(* The shifts.  They are computed with the flag of the first pattern for all.  *)

Fold(c) == FoldAs(ac.list[1].case_sen, c)
Pattern == [i \in DOMAIN ac.list |-> [j \in DOMAIN ac.list[i].data |-> Fold(ac.list[i].data[j])]]

min_pattern_size == Min({Len(p) : p \in Range(Pattern)})

\* ACtree_compute_BCshifts(): the first place of a character behind the first of a pattern.
BCshift(c) ==
    Min({min_pattern_size} \cup
        {i \in 1..min_pattern_size - 1 : \E p \in Range(Pattern) : p[i + 1] = Fold(c)})

\* The characters that pat1 and pat2 from offset on have in common.
Common(pat1, pat2, offset) ==
    Max({k \in 0..Min({Len(pat1), Len(pat2) - offset}) :
            \A i \in 1..k : pat1[i] = pat2[offset + i]})

\* Mutant: a pattern that begins at the end of another is not looked at.
PairShifts_inside(pat1, pat2) ==
    LET first == {i \in 1..Len(pat2) : i = Len(pat2) \/ pat2[i + 1] # pat1[1]}
        offsets == {o \in 1..Len(pat2) - 1 : o <= min_pattern_size /\ pat2[o + 1] = pat1[1]}
        at(o) == LET k == Common(pat1, pat2, o)
                 IN  IF k = Len(pat1) \/ o + k = Len(pat2) THEN {} ELSE {<<k + 1, o>>}
    IN  {<<1, Min(first)>>} \cup UNION {at(o) : o \in offsets}
\* compute_GSshift(): the shifts that a pair of patterns sets, each with the depth in pat1.
PairShifts(pat1, pat2) ==
    LET first == {i \in 1..Len(pat2) : i = Len(pat2) \/ pat2[i + 1] # pat1[1]}
        offsets == {o \in 1..Len(pat2) - 1 : o <= min_pattern_size /\ pat2[o + 1] = pat1[1]}
        at(o) == LET k == Common(pat1, pat2, o)
                 IN  IF k = Len(pat1) THEN {}
                     ELSE IF o + k = Len(pat2) THEN {<<j + 1, o>> : j \in k..Len(pat1) - 1}
                     ELSE {<<k + 1, o>>}
    IN  {<<1, Min(first)>>} \cup UNION {at(o) : o \in offsets}

\* ACtree_compute_GSshifts() with set_GSshift(): a node that is not visited keeps the 0 it
\* was allocated with.
GSshift(n) ==
    LET leading == {Pattern[i] : i \in {i \in DOMAIN Pattern : Leads(i, n)}}
        set == {s \in UNION {PairShifts(p, q) : p \in leading, q \in Range(Pattern)} : s[1] = Len(n)}
    IN  IF Visited(n) THEN Min({min_pattern_size} \cup {s[2] : s \in set}) ELSE 0
-------------------------------------------------------------------------------
(* Actions.                                                                  *)

AcInit ==
    /\ \E l \in Lists :
          ac = [list |-> l, adder |-> [n \in {<<>>} |-> 0],
                label |-> [n \in {<<>>} |-> -2], bc |-> <<>>, gs |-> <<>>,
                text |-> <<>>, nmax |-> 0]
    /\ adding = 1 /\ base_index = 0 /\ tree_node = <<>> /\ matched = <<>> /\ returned = FALSE /\ left = {}

\* A field of the nodes, when one is added.
Grown(field, n, value) == [m \in DOMAIN field \cup {n} |-> IF m = n THEN value ELSE field[m]]

Building == left = {} /\ ~returned /\ adding <= Len(ac.list)
Adding == ac.list[adding]

\* ACtree_build(): a character of a pattern leads to a node or adds one.
AddCharacter ==
    /\ Building /\ Len(tree_node) < Len(Adding.data)
    /\ LET ch == FoldAs(Adding.case_sen, Adding.data[Len(tree_node) + 1])
           new == Append(tree_node, ch)
       IN  IF child(tree_node, ch) \in Tree
           THEN tree_node' = child(tree_node, ch) /\ UNCHANGED ac
           ELSE /\ tree_node' = new
                /\ ac' = [ac EXCEPT !.adder = Grown(@, new, adding), !.label = Grown(@, new, -1)]
    /\ UNCHANGED <<adding, base_index, matched, returned, left>>

\* The last node remembers the pattern.
LabelLast ==
    /\ Building /\ Len(tree_node) = Len(Adding.data)
    /\ ac' = [ac EXCEPT !.label[tree_node] = adding]
    /\ adding' = adding + 1 /\ tree_node' = <<>>
    /\ UNCHANGED <<base_index, matched, returned, left>>

\* The tree is complete and the shifts are computed, once; a search begins at the end of
\* a text.
acbm_init ==
    /\ left = {} /\ ~returned /\ adding > Len(ac.list)
    /\ \E t \in Texts, m \in NMax :
          /\ ac' = [ac EXCEPT !.bc = [c \in Range(t) |-> BCshift(c)],
                              !.gs = [n \in Tree |-> GSshift(n)], !.text = t, !.nmax = m]
          /\ base_index' = Len(t) - min_pattern_size
    /\ left' = Tree
    /\ UNCHANGED <<adding, tree_node, matched, returned>>

\* text is indexed from 0.
Text(i) == ac.text[i + 1]
cur_index == base_index + Len(tree_node)

Searching == left # {} /\ ~returned /\ base_index >= 0
Below == child(tree_node, Text(cur_index))
\* childs[text[cur_index]] is not NULL.
Onward == cur_index < Len(ac.text) /\ Below \in Tree

\* A step into the tree, where a pattern may end; the last one when the array is full.
Descend ==
    /\ Searching /\ Onward
    /\ tree_node' = Below
    /\ IF label(tree_node') >= 0
       THEN /\ matched' = Append(matched, [pattern_i |-> label(tree_node'), offset |-> base_index])
            /\ returned' = (Len(matched') = ac.nmax)
       ELSE UNCHANGED <<matched, returned>>
    /\ UNCHANGED <<ac, adding, base_index, left>>

bc_shift == IF cur_index < Len(ac.text) THEN ac.bc[Text(cur_index)] + base_index - cur_index ELSE 1
\* Mutant: the bad character alone decides.
real_shift_bc == IF childs(tree_node) = {} THEN 1 ELSE bc_shift
real_shift == IF childs(tree_node) = {} THEN 1 ELSE Max({ac.gs[one_child(tree_node)], bc_shift})

\* The text leads no further: the tree is moved, and the next turn begins at its root.
Shift ==
    /\ Searching /\ ~Onward
    /\ base_index' = base_index - real_shift
    /\ tree_node' = <<>>
    /\ UNCHANGED <<ac, adding, matched, returned, left>>

\* The search returns: the text is shorter than every pattern, or done with.
SearchReturns == /\ left # {} /\ ~returned /\ base_index < 0
                 /\ returned' = TRUE
                 /\ UNCHANGED <<ac, adding, base_index, tree_node, matched, left>>

\* A node with two links below a case sensitive one is freed twice: if the program does
\* not end there, it goes on like this.
acbm_clean == /\ returned /\ left # {}
              /\ left' = {n \in Tree : ~Visited(n)}
              /\ UNCHANGED <<ac, adding, base_index, tree_node, matched, returned>>

AcNext == AddCharacter \/ LabelLast \/ acbm_init \/ Descend \/ Shift \/ SearchReturns \/ acbm_clean
AcSpec == AcInit /\ [][AcNext]_acVars
-------------------------------------------------------------------------------
(* Properties.                                                               *)

OneFlag == \A i \in DOMAIN ac.list : ac.list[i].case_sen = ac.list[1].case_sen

\* Every place where a pattern is in the text; of equal patterns the last one.
Occurs == {[pattern_i |-> i, offset |-> o] : i \in DOMAIN Pattern, o \in 0..Len(ac.text)}
Occurrences ==
    {m \in Occurs :
        LET p == Pattern[m.pattern_i]
        IN  /\ m.offset + Len(p) <= Len(ac.text)
            /\ \A i \in DOMAIN p : p[i] = Fold(Text(m.offset + i - 1))
            /\ \A j \in DOMAIN Pattern : j > m.pattern_i => Pattern[j] # p}

\* The text has the pattern there, but for the case of its letters.
Alike(m) ==
    LET p == ac.list[m.pattern_i].data
    IN  /\ m.offset + Len(p) <= Len(ac.text)
        /\ \A i \in DOMAIN p : Lower(p[i]) = Lower(Text(m.offset + i - 1))

AllVisited == \A n \in Tree : Visited(n)

\* Every match is a pattern that the text has there, up to the case of its letters, also in
\* a list whose patterns differ in case_sen; and, if every good suffix shift was set, it is
\* returned once.  In a list with one case_sen for all, the matches are occurrences, and
\* however far the shifts move, a search that returns before the array is full has found
\* every occurrence of every pattern.  (Where case_sen differs, pattern_list[0]'s decides
\* the shifts and the nodes are shared: patterns match that should not, others are missed.)
FindsAll ==
    /\ \A i \in DOMAIN matched : Alike(matched[i])
    /\ AllVisited => IsInjective(matched)
    /\ OneFlag => /\ Range(matched) \subseteq Occurrences
                  /\ returned => Occurrences \subseteq Range(matched) \/ Len(matched) = ac.nmax

\* The text leads no further, the good suffix shift is one that was never set, and the
\* bad character asks for none.
Stuck == /\ Searching /\ ~Onward /\ childs(tree_node) # {}
         /\ ~Visited(one_child(tree_node)) /\ bc_shift <= 0

\* "return value: n: matched n patterns, 0: not matched": every step of the search leads
\* deeper into the tree, moves the tree towards the front of the text or is the last one;
\* except where it is stuck, and begins again at the root and the same place for ever.
MovesOn == [][left # {} /\ ~returned
                => IF Stuck THEN base_index' = base_index /\ tree_node' = <<>> /\ ~returned'
                   ELSE \/ base_index' < base_index
                        \/ base_index' = base_index /\ Len(tree_node') > Len(tree_node) /\ tree_node' \in Tree
                        \/ returned']_acVars
===============================================================================
