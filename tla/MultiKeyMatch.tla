----------------------------- MODULE MultiKeyMatch -----------------------------
(****************************************************************************)
(* The search for several keys of acbm/ac_bm_for_c++/multikeymatch.cpp, which *)
(* moves by pairs of characters: a pair of the text that is k characters from  *)
(* the end of some key allows a step of k, one that ends a key a comparison.   *)
(*                                                                          *)
(* MatchInit() is called once, after the keys; a pointer has the four bytes   *)
(* GetMatchMap() clears for it.  A comparison may read in front of the text:  *)
(* what is there is an input.                                                *)
(****************************************************************************)
EXTENDS Integers, Sequences, FiniteSets, SequencesExt, FiniteSetsExt

CONSTANTS
    KeyLists,     \* the keys, in the order AddKey() is called
    Sources,      \* the texts
    InFront       \* what the memory in front of the text holds

\* Characters are numbers.
ASSUME MultiKeyAssumption == KeyLists \subseteq Seq(Seq(Int)) /\ Sources \subseteq Seq(Int)

VARIABLES
    mk,           \* the keys to add, those accepted, the text, what is in front of it
    at_pos,       \* i of AMatch(), or where it begins again
    results,      \* res (the offset) and key (its index), in the order found
    matching      \* "adding" keys, "searching", or MatchMain() has "returned"

mkVars == <<mk, at_pos, results, matching>>

len == Len(mk.source)
\* GetMax(): one less than the shortest key.
max == Min({Len(k) : k \in Range(mk.keys)}) - 1

MkInit ==
    /\ \E l \in KeyLists, s \in Sources, f \in InFront :
          mk = [calls |-> l, keys |-> <<>>, source |-> s, front |-> f]
    /\ at_pos = 0 /\ results = <<>> /\ matching = "adding"

\* The lengths of the keys that are taken.
KeyLength == 2..1024

AddKey ==
    /\ matching = "adding" /\ mk.calls # <<>>
    /\ mk' = [mk EXCEPT !.calls = Tail(@),
                        !.keys = IF Len(Head(mk.calls)) \in KeyLength THEN Append(@, Head(mk.calls)) ELSE @]
    /\ UNCHANGED <<at_pos, results, matching>>

\* MatchInit(), and MatchMain(), which returns at once when there are no keys or the text
\* is too short.
MatchInit ==
    /\ matching = "adding" /\ mk.calls = <<>>
    /\ matching' = IF mk.keys = <<>> THEN "returned" ELSE IF len <= max THEN "returned" ELSE "searching"
    /\ UNCHANGED <<mk, at_pos, results>>

\* source[i]; a negative index is in front of it.
Source(i) == IF i >= 0 THEN mk.source[i + 1] ELSE mk.front[Len(mk.front) + 1 + i]

\* Mutant: the distance is to the end of the key, not to its last pair.
Spaces_to_end(pair) ==
    UNION {{Len(k) - j : j \in {j \in 1..Len(k) - 1 : <<k[j], k[j + 1]>> = pair}} : k \in Range(mk.keys)}
\* GetMatchMap(): how far a pair is from the last pair of each key it is in.
Spaces(pair) ==
    UNION {{Len(k) - j - 1 : j \in {j \in 1..Len(k) - 1 : <<k[j], k[j + 1]>> = pair}} : k \in Range(mk.keys)}
space(pair) == Min({max} \cup Spaces(pair))

\* GetMatchArr(): the keys that end in a pair.
listarr(pair) ==
    {i \in DOMAIN mk.keys : LET k == mk.keys[i] IN <<k[Len(k) - 1], k[Len(k)]>> = pair}

\* MatchByte(): the key backwards, its last pair at site.
MatchByte(site, p) == \A i \in 1..Len(p) : Source(site + 2 - i) = p[Len(p) + 1 - i]

\* BackMatch(): of those, the one added first that ends at site, or 0.
BackMatch(site, pair) ==
    LET K == {i \in listarr(pair) : MatchByte(site, mk.keys[i])}
    IN  IF K = {} THEN 0 ELSE Min(K)

Pair(i) == <<Source(i), Source(i + 1)>>

\* AMatch() at one position: a step, or a result, from behind which MatchMain() goes on.
Moves ==
    /\ matching = "searching" /\ at_pos < len - 1
    /\ Spaces(Pair(at_pos)) = {} \/ space(Pair(at_pos)) # 0
    /\ at_pos' = at_pos + IF Spaces(Pair(at_pos)) = {} THEN max ELSE space(Pair(at_pos))
    /\ UNCHANGED <<mk, results, matching>>

Compares ==
    /\ matching = "searching" /\ at_pos < len - 1
    /\ Spaces(Pair(at_pos)) # {} /\ space(Pair(at_pos)) = 0
    /\ LET k == BackMatch(at_pos, Pair(at_pos))
       IN  results' = IF k = 0 THEN results
                      ELSE Append(results, [res |-> at_pos - (Len(mk.keys[k]) - 2), key |-> k])
    /\ at_pos' = at_pos + 1
    /\ UNCHANGED <<mk, matching>>

MatchMainReturns ==
    /\ matching = "searching" /\ at_pos >= len - 1
    /\ matching' = "returned"
    /\ UNCHANGED <<mk, at_pos, results>>

MkNext == AddKey \/ MatchInit \/ Moves \/ Compares \/ MatchMainReturns
MkSpec == MkInit /\ [][MkNext]_mkVars
-------------------------------------------------------------------------------
(* Properties.                                                               *)

\* The keys of which the text has an occurrence that ends with the pair at site.
EndsAt(site) ==
    {i \in DOMAIN mk.keys : site + 2 >= Len(mk.keys[i]) /\ MatchByte(site, mk.keys[i])}
EndOf(r) == r.res + Len(mk.keys[r.key]) - 2

\* The steps jump over no occurrence: when the search has returned there is a result
\* for every place where a key ends in the text, and one only, and every result that
\* does not begin in front of the text is an occurrence of its key.
EndsFound ==
    /\ \A r \in Range(results) : r.res >= 0 => r.key \in EndsAt(EndOf(r))
    /\ \A i, j \in DOMAIN results : i < j => EndOf(results[i]) < EndOf(results[j])
    /\ (matching = "returned" /\ mk.keys # <<>>) =>
          {s \in 0..len - 2 : EndsAt(s) # {}} \subseteq {EndOf(r) : r \in Range(results)}
===============================================================================
