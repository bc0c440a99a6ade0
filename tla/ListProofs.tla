------------------------------ MODULE ListProofs ------------------------------
(****************************************************************************)
(* Proofs about the lists of list/mylist.h and the hash tables of hash/hash.c *)
(* and sfghash/sfghash.c: through every sequence of calls the pointers say    *)
(* what the lists and the tables hold, for any number of lists, nodes, keys   *)
(* and records.                                                              *)
(****************************************************************************)
EXTENDS HashList, AddrHash, LinkedList, SfgHash, WellFoundedInduction, FiniteSetTheorems,
        SequenceTheorems, TLAPS

-------------------------------------------------------------------------------
(* Sequences with an element more or less.                                   *)

LEMMA Removing ==
    ASSUME NEW S, NEW s \in Seq(S), NEW i \in 1..Len(s)
    PROVE  /\ RemoveAt(s, i) \in Seq(S) /\ Len(RemoveAt(s, i)) = Len(s) - 1
           /\ \A j \in 1..Len(s) - 1 : RemoveAt(s, i)[j] = IF j < i THEN s[j] ELSE s[j + 1]
<1>1. Len(s) \in Nat
  OBVIOUS
<1> DEFINE a == SubSeq(s, 1, i - 1)
           b == SubSeq(s, i + 1, Len(s))
<1>2. a \in Seq(S) /\ Len(a) = i - 1 /\ \A j \in 1..i - 1 : a[j] = s[j]
  <2>1. \A j \in 1..i - 1 : s[j] \in S
    BY <1>1
  <2>2. a \in Seq(S) /\ Len(a) = (IF 1 <= i - 1 THEN i - 1 - 1 + 1 ELSE 0) /\ \A j \in 1..i - 1 - 1 + 1 : a[j] = s[1 + j - 1]
    BY <1>1, <2>1, SubSeqProperties
  <2> HIDE DEF a
  <2> QED BY <1>1, <2>2
<1>3. b \in Seq(S) /\ Len(b) = Len(s) - i /\ \A j \in 1..Len(s) - i : b[j] = s[i + j]
  <2>1. \A j \in i + 1..Len(s) : s[j] \in S
    BY <1>1
  <2>2. b \in Seq(S) /\ Len(b) = (IF i + 1 <= Len(s) THEN Len(s) - (i + 1) + 1 ELSE 0)
        /\ \A j \in 1..Len(s) - (i + 1) + 1 : b[j] = s[i + 1 + j - 1]
    BY <1>1, <2>1, SubSeqProperties
  <2> HIDE DEF b
  <2> QED BY <1>1, <2>2
<1>4. RemoveAt(s, i) = a \o b
  BY DEF RemoveAt
<1> HIDE DEF a, b
<1>5. a \o b \in Seq(S) /\ Len(a \o b) = Len(a) + Len(b)
      /\ \A j \in 1..Len(a) + Len(b) : (a \o b)[j] = IF j <= Len(a) THEN a[j] ELSE b[j - Len(a)]
  BY <1>2, <1>3, ConcatProperties
<1>6. ASSUME NEW j \in 1..Len(s) - 1 PROVE (a \o b)[j] = IF j < i THEN s[j] ELSE s[j + 1]
  <2>1. Len(a) + Len(b) = Len(s) - 1
    BY <1>1, <1>2, <1>3
  <2>2. CASE j < i
    BY <1>1, <1>2, <1>5, <2>1, <2>2
  <2>3. CASE ~(j < i)
    <3>1. (a \o b)[j] = b[j - (i - 1)] /\ j - (i - 1) \in 1..Len(s) - i /\ i + (j - (i - 1)) = j + 1
      BY <1>1, <1>2, <1>5, <2>1, <2>3
    <3> QED BY <1>3, <2>3, <3>1
  <2> QED BY <2>2, <2>3
<1> QED BY <1>1, <1>2, <1>3, <1>4, <1>5, <1>6

LEMMA Inserting ==
    ASSUME NEW S, NEW s \in Seq(S), NEW i \in 1..Len(s) + 1, NEW e \in S
    PROVE  /\ InsertAt(s, i, e) \in Seq(S) /\ Len(InsertAt(s, i, e)) = Len(s) + 1
           /\ \A j \in 1..Len(s) + 1 : InsertAt(s, i, e)[j] = IF j < i THEN s[j] ELSE IF j = i THEN e ELSE s[j - 1]
<1>1. Len(s) \in Nat /\ i \in Nat
  OBVIOUS
<1> DEFINE a == SubSeq(s, 1, i - 1)
           m == a \o <<e>>
           b == SubSeq(s, i, Len(s))
<1>2. a \in Seq(S) /\ Len(a) = i - 1 /\ \A j \in 1..i - 1 : a[j] = s[j]
  <2>1. \A j \in 1..i - 1 : s[j] \in S
    BY <1>1
  <2>2. a \in Seq(S) /\ Len(a) = (IF 1 <= i - 1 THEN i - 1 - 1 + 1 ELSE 0) /\ \A j \in 1..i - 1 - 1 + 1 : a[j] = s[1 + j - 1]
    BY <1>1, <2>1, SubSeqProperties
  <2> HIDE DEF a
  <2> QED BY <1>1, <2>2
<1>3. b \in Seq(S) /\ Len(b) = Len(s) - i + 1 /\ \A j \in 1..Len(s) - i + 1 : b[j] = s[i + j - 1]
  <2>1. \A j \in i..Len(s) : s[j] \in S
    BY <1>1
  <2>2. b \in Seq(S) /\ Len(b) = (IF i <= Len(s) THEN Len(s) - i + 1 ELSE 0)
        /\ \A j \in 1..Len(s) - i + 1 : b[j] = s[i + j - 1]
    BY <1>1, <2>1, SubSeqProperties
  <2> HIDE DEF b
  <2> QED BY <1>1, <2>2
<1>4. InsertAt(s, i, e) = m \o b
  BY DEF InsertAt
<1>5. m \in Seq(S) /\ Len(m) = i /\ m[i] = e /\ \A j \in 1..i - 1 : m[j] = s[j]
  <2> HIDE DEF a
  <2>1. <<e>> \in Seq(S) /\ Len(<<e>>) = 1 /\ <<e>>[1] = e
    OBVIOUS
  <2>2. m \in Seq(S) /\ Len(m) = Len(a) + 1 /\ \A j \in 1..Len(a) + 1 : m[j] = IF j <= Len(a) THEN a[j] ELSE <<e>>[j - Len(a)]
    BY <1>2, <2>1, ConcatProperties
  <2> HIDE DEF m
  <2>3. m[i] = <<e>>[1]
    BY <1>1, <1>2, <2>2
  <2> QED BY <1>1, <1>2, <2>1, <2>2, <2>3
<1> HIDE DEF a, b, m
<1>6. m \o b \in Seq(S) /\ Len(m \o b) = Len(m) + Len(b)
      /\ \A j \in 1..Len(m) + Len(b) : (m \o b)[j] = IF j <= Len(m) THEN m[j] ELSE b[j - Len(m)]
  BY <1>3, <1>5, ConcatProperties
<1>7. Len(m) + Len(b) = Len(s) + 1
  BY <1>1, <1>3, <1>5
<1>8. ASSUME NEW j \in 1..Len(s) + 1 PROVE (m \o b)[j] = IF j < i THEN s[j] ELSE IF j = i THEN e ELSE s[j - 1]
  <2>1. CASE j <= i
    <3>1. (m \o b)[j] = m[j]
      BY <1>1, <1>5, <1>6, <1>7, <2>1
    <3>2. CASE j = i
      BY <1>1, <1>5, <3>1, <3>2
    <3>3. CASE j \in 1..i - 1
      BY <1>1, <1>5, <3>1, <3>3
    <3>4. j = i \/ j \in 1..i - 1
      BY <1>1, <2>1
    <3> QED BY <3>2, <3>3, <3>4
  <2>2. CASE ~(j <= i)
    <3>1. (m \o b)[j] = b[j - i] /\ j - i \in 1..Len(s) - i + 1 /\ i + (j - i) - 1 = j - 1
      BY <1>1, <1>5, <1>6, <1>7, <2>2
    <3>2. b[j - i] = s[j - 1]
      BY <1>3, <3>1
    <3> QED BY <1>1, <2>2, <3>1, <3>2
  <2> QED BY <2>1, <2>2
<1> QED BY <1>4, <1>6, <1>7, <1>8

\* An element that a sequence has once is found where it is.
LEMMA PlaceIs ==
    ASSUME NEW s, NEW i \in DOMAIN s, \A j \in DOMAIN s : s[j] = s[i] => j = i
    PROVE  PlaceOf(s, s[i]) = i
BY DEF PlaceOf

-------------------------------------------------------------------------------
(* The list with a single pointer head.                                      *)

\* What a list leads through: its head, its nodes and NULL.
Spot(h, i) == IF i = 0 THEN h ELSE IF i <= Len(buckets[h]) THEN buckets[h][i] ELSE HNull

HType ==
    /\ place \in [Bucket \cup HNode -> HNode \cup {HNull, HPoison}]
    /\ pprev \in [HNode -> Bucket \cup HNode \cup {HNull, HPoison}]
    /\ buckets \in [Bucket -> Seq(HNode)]

\* A node is on one list, once.
HDistinct ==
    \A g, h \in Bucket : \A i \in 1..Len(buckets[g]), j \in 1..Len(buckets[h]) :
        buckets[g][i] = buckets[h][j] => g = h /\ i = j

Chained ==
    \A h \in Bucket : \A i \in 0..Len(buckets[h]) :
        place[Spot(h, i)] = Spot(h, i + 1) /\ (i < Len(buckets[h]) => pprev[Spot(h, i + 1)] = Spot(h, i))

HLists == HType /\ HDistinct /\ Chained

\* A loop is at a node of a list, and what it has not visited is the rest of that list.
Walking(h, k) ==
    /\ walk.pos = Spot(h, k + 1) /\ k <= Len(buckets[h])
    /\ Len(walk.seen) <= Len(walk.todo)
    /\ \A m \in 1..Len(walk.seen) : walk.seen[m] = walk.todo[m]
    /\ Len(buckets[h]) - k = Len(walk.todo) - Len(walk.seen)
    /\ \A m \in 1..Len(buckets[h]) - k : buckets[h][k + m] = walk.todo[Len(walk.seen) + m]
WalkType == [on : {TRUE}, safe : BOOLEAN, pos : HNode \cup {HNull}, seen : Seq(HNode), todo : Seq(HNode)]

HInv == HLists /\ (walk = NoWalk \/ (walk \in WalkType /\ \E h \in Bucket, k \in Nat : Walking(h, k)))

LEMMA Spots ==
    ASSUME HType, HDistinct
    PROVE  /\ \A h \in Bucket : Len(buckets[h]) \in Nat /\ Spot(h, 0) = h /\ Spot(h, Len(buckets[h]) + 1) = HNull
           /\ \A h \in Bucket : \A i \in 1..Len(buckets[h]) : Spot(h, i) = buckets[h][i] /\ Spot(h, i) \in HNode
           /\ \A g, h \in Bucket : \A i \in 0..Len(buckets[g]), j \in 0..Len(buckets[h]) :
                  Spot(g, i) = Spot(h, j) => g = h /\ i = j
           /\ \A n : n \in Hashed <=> \E h \in Bucket : \E i \in 1..Len(buckets[h]) : n = Spot(h, i)
<1>1. \A h \in Bucket : buckets[h] \in Seq(HNode) /\ Len(buckets[h]) \in Nat
  BY DEF HType
<1>2. \A h \in Bucket : Spot(h, 0) = h /\ Spot(h, Len(buckets[h]) + 1) = HNull
  BY <1>1 DEF Spot
<1>3. \A h \in Bucket : \A i \in 1..Len(buckets[h]) : Spot(h, i) = buckets[h][i] /\ Spot(h, i) \in HNode
  BY <1>1 DEF Spot
<1>4. ASSUME NEW g \in Bucket, NEW h \in Bucket, NEW i \in 0..Len(buckets[g]), NEW j \in 0..Len(buckets[h]), Spot(g, i) = Spot(h, j)
      PROVE  g = h /\ i = j
  <2>1. (i = 0 \/ i \in 1..Len(buckets[g])) /\ (j = 0 \/ j \in 1..Len(buckets[h]))
    BY <1>1
  <2>2. CASE i = 0
    BY <1>2, <1>3, <1>4, <2>1, <2>2, HashListAssumption
  <2>3. CASE j = 0
    BY <1>2, <1>3, <1>4, <2>1, <2>3, HashListAssumption
  <2>4. CASE i \in 1..Len(buckets[g]) /\ j \in 1..Len(buckets[h])
    BY <1>3, <1>4, <2>4 DEF HDistinct
  <2> QED BY <2>1, <2>2, <2>3, <2>4
<1>5. ASSUME NEW n PROVE n \in Hashed <=> \E h \in Bucket : \E i \in 1..Len(buckets[h]) : n = Spot(h, i)
  <2>1. \A h \in Bucket : DOMAIN buckets[h] = 1..Len(buckets[h])
    BY <1>1
  <2>2. n \in Hashed <=> \E h \in Bucket : \E i \in 1..Len(buckets[h]) : n = buckets[h][i]
    BY <2>1 DEF Hashed, In, Range
  <2> QED BY <1>3, <2>2
<1> QED BY <1>1, <1>2, <1>3, <1>4, <1>5

LEMMA HInitially == HListInit => HInv
<1> SUFFICES ASSUME HListInit PROVE HInv
  OBVIOUS
<1>1. \A h \in Bucket : buckets[h] = <<>> /\ Len(buckets[h]) = 0 /\ place[h] = HNull
  BY DEF HListInit
<1>2. HType
  BY DEF HListInit, HType
<1>3. HDistinct
  BY <1>1 DEF HDistinct
<1>4. Chained
  BY <1>1 DEF Chained, Spot
<1> QED BY <1>2, <1>3, <1>4 DEF HListInit, HInv, HLists

\* A node is put in behind the i-th spot of a list.
PutIn(h, i, n) ==
    /\ place' = [x \in Bucket \cup HNode |->
                    IF x = n THEN Spot(h, i + 1) ELSE IF x = Spot(h, i) THEN n ELSE place[x]]
    /\ pprev' = [y \in HNode |->
                    IF y = n THEN Spot(h, i) ELSE IF y = Spot(h, i + 1) THEN n ELSE pprev[y]]
    /\ buckets' = [buckets EXCEPT ![h] = InsertAt(buckets[h], i + 1, n)]

LEMMA HInsertion ==
    ASSUME HLists, NEW h \in Bucket, NEW i \in 0..Len(buckets[h]), NEW n \in HNode, n \notin Hashed, PutIn(h, i, n)
    PROVE  HLists'
<1> DEFINE L == Len(buckets[h])
           B == buckets'
           Place == place'
           Pprev == pprev'
<1>0. /\ \A x \in Bucket \cup HNode :
             Place[x] = IF x = n THEN Spot(h, i + 1) ELSE IF x = Spot(h, i) THEN n ELSE place[x]
      /\ \A y \in HNode :
             Pprev[y] = IF y = n THEN Spot(h, i) ELSE IF y = Spot(h, i + 1) THEN n ELSE pprev[y]
      /\ B = [buckets EXCEPT ![h] = InsertAt(buckets[h], i + 1, n)]
  BY DEF PutIn
<1>1. HType /\ HDistinct /\ Chained
  BY DEF HLists
<1>2. /\ L \in Nat /\ i \in Nat /\ i <= L
      /\ \A g \in Bucket : Len(buckets[g]) \in Nat /\ buckets[g] \in Seq(HNode)
  BY <1>1 DEF HType
<1>3. /\ B[h] \in Seq(HNode) /\ Len(B[h]) = L + 1
      /\ \A j \in 1..L + 1 : B[h][j] = IF j < i + 1 THEN buckets[h][j] ELSE IF j = i + 1 THEN n ELSE buckets[h][j - 1]
  <2>1. i + 1 \in 1..L + 1 /\ buckets[h] \in Seq(HNode) /\ B[h] = InsertAt(buckets[h], i + 1, n)
    BY <1>0, <1>1, <1>2 DEF HType
  <2> HIDE DEF B
  <2> DEFINE s == buckets[h]
             k == i + 1
  <2>2. s \in Seq(HNode) /\ k \in 1..Len(s) + 1
    BY <2>1
  <2> HIDE DEF k, L, s
  <2>3. InsertAt(s, k, n) \in Seq(HNode) /\ Len(InsertAt(s, k, n)) = Len(s) + 1
    BY <2>2, Inserting
  <2>4. \A j \in 1..Len(s) + 1 : InsertAt(s, k, n)[j] = IF j < k THEN s[j] ELSE IF j = k THEN n ELSE s[j - 1]
    BY <2>2, Inserting
  <2> QED BY <2>1, <2>3, <2>4 DEF k, L, s
<1>4. \A g \in Bucket : g # h => B[g] = buckets[g]
  BY <1>0, <1>1 DEF HType
<1>5. /\ Spot(h, 0) = h /\ Spot(h, L + 1) = HNull
      /\ \A j \in 1..L : Spot(h, j) = buckets[h][j] /\ Spot(h, j) \in HNode /\ Spot(h, j) # n
      /\ \A g \in Bucket : \A j \in 1..Len(buckets[g]) : buckets[g][j] # n /\ Spot(g, j) = buckets[g][j] /\ Spot(g, j) \in HNode
      /\ \A g \in Bucket : Spot(g, 0) = g /\ Spot(g, Len(buckets[g]) + 1) = HNull
  BY <1>1, Spots
<1>6. Spot(h, i) \in Bucket \cup HNode /\ Spot(h, i + 1) \in HNode \cup {HNull}
  <2>1. i = 0 \/ i \in 1..L
    BY <1>2
  <2>2. i + 1 = L + 1 \/ i + 1 \in 1..L
    BY <1>2
  <2> HIDE DEF L
  <2> QED BY <1>5, <2>1, <2>2
<1>7. HType'
  <2>1. \A x \in Bucket \cup HNode : place'[x] \in HNode \cup {HNull, HPoison}
    BY <1>0, <1>1, <1>6 DEF HType
  <2>2. \A y \in HNode : pprev'[y] \in Bucket \cup HNode \cup {HNull, HPoison}
    BY <1>0, <1>1, <1>6 DEF HType
  <2>3. buckets' \in [Bucket -> Seq(HNode)]
    BY <1>0, <1>1, <1>3 DEF HType
  <2>4. place' \in [Bucket \cup HNode -> HNode \cup {HNull, HPoison}]
    BY <2>1 DEF PutIn
  <2>5. pprev' \in [HNode -> Bucket \cup HNode \cup {HNull, HPoison}]
    BY <2>2 DEF PutIn
  <2> QED BY <2>3, <2>4, <2>5 DEF HType
<1>8. HDistinct'
  <2> SUFFICES ASSUME NEW f \in Bucket, NEW g \in Bucket, NEW j \in 1..Len(B[f]), NEW k \in 1..Len(B[g]), B[f][j] = B[g][k]
               PROVE  f = g /\ j = k
    BY DEF HDistinct
  <2> HIDE DEF B, L
  \* Where an element comes from.
  <2>1. \A q \in 1..L + 1 : \/ q = i + 1 /\ B[h][q] = n
                            \/ \E r \in 1..L : B[h][q] = buckets[h][r] /\ q = IF r <= i THEN r ELSE r + 1
    <3> SUFFICES ASSUME NEW q \in 1..L + 1, q # i + 1
                 PROVE  \E r \in 1..L : B[h][q] = buckets[h][r] /\ q = IF r <= i THEN r ELSE r + 1
      BY <1>2, <1>3
    <3>1. CASE q < i + 1
      <4>1. q \in 1..L /\ q <= i /\ B[h][q] = buckets[h][q]
        BY <1>2, <1>3, <3>1
      <4> QED BY <4>1
    <3>2. CASE q > i + 1
      <4>1. q - 1 \in 1..L /\ ~(q - 1 <= i) /\ B[h][q] = buckets[h][q - 1] /\ q = (q - 1) + 1
        BY <1>2, <1>3, <3>2
      <4> QED BY <4>1
    <3> QED BY <1>2, <3>1, <3>2
  <2>2. \A r \in 1..L : buckets[h][r] # n
    BY <1>5 DEF L
  <2>3. \A r, q \in 1..L : buckets[h][r] = buckets[h][q] => r = q
    BY <1>1 DEF HDistinct, L
  <2>4. CASE f = h /\ g = h
    <3>1. j \in 1..L + 1 /\ k \in 1..L + 1
      BY <1>3, <2>4
    <3> QED BY <2>1, <2>2, <2>3, <2>4, <3>1
  <2>5. ASSUME NEW x \in Bucket, x # h, NEW q \in 1..Len(B[x]), NEW r \in 1..L + 1 PROVE B[x][q] # B[h][r]
    <3>1. B[x] = buckets[x] /\ q \in 1..Len(buckets[x])
      BY <1>4, <2>5
    <3>2. \A y \in 1..L : buckets[x][q] # buckets[h][y]
      BY <1>1, <2>5, <3>1 DEF HDistinct, L
    <3> QED BY <1>5, <2>1, <3>1, <3>2
  <2>6. CASE f = h /\ g # h
    BY <1>3, <2>5, <2>6
  <2>7. CASE f # h /\ g = h
    BY <1>3, <2>5, <2>7
  <2>8. CASE f # h /\ g # h
    BY <1>1, <1>4, <2>8 DEF HDistinct
  <2> QED BY <2>4, <2>6, <2>7, <2>8
<1> DEFINE To(g, j) == IF j = 0 THEN g ELSE IF j <= Len(B[g]) THEN B[g][j] ELSE HNull
<1>9. \A g, j : Spot(g, j)' = To(g, j)
  BY DEF Spot
<1>10. \A g \in Bucket : g # h => \A j : To(g, j) = Spot(g, j)
  BY <1>4 DEF Spot
<1>11. /\ \A j \in 0..i : To(h, j) = Spot(h, j)
       /\ To(h, i + 1) = n
       /\ \A j \in i + 1..L + 1 : To(h, j + 1) = Spot(h, j)
  <2> HIDE DEF B
  <2>1. \A j \in 0..i : To(h, j) = Spot(h, j)
    <3> SUFFICES ASSUME NEW j \in 0..i PROVE To(h, j) = Spot(h, j)
      OBVIOUS
    <3>1. CASE j = 0
      BY <3>1 DEF Spot
    <3>2. CASE j # 0
      <4>1. j \in 1..L + 1 /\ j < i + 1 /\ j <= L /\ j <= Len(B[h])
        BY <1>2, <1>3, <3>2
      <4>2. B[h][j] = buckets[h][j]
        BY <1>3, <4>1
      <4>3. To(h, j) = B[h][j]
        BY <3>2, <4>1
      <4>4. Spot(h, j) = buckets[h][j]
        BY <3>2, <4>1 DEF Spot
      <4> QED BY <4>2, <4>3, <4>4
    <3> QED BY <3>1, <3>2
  <2>2. To(h, i + 1) = n
    BY <1>2, <1>3
  <2>3. ASSUME NEW j \in i + 1..L + 1 PROVE To(h, j + 1) = Spot(h, j)
    <3>1. CASE j = L + 1
      BY <1>2, <1>3, <3>1 DEF Spot
    <3>2. CASE j <= L
      <4>1. j + 1 \in 1..L + 1 /\ ~(j + 1 < i + 1) /\ j + 1 # i + 1 /\ j + 1 - 1 = j
        BY <1>2, <3>2
      <4>2. B[h][j + 1] = buckets[h][j]
        BY <1>3, <4>1
      <4> QED BY <1>2, <1>3, <3>2, <4>1, <4>2 DEF Spot
    <3>3. j = L + 1 \/ j <= L
      BY <1>2
    <3> QED BY <3>1, <3>2, <3>3
  <2> QED BY <2>1, <2>2, <2>3
<1> HIDE DEF To, B
<1>12. ASSUME NEW g \in Bucket, NEW j \in 0..Len(B[g])
       PROVE  Place[To(g, j)] = To(g, j + 1) /\ (j < Len(B[g]) => Pprev[To(g, j + 1)] = To(g, j))
  \* What is kept of the list.
  <2>1. ASSUME NEW f \in Bucket, NEW k \in 0..Len(buckets[f]), ~(f = h /\ k = i)
        PROVE  Place[Spot(f, k)] = Spot(f, k + 1) /\ (k < Len(buckets[f]) => Pprev[Spot(f, k + 1)] = Spot(f, k))
    <3>1. Spot(f, k) \in Bucket \cup HNode /\ Spot(f, k) # n /\ Spot(f, k) # Spot(h, i)
      <4>1. k = 0 \/ k \in 1..Len(buckets[f])
        BY <1>2
      <4>2. Spot(f, k) \in Bucket \cup HNode /\ Spot(f, k) # n
        <5>1. CASE k = 0
          BY <1>5, <5>1, HashListAssumption
        <5>2. CASE k \in 1..Len(buckets[f])
          BY <1>5, <5>2
        <5> QED BY <4>1, <5>1, <5>2
      <4>3. Spot(f, k) # Spot(h, i)
        BY <1>1, <2>1, Spots
      <4> QED BY <4>2, <4>3
    <3>2. Place[Spot(f, k)] = Spot(f, k + 1)
      BY <1>0, <1>1, <3>1 DEF Chained
    <3>3. ASSUME k < Len(buckets[f]) PROVE Pprev[Spot(f, k + 1)] = Spot(f, k)
      <4>1. k + 1 \in 1..Len(buckets[f]) /\ k + 1 \in 0..Len(buckets[f])
        BY <1>2, <3>3
      <4>2. Spot(f, k + 1) \in HNode /\ Spot(f, k + 1) # n
        BY <1>5, <4>1
      <4>3. Spot(f, k + 1) # Spot(h, i + 1)
        <5>1. CASE i = L
          <6>1. Spot(h, i + 1) = HNull
            BY <1>5, <5>1
          <6> QED BY <4>2, <6>1, HashListAssumption DEF HNull
        <5>2. CASE i < L
          <6>1. i + 1 \in 0..Len(buckets[h]) /\ (f = h => k + 1 # i + 1)
            BY <1>2, <2>1, <5>2
          <6> QED BY <1>1, <4>1, <6>1, Spots
        <5> QED BY <1>2, <5>1, <5>2
      <4> QED BY <1>0, <1>1, <3>3, <4>2, <4>3 DEF Chained
    <3> QED BY <3>2, <3>3
  <2>2. CASE g # h
    <3>1. B[g] = buckets[g] /\ To(g, j) = Spot(g, j) /\ To(g, j + 1) = Spot(g, j + 1)
      BY <1>4, <1>10, <2>2 DEF B
    <3> QED BY <2>1, <2>2, <3>1
  <2>3. CASE g = h /\ j < i
    <3>1. j \in 0..i /\ j + 1 \in 0..i /\ j \in 0..L /\ j # i /\ j < L
      BY <1>2, <1>3, <2>3
    <3>2. To(h, j) = Spot(h, j) /\ To(h, j + 1) = Spot(h, j + 1)
      BY <1>11, <3>1
    <3> QED BY <2>1, <2>3, <3>1, <3>2
  <2>4. CASE g = h /\ j = i
    <3>1. To(h, i) = Spot(h, i) /\ To(h, i + 1) = n
      BY <1>2, <1>11
    <3>2. Spot(h, i) # n
      <4>1. i = 0 \/ i \in 1..L
        BY <1>2
      <4> QED BY <1>5, <4>1, HashListAssumption
    <3>3. Place[Spot(h, i)] = n /\ Pprev[n] = Spot(h, i)
      BY <1>0, <1>6, <3>2
    <3> QED BY <2>4, <3>1, <3>3
  <2>5. CASE g = h /\ j = i + 1
    <3>1. To(h, i + 1) = n /\ To(h, i + 1 + 1) = Spot(h, i + 1)
      <4>1. i + 1 \in i + 1..L + 1
        BY <1>2
      <4> QED BY <1>11, <4>1
    <3>2. Place[n] = Spot(h, i + 1)
      BY <1>0
    <3>3. ASSUME j < Len(B[h]) PROVE Pprev[Spot(h, i + 1)] = n
      <4>1. i + 1 \in 1..L
        BY <1>2, <1>3, <2>5, <3>3
      <4> QED BY <1>0, <1>5, <4>1
    <3> QED BY <2>5, <3>1, <3>2, <3>3
  <2>6. CASE g = h /\ j > i + 1
    <3> DEFINE k == j - 1
    <3>1. k \in i + 1..L + 1 /\ k + 1 \in i + 1..L + 1 /\ j = k + 1 /\ k \in 0..L /\ k # i /\ (j < Len(B[h]) => k < L)
      BY <1>2, <1>3, <2>6
    <3> HIDE DEF k
    <3>2. To(h, k + 1) = Spot(h, k) /\ To(h, k + 1 + 1) = Spot(h, k + 1)
      BY <1>11, <3>1
    <3> QED BY <2>1, <2>6, <3>1, <3>2
  <2>7. j \in Nat
    OBVIOUS
  <2> QED BY <1>2, <2>2, <2>3, <2>4, <2>5, <2>6, <2>7
<1>13. Chained'
  BY <1>9, <1>12 DEF Chained, B
<1> QED BY <1>7, <1>8, <1>13 DEF HLists

\* The node of the i-th spot of a list is taken out.
TakenOut(h, i, v) ==
    /\ place' = [x \in Bucket \cup HNode |->
                    IF x = Spot(h, i) THEN v ELSE IF x = Spot(h, i - 1) THEN Spot(h, i + 1) ELSE place[x]]
    /\ pprev' = [y \in HNode |->
                    IF y = Spot(h, i) THEN v ELSE IF y = Spot(h, i + 1) THEN Spot(h, i - 1) ELSE pprev[y]]
    /\ buckets' = [buckets EXCEPT ![h] = RemoveAt(buckets[h], i)]

LEMMA HRemoval ==
    ASSUME HLists, NEW h \in Bucket, NEW i \in 1..Len(buckets[h]), NEW v \in {HNull, HPoison}, TakenOut(h, i, v)
    PROVE  HLists'
<1> DEFINE L == Len(buckets[h])
           B == buckets'
           Place == place'
           Pprev == pprev'
<1>0. /\ \A x \in Bucket \cup HNode :
             Place[x] = IF x = Spot(h, i) THEN v ELSE IF x = Spot(h, i - 1) THEN Spot(h, i + 1) ELSE place[x]
      /\ \A y \in HNode :
             Pprev[y] = IF y = Spot(h, i) THEN v ELSE IF y = Spot(h, i + 1) THEN Spot(h, i - 1) ELSE pprev[y]
      /\ B = [buckets EXCEPT ![h] = RemoveAt(buckets[h], i)]
  BY DEF TakenOut
<1>1. HType /\ HDistinct /\ Chained
  BY DEF HLists
<1>2. /\ L \in Nat /\ i \in Nat /\ i <= L /\ i - 1 \in Nat /\ i - 1 \in 0..L /\ i \in 0..L
      /\ \A g \in Bucket : Len(buckets[g]) \in Nat /\ buckets[g] \in Seq(HNode)
  BY <1>1 DEF HType
<1>3. /\ B[h] \in Seq(HNode) /\ Len(B[h]) = L - 1
      /\ \A j \in 1..L - 1 : B[h][j] = IF j < i THEN buckets[h][j] ELSE buckets[h][j + 1]
  <2>1. buckets[h] \in Seq(HNode) /\ B[h] = RemoveAt(buckets[h], i)
    BY <1>0, <1>1, <1>2 DEF HType
  <2> DEFINE s == buckets[h]
  <2>2. s \in Seq(HNode) /\ i \in 1..Len(s)
    BY <2>1
  <2> HIDE DEF B, L, s
  <2>3. RemoveAt(s, i) \in Seq(HNode) /\ Len(RemoveAt(s, i)) = Len(s) - 1
    BY <2>2, Removing
  <2>4. \A j \in 1..Len(s) - 1 : RemoveAt(s, i)[j] = IF j < i THEN s[j] ELSE s[j + 1]
    BY <2>2, Removing
  <2> QED BY <2>1, <2>3, <2>4 DEF L, s
<1>4. \A g \in Bucket : g # h => B[g] = buckets[g]
  BY <1>0, <1>1 DEF HType
<1>5. /\ \A g \in Bucket : \A j \in 1..Len(buckets[g]) : Spot(g, j) = buckets[g][j] /\ Spot(g, j) \in HNode
      /\ \A g \in Bucket : Spot(g, 0) = g /\ Spot(g, Len(buckets[g]) + 1) = HNull
  BY <1>1, Spots
<1>6. Spot(h, i - 1) \in Bucket \cup HNode /\ Spot(h, i) \in HNode /\ Spot(h, i + 1) \in HNode \cup {HNull}
  <2>1. i - 1 = 0 \/ i - 1 \in 1..L
    BY <1>2
  <2>2. i + 1 = L + 1 \/ i + 1 \in 1..L
    BY <1>2
  <2> QED BY <1>5, <2>1, <2>2
<1>7. HType'
  <2>1. \A x \in Bucket \cup HNode : place'[x] \in HNode \cup {HNull, HPoison}
    BY <1>0, <1>1, <1>6 DEF HType
  <2>2. \A y \in HNode : pprev'[y] \in Bucket \cup HNode \cup {HNull, HPoison}
    BY <1>0, <1>1, <1>6 DEF HType
  <2>3. buckets' \in [Bucket -> Seq(HNode)]
    BY <1>0, <1>1, <1>3 DEF HType
  <2>4. place' \in [Bucket \cup HNode -> HNode \cup {HNull, HPoison}]
    BY <2>1 DEF TakenOut
  <2>5. pprev' \in [HNode -> Bucket \cup HNode \cup {HNull, HPoison}]
    BY <2>2 DEF TakenOut
  <2> QED BY <2>3, <2>4, <2>5 DEF HType
<1>8. HDistinct'
  <2> SUFFICES ASSUME NEW f \in Bucket, NEW g \in Bucket, NEW j \in 1..Len(B[f]), NEW k \in 1..Len(B[g]), B[f][j] = B[g][k]
               PROVE  f = g /\ j = k
    BY DEF HDistinct
  <2> HIDE DEF B, L
  \* Where an element comes from.
  <2>1. \A q \in 1..L - 1 : \E r \in 1..L : B[h][q] = buckets[h][r] /\ q = IF r < i THEN r ELSE r - 1
    <3> SUFFICES ASSUME NEW q \in 1..L - 1
                 PROVE  \E r \in 1..L : B[h][q] = buckets[h][r] /\ q = IF r < i THEN r ELSE r - 1
      OBVIOUS
    <3>1. CASE q < i
      <4>1. q \in 1..L /\ B[h][q] = buckets[h][q]
        BY <1>2, <1>3, <3>1
      <4> QED BY <3>1, <4>1
    <3>2. CASE ~(q < i)
      <4>1. q + 1 \in 1..L /\ ~(q + 1 < i) /\ B[h][q] = buckets[h][q + 1] /\ q = (q + 1) - 1
        BY <1>2, <1>3, <3>2
      <4> QED BY <4>1
    <3> QED BY <3>1, <3>2
  <2>3. \A r, q \in 1..L : buckets[h][r] = buckets[h][q] => r = q
    BY <1>1 DEF HDistinct, L
  <2>4. CASE f = h /\ g = h
    <3>1. j \in 1..L - 1 /\ k \in 1..L - 1
      BY <1>3, <2>4
    <3> QED BY <2>1, <2>3, <2>4, <3>1
  <2>5. ASSUME NEW x \in Bucket, x # h, NEW q \in 1..Len(B[x]), NEW r \in 1..L - 1 PROVE B[x][q] # B[h][r]
    <3>1. B[x] = buckets[x] /\ q \in 1..Len(buckets[x])
      BY <1>4, <2>5
    <3>2. \A y \in 1..L : buckets[x][q] # buckets[h][y]
      BY <1>1, <2>5, <3>1 DEF HDistinct, L
    <3> QED BY <2>1, <3>1, <3>2
  <2>6. CASE f = h /\ g # h
    BY <1>3, <2>5, <2>6
  <2>7. CASE f # h /\ g = h
    BY <1>3, <2>5, <2>7
  <2>8. CASE f # h /\ g # h
    BY <1>1, <1>4, <2>8 DEF HDistinct
  <2> QED BY <2>4, <2>6, <2>7, <2>8
<1> DEFINE To(g, j) == IF j = 0 THEN g ELSE IF j <= Len(B[g]) THEN B[g][j] ELSE HNull
<1>9. \A g, j : Spot(g, j)' = To(g, j)
  BY DEF Spot
<1>10. \A g \in Bucket : g # h => \A j : To(g, j) = Spot(g, j)
  BY <1>4 DEF Spot
<1>11. /\ \A j \in 0..i - 1 : To(h, j) = Spot(h, j)
       /\ \A j \in i..L : To(h, j) = Spot(h, j + 1)
  <2> HIDE DEF B
  <2>1. \A j \in 0..i - 1 : To(h, j) = Spot(h, j)
    BY <1>2, <1>3 DEF Spot
  <2>2. ASSUME NEW j \in i..L PROVE To(h, j) = Spot(h, j + 1)
    <3>1. CASE j = L
      BY <1>2, <1>3, <3>1 DEF Spot
    <3>2. CASE j < L
      <4>1. j \in 1..L - 1 /\ ~(j < i) /\ j # 0 /\ j + 1 # 0 /\ j + 1 <= L /\ j <= L - 1
        BY <1>2, <3>2
      <4>2. B[h][j] = buckets[h][j + 1]
        BY <1>3, <4>1
      <4> QED BY <1>3, <4>1, <4>2 DEF Spot
    <3>3. j = L \/ j < L
      BY <1>2
    <3> QED BY <3>1, <3>2, <3>3
  <2> QED BY <2>1, <2>2
<1> HIDE DEF To, B
<1>12. ASSUME NEW g \in Bucket, NEW j \in 0..Len(B[g])
       PROVE  Place[To(g, j)] = To(g, j + 1) /\ (j < Len(B[g]) => Pprev[To(g, j + 1)] = To(g, j))
  \* What is kept of the list.
  <2>1. ASSUME NEW f \in Bucket, NEW k \in 0..Len(buckets[f]), ~(f = h /\ (k = i \/ k = i - 1))
        PROVE  Place[Spot(f, k)] = Spot(f, k + 1) /\ (k < Len(buckets[f]) => Pprev[Spot(f, k + 1)] = Spot(f, k))
    <3>1. Spot(f, k) \in Bucket \cup HNode /\ Spot(f, k) # Spot(h, i) /\ Spot(f, k) # Spot(h, i - 1)
      <4>1. k = 0 \/ k \in 1..Len(buckets[f])
        BY <1>2
      <4>2. Spot(f, k) \in Bucket \cup HNode
        BY <1>5, <4>1
      <4>3. Spot(f, k) # Spot(h, i)
        BY <1>1, <1>2, <2>1, Spots
      <4>4. Spot(f, k) # Spot(h, i - 1)
        BY <1>1, <1>2, <2>1, Spots
      <4> QED BY <4>2, <4>3, <4>4
    <3>2. Place[Spot(f, k)] = Spot(f, k + 1)
      BY <1>0, <1>1, <3>1 DEF Chained
    <3>3. ASSUME k < Len(buckets[f]) PROVE Pprev[Spot(f, k + 1)] = Spot(f, k)
      <4>1. k + 1 \in 1..Len(buckets[f]) /\ k + 1 \in 0..Len(buckets[f])
        BY <1>2, <3>3
      <4>2. Spot(f, k + 1) \in HNode
        BY <1>5, <4>1
      <4>3. Spot(f, k + 1) # Spot(h, i)
        <5>1. f = h => k + 1 # i
          BY <1>2, <2>1
        <5> QED BY <1>1, <1>2, <4>1, <5>1, Spots
      <4>4. Spot(f, k + 1) # Spot(h, i + 1)
        <5>1. CASE i = L
          <6>1. Spot(h, i + 1) = HNull
            BY <1>5, <5>1
          <6> QED BY <4>2, <6>1, HashListAssumption DEF HNull
        <5>2. CASE i < L
          <6>1. i + 1 \in 0..Len(buckets[h]) /\ (f = h => k + 1 # i + 1)
            BY <1>2, <2>1, <5>2
          <6> QED BY <1>1, <4>1, <6>1, Spots
        <5> QED BY <1>2, <5>1, <5>2
      <4> QED BY <1>0, <1>1, <3>3, <4>2, <4>3, <4>4 DEF Chained
    <3> QED BY <3>2, <3>3
  <2>2. CASE g # h
    <3>1. B[g] = buckets[g] /\ To(g, j) = Spot(g, j) /\ To(g, j + 1) = Spot(g, j + 1)
      BY <1>4, <1>10, <2>2 DEF B
    <3> QED BY <2>1, <2>2, <3>1
  <2>3. CASE g = h /\ j < i - 1
    <3>1. j \in 0..i - 1 /\ j + 1 \in 0..i - 1 /\ j \in 0..L /\ j # i /\ j # i - 1 /\ j < L
      BY <1>2, <1>3, <2>3
    <3>2. To(h, j) = Spot(h, j) /\ To(h, j + 1) = Spot(h, j + 1)
      BY <1>11, <3>1
    <3> QED BY <2>1, <2>3, <3>1, <3>2
  <2>4. CASE g = h /\ j = i - 1
    <3>1. To(h, i - 1) = Spot(h, i - 1) /\ To(h, i - 1 + 1) = Spot(h, i + 1)
      <4>1. i - 1 \in 0..i - 1 /\ i \in i..L /\ i - 1 + 1 = i
        BY <1>2
      <4> QED BY <1>11, <4>1
    <3>2. Spot(h, i - 1) # Spot(h, i)
      <4>1. i - 1 # i
        BY <1>2
      <4> QED BY <1>1, <1>2, <4>1, Spots
    <3>3. Place[Spot(h, i - 1)] = Spot(h, i + 1)
      BY <1>0, <1>6, <3>2
    <3>4. ASSUME j < Len(B[h]) PROVE Pprev[Spot(h, i + 1)] = Spot(h, i - 1)
      <4>1. i + 1 \in 1..L /\ i + 1 \in 0..L /\ i + 1 # i
        BY <1>2, <1>3, <2>4, <3>4
      <4>2. Spot(h, i + 1) \in HNode
        BY <1>5, <4>1
      <4>3. Spot(h, i + 1) # Spot(h, i)
        BY <1>1, <1>2, <4>1, Spots
      <4> QED BY <1>0, <4>2, <4>3
    <3> QED BY <2>4, <3>1, <3>3, <3>4
  <2>5. CASE g = h /\ j > i - 1
    <3>1. j \in i..L /\ j + 1 \in i..L /\ j + 1 \in 0..L /\ j + 1 # i /\ j + 1 # i - 1 /\ (j < Len(B[h]) => j + 1 < L)
      BY <1>2, <1>3, <2>5
    <3>2. To(h, j) = Spot(h, j + 1) /\ To(h, j + 1) = Spot(h, j + 1 + 1)
      BY <1>11, <3>1
    <3> QED BY <2>1, <2>5, <3>1, <3>2
  <2>6. j \in Nat
    OBVIOUS
  <2> QED BY <1>2, <2>2, <2>3, <2>4, <2>5, <2>6
<1>13. Chained'
  BY <1>9, <1>12 DEF Chained, B
<1> QED BY <1>7, <1>8, <1>13 DEF HLists

\* The spots before and behind a node, as the pointers give them.
LEMMA Around ==
    ASSUME HLists, NEW h \in Bucket, NEW i \in 1..Len(buckets[h])
    PROVE  /\ place[Spot(h, i)] = Spot(h, i + 1) /\ pprev[Spot(h, i)] = Spot(h, i - 1)
           /\ Spot(h, i) \in HNode /\ Spot(h, i - 1) \in Bucket \cup HNode /\ Spot(h, i + 1) \in HNode \cup {HNull}
           /\ Spot(h, i) # Spot(h, i - 1)
           /\ Spot(h, i) \in Hashed /\ In(h) \subseteq HNode /\ Spot(h, i) \in In(h)
           /\ PlaceOf(buckets[h], Spot(h, i)) = i
           /\ \A g \in Bucket : g # h => Spot(h, i) \notin In(g)
<1>1. HType /\ HDistinct /\ Chained
  BY DEF HLists
<1>2. /\ Len(buckets[h]) \in Nat /\ i \in Nat /\ i <= Len(buckets[h]) /\ i - 1 \in 0..Len(buckets[h]) /\ i \in 0..Len(buckets[h])
      /\ i - 1 + 1 = i /\ i - 1 < Len(buckets[h]) /\ i - 1 # i
  BY <1>1 DEF HType
<1>3. place[Spot(h, i)] = Spot(h, i + 1)
  BY <1>1, <1>2 DEF Chained
<1>4. pprev[Spot(h, i)] = Spot(h, i - 1)
  <2>1. i - 1 < Len(buckets[h]) => pprev[Spot(h, i - 1 + 1)] = Spot(h, i - 1)
    BY <1>1, <1>2 DEF Chained
  <2> QED BY <1>2, <2>1
<1>5. Spot(h, i) \in HNode /\ Spot(h, i) = buckets[h][i]
  BY <1>1, Spots
<1>6. Spot(h, i - 1) \in Bucket \cup HNode
  <2>1. i - 1 = 0 \/ i - 1 \in 1..Len(buckets[h])
    BY <1>2
  <2> QED BY <1>1, <2>1, Spots
<1>7. Spot(h, i + 1) \in HNode \cup {HNull}
  <2>1. i + 1 = Len(buckets[h]) + 1 \/ i + 1 \in 1..Len(buckets[h])
    BY <1>2
  <2> QED BY <1>1, <2>1, Spots
<1>8. Spot(h, i) # Spot(h, i - 1)
  BY <1>1, <1>2, Spots
<1>9. \A g \in Bucket : DOMAIN buckets[g] = 1..Len(buckets[g]) /\ buckets[g] \in Seq(HNode)
  BY <1>1 DEF HType
<1>10. Spot(h, i) \in In(h) /\ In(h) \subseteq HNode
  BY <1>5, <1>9 DEF In, Range
<1>11. Spot(h, i) \in Hashed
  BY <1>10 DEF Hashed
<1>12. PlaceOf(buckets[h], Spot(h, i)) = i
  <2>1. \A j \in DOMAIN buckets[h] : buckets[h][j] = buckets[h][i] => j = i
    BY <1>1, <1>9 DEF HDistinct
  <2> QED BY <1>5, <1>9, <2>1, PlaceIs
<1>13. ASSUME NEW g \in Bucket, g # h PROVE Spot(h, i) \notin In(g)
  BY <1>1, <1>5, <1>9, <1>13 DEF In, Range, HDistinct
<1> QED BY <1>3, <1>4, <1>5, <1>6, <1>7, <1>8, <1>10, <1>11, <1>12, <1>13

LEMMA FindNode ==
    ASSUME HLists, NEW n \in Hashed
    PROVE  \E h \in Bucket : \E i \in 1..Len(buckets[h]) : n = Spot(h, i)
BY Spots DEF HLists

LEMMA DelTakesOut ==
    ASSUME HLists, NEW h \in Bucket, NEW i \in 1..Len(buckets[h]), NEW v, DelAndSet(Spot(h, i), v)
    PROVE  TakenOut(h, i, v)
<1> DEFINE n == Spot(h, i)
           before == Spot(h, i - 1)
           behind == Spot(h, i + 1)
<1>1. /\ place[n] = behind /\ pprev[n] = before /\ n \in HNode /\ before \in Bucket \cup HNode
      /\ behind \in HNode \cup {HNull} /\ n # before /\ n \in In(h) /\ PlaceOf(buckets[h], n) = i
      /\ \A g \in Bucket : g # h => n \notin In(g)
  BY Around
<1>2. /\ place' = [place EXCEPT ![pprev[n]] = place[n], ![n] = v]
      /\ pprev' = [SetUnlessNull(pprev, place[n], pprev[n]) EXCEPT ![n] = v]
      /\ buckets' = Dropped(n)
  BY DEF DelAndSet
<1>3. /\ DOMAIN place = Bucket \cup HNode /\ place = [x \in Bucket \cup HNode |-> place[x]]
      /\ DOMAIN pprev = HNode /\ pprev = [y \in HNode |-> pprev[y]]
      /\ DOMAIN buckets = Bucket /\ buckets = [g \in Bucket |-> buckets[g]]
  BY DEF HLists, HType
<1> HIDE DEF n, before, behind
<1>4. place' = [x \in Bucket \cup HNode |-> IF x = n THEN v ELSE IF x = before THEN behind ELSE place[x]]
  BY <1>1, <1>2, <1>3
<1>5. pprev' = [y \in HNode |-> IF y = n THEN v ELSE IF y = behind THEN before ELSE pprev[y]]
  <2>1. HNull \notin HNode
    BY HashListAssumption DEF HNull
  <2>2. CASE behind = HNull
    BY <1>1, <1>2, <1>3, <2>1, <2>2 DEF SetUnlessNull
  <2>3. CASE behind # HNull
    <3>1. pprev' = [[pprev EXCEPT ![behind] = before] EXCEPT ![n] = v]
      BY <1>1, <1>2, <2>3 DEF SetUnlessNull
    <3> QED BY <1>1, <1>3, <2>3, <3>1
  <2> QED BY <2>2, <2>3
<1>6. buckets' = [buckets EXCEPT ![h] = RemoveAt(buckets[h], i)]
  <2>1. buckets' = [g \in Bucket |-> IF n \in In(g) THEN RemoveAt(buckets[g], PlaceOf(buckets[g], n)) ELSE buckets[g]]
    BY <1>2 DEF Dropped
  <2> QED BY <1>1, <1>3, <2>1
<1> QED BY <1>4, <1>5, <1>6 DEF TakenOut, n, before, behind

LEMMA AddHeadPutsIn ==
    ASSUME HLists, NEW n \in HNode, NEW h \in Bucket, hlist_add_head(n, h)
    PROVE  PutIn(h, 0, n) /\ n \notin Hashed /\ 0 \in 0..Len(buckets[h])
<1>1. HType /\ HDistinct /\ Chained /\ Len(buckets[h]) \in Nat /\ buckets[h] \in Seq(HNode)
  BY DEF HLists, HType
<1>2. Spot(h, 0) = h /\ place[h] = Spot(h, 0 + 1) /\ 0 \in 0..Len(buckets[h])
  <2>1. Spot(h, 0) = h /\ 0 \in 0..Len(buckets[h])
    BY <1>1 DEF Spot
  <2>2. place[Spot(h, 0)] = Spot(h, 0 + 1)
    BY <1>1, <2>1 DEF Chained
  <2> QED BY <2>1, <2>2
<1> DEFINE first == Spot(h, 0 + 1)
<1>3. first \in HNode \cup {HNull}
  <2>1. 0 + 1 \in 1..Len(buckets[h]) \/ 0 + 1 = Len(buckets[h]) + 1
    BY <1>1
  <2> QED BY <1>1, <2>1, Spots
<1>4. /\ DOMAIN place = Bucket \cup HNode /\ place = [x \in Bucket \cup HNode |-> place[x]]
      /\ DOMAIN pprev = HNode /\ pprev = [y \in HNode |-> pprev[y]]
  BY DEF HLists, HType
<1>5. n # h /\ HNull \notin HNode
  BY HashListAssumption DEF HNull
<1>6. /\ n \notin Hashed
      /\ place' = [place EXCEPT ![n] = first, ![h] = n]
      /\ pprev' = [SetUnlessNull(pprev, first, n) EXCEPT ![n] = h]
      /\ buckets' = [buckets EXCEPT ![h] = <<n>> \o @]
  BY <1>2 DEF hlist_add_head
<1> HIDE DEF first
<1>7. place' = [x \in Bucket \cup HNode |-> IF x = n THEN first ELSE IF x = h THEN n ELSE place[x]]
  BY <1>4, <1>5, <1>6
<1>8. pprev' = [y \in HNode |-> IF y = n THEN h ELSE IF y = first THEN n ELSE pprev[y]]
  <2>1. CASE first = HNull
    BY <1>4, <1>5, <1>6, <2>1 DEF SetUnlessNull
  <2>2. CASE first # HNull
    <3>1. pprev' = [[pprev EXCEPT ![first] = n] EXCEPT ![n] = h]
      BY <1>6, <2>2 DEF SetUnlessNull
    <3> QED BY <1>3, <1>4, <2>2, <3>1
  <2> QED BY <2>1, <2>2
<1>9. InsertAt(buckets[h], 0 + 1, n) = <<n>> \o buckets[h]
  <2>1. SubSeq(buckets[h], 1, 0) = <<>> /\ SubSeq(buckets[h], 1, Len(buckets[h])) = buckets[h]
    BY <1>1, SubSeqFull, SubSeqEmpty
  <2>2. <<>> \o <<n>> = <<n>>
    OBVIOUS
  <2> QED BY <2>1, <2>2 DEF InsertAt
<1>10. buckets' = [buckets EXCEPT ![h] = InsertAt(buckets[h], 0 + 1, n)]
  BY <1>6, <1>9
<1>11. /\ place' = [x \in Bucket \cup HNode |->
                       IF x = n THEN Spot(h, 0 + 1) ELSE IF x = Spot(h, 0) THEN n ELSE place[x]]
       /\ pprev' = [y \in HNode |->
                       IF y = n THEN Spot(h, 0) ELSE IF y = Spot(h, 0 + 1) THEN n ELSE pprev[y]]
  BY <1>2, <1>7, <1>8 DEF first
<1> QED BY <1>2, <1>6, <1>10, <1>11 DEF PutIn

LEMMA AddBeforePutsIn ==
    ASSUME HLists, NEW n \in HNode, NEW next, hlist_add_before(n, next)
    PROVE  \E h \in Bucket : \E i \in 0..Len(buckets[h]) : PutIn(h, i, n) /\ n \notin Hashed
<1>1. /\ n \notin Hashed /\ next \in Hashed
      /\ place' = [place EXCEPT ![n] = next, ![pprev[next]] = n]
      /\ pprev' = [pprev EXCEPT ![n] = pprev[next], ![next] = n]
      /\ buckets' = [h \in Bucket |-> Insert(buckets[h], next, n, 0)]
  BY DEF hlist_add_before
<1>2. PICK h \in Bucket : \E i \in 1..Len(buckets[h]) : next = Spot(h, i)
  BY <1>1, FindNode
<1>3. PICK i \in 1..Len(buckets[h]) : next = Spot(h, i)
  BY <1>2
<1>4. Len(buckets[h]) \in Nat
  BY DEF HLists, HType
<1> DEFINE k == i - 1
           before == Spot(h, k)
<1>5. k \in 0..Len(buckets[h]) /\ k + 1 = i
  BY <1>4
<1>6. /\ pprev[next] = before /\ next \in HNode /\ before \in Bucket \cup HNode
      /\ next \in In(h) /\ PlaceOf(buckets[h], next) = i
      /\ \A g \in Bucket : g # h => next \notin In(g)
  BY <1>3, Around
<1>7. /\ DOMAIN place = Bucket \cup HNode /\ place = [x \in Bucket \cup HNode |-> place[x]]
      /\ DOMAIN pprev = HNode /\ pprev = [y \in HNode |-> pprev[y]]
      /\ DOMAIN buckets = Bucket /\ buckets = [g \in Bucket |-> buckets[g]]
  BY DEF HLists, HType
<1>8. n # next /\ n # before
  <2>1. k = 0 \/ k \in 1..Len(buckets[h])
    BY <1>5
  <2>2. CASE k = 0
    <3>1. before = h
      BY <2>2 DEF Spot
    <3> QED BY <1>1, <3>1, HashListAssumption
  <2>3. CASE k \in 1..Len(buckets[h])
    BY <1>1, <2>3, Around
  <2> QED BY <1>1, <2>1, <2>2, <2>3
<1> HIDE DEF k, before
<1>9. place' = [x \in Bucket \cup HNode |-> IF x = n THEN next ELSE IF x = before THEN n ELSE place[x]]
  BY <1>1, <1>6, <1>7, <1>8
<1>10. pprev' = [y \in HNode |-> IF y = n THEN before ELSE IF y = next THEN n ELSE pprev[y]]
  BY <1>1, <1>6, <1>7, <1>8
<1>11. buckets' = [buckets EXCEPT ![h] = InsertAt(buckets[h], k + 1, n)]
  <2>1. next \in Range(buckets[h]) /\ \A g \in Bucket : g # h => next \notin Range(buckets[g])
    BY <1>6 DEF In
  <2>2. PlaceOf(buckets[h], next) + 0 = k + 1
    BY <1>5, <1>6
  <2>3. Insert(buckets[h], next, n, 0) = InsertAt(buckets[h], k + 1, n)
    BY <2>1, <2>2 DEF Insert
  <2>4. \A g \in Bucket : g # h => Insert(buckets[g], next, n, 0) = buckets[g]
    BY <2>1 DEF Insert
  <2> QED BY <1>1, <1>7, <2>3, <2>4
<1>12. PutIn(h, k, n)
  <2>1. next = Spot(h, k + 1)
    BY <1>3, <1>5
  <2> QED BY <1>9, <1>10, <1>11, <2>1 DEF PutIn, before
<1> QED BY <1>1, <1>5, <1>12

LEMMA AddAfterPutsIn ==
    ASSUME HLists, NEW n, NEW next \in HNode, hlist_add_after(n, next)
    PROVE  \E h \in Bucket : \E i \in 0..Len(buckets[h]) : PutIn(h, i, next) /\ next \notin Hashed
<1>1. /\ n \in Hashed /\ next \notin Hashed
      /\ place' = [place EXCEPT ![next] = place[n], ![n] = next]
      /\ pprev' = SetUnlessNull([pprev EXCEPT ![next] = n], place[n], next)
      /\ buckets' = [h \in Bucket |-> Insert(buckets[h], n, next, 1)]
  BY DEF hlist_add_after
<1>2. PICK h \in Bucket : \E i \in 1..Len(buckets[h]) : n = Spot(h, i)
  BY <1>1, FindNode
<1>3. PICK i \in 1..Len(buckets[h]) : n = Spot(h, i)
  BY <1>2
<1>4. Len(buckets[h]) \in Nat /\ i \in 0..Len(buckets[h])
  BY DEF HLists, HType
<1> DEFINE behind == Spot(h, i + 1)
<1>5. /\ place[n] = behind /\ n \in HNode /\ behind \in HNode \cup {HNull}
      /\ n \in In(h) /\ PlaceOf(buckets[h], n) = i
      /\ \A g \in Bucket : g # h => n \notin In(g)
  BY <1>3, Around
<1>6. /\ DOMAIN place = Bucket \cup HNode /\ place = [x \in Bucket \cup HNode |-> place[x]]
      /\ DOMAIN pprev = HNode /\ pprev = [y \in HNode |-> pprev[y]]
      /\ DOMAIN buckets = Bucket /\ buckets = [g \in Bucket |-> buckets[g]]
  BY DEF HLists, HType
<1>7. n # next /\ behind # next /\ HNull \notin HNode
  <2>1. HNull \notin HNode
    BY HashListAssumption DEF HNull
  <2>2. CASE i = Len(buckets[h])
    <3>1. behind = HNull
      BY <1>4, <2>2 DEF Spot
    <3> QED BY <1>1, <2>1, <3>1
  <2>3. CASE i < Len(buckets[h])
    <3>1. i + 1 \in 1..Len(buckets[h])
      BY <1>4, <2>3
    <3>2. behind \in Hashed
      BY <3>1, Around
    <3> QED BY <1>1, <2>1, <3>2
  <2> QED BY <1>4, <2>2, <2>3
<1> HIDE DEF behind
<1>8. place' = [x \in Bucket \cup HNode |-> IF x = next THEN behind ELSE IF x = n THEN next ELSE place[x]]
  BY <1>1, <1>5, <1>6, <1>7
<1>9. pprev' = [y \in HNode |-> IF y = next THEN n ELSE IF y = behind THEN next ELSE pprev[y]]
  <2>1. CASE behind = HNull
    <3>1. pprev' = [pprev EXCEPT ![next] = n]
      BY <1>1, <1>5, <2>1 DEF SetUnlessNull
    <3> QED BY <1>6, <1>7, <2>1, <3>1
  <2>2. CASE behind # HNull
    <3>1. pprev' = [[pprev EXCEPT ![next] = n] EXCEPT ![behind] = next]
      BY <1>1, <1>5, <2>2 DEF SetUnlessNull
    <3> QED BY <1>5, <1>6, <1>7, <2>2, <3>1
  <2> QED BY <2>1, <2>2
<1>10. buckets' = [buckets EXCEPT ![h] = InsertAt(buckets[h], i + 1, next)]
  <2>1. n \in Range(buckets[h]) /\ \A g \in Bucket : g # h => n \notin Range(buckets[g])
    BY <1>5 DEF In
  <2>2. Insert(buckets[h], n, next, 1) = InsertAt(buckets[h], i + 1, next)
    BY <1>5, <2>1 DEF Insert
  <2>3. \A g \in Bucket : g # h => Insert(buckets[g], n, next, 1) = buckets[g]
    BY <2>1 DEF Insert
  <2> QED BY <1>1, <1>6, <2>2, <2>3
<1>11. PutIn(h, i, next)
  BY <1>3, <1>8, <1>9, <1>10 DEF PutIn, behind
<1> QED BY <1>1, <1>4, <1>11

LEMMA HInitNode ==
    ASSUME HLists, NEW n \in HNode, INIT_HLIST_NODE(n)
    PROVE  HLists'
<1>1. /\ n \notin Hashed /\ buckets' = buckets
      /\ place' = [place EXCEPT ![n] = HNull] /\ pprev' = [pprev EXCEPT ![n] = HNull]
  BY DEF INIT_HLIST_NODE
<1>2. HType /\ HDistinct /\ Chained
  BY DEF HLists
<1>3. HType' /\ HDistinct'
  BY <1>1, <1>2 DEF HType, HDistinct
<1>4. \A h, i : Spot(h, i)' = Spot(h, i)
  BY <1>1 DEF Spot
<1>5. ASSUME NEW h \in Bucket, NEW i \in 0..Len(buckets[h])
      PROVE  place'[Spot(h, i)] = Spot(h, i + 1) /\ (i < Len(buckets[h]) => pprev'[Spot(h, i + 1)] = Spot(h, i))
  <2>1. Len(buckets[h]) \in Nat
    BY <1>2 DEF HType
  <2>2. \A j \in 1..Len(buckets[h]) : Spot(h, j) \in HNode /\ Spot(h, j) # n
    BY <1>1, Around
  <2>3. Spot(h, i) \in Bucket \cup HNode /\ Spot(h, i) # n
    <3>1. CASE i = 0
      <4>1. Spot(h, i) = h
        BY <3>1 DEF Spot
      <4> QED BY <4>1, HashListAssumption
    <3>2. CASE i \in 1..Len(buckets[h])
      BY <2>2, <3>2
    <3>3. i = 0 \/ i \in 1..Len(buckets[h])
      BY <2>1
    <3> QED BY <3>1, <3>2, <3>3
  <2>4. place'[Spot(h, i)] = Spot(h, i + 1)
    BY <1>1, <1>2, <2>3 DEF Chained, HType
  <2>5. ASSUME i < Len(buckets[h]) PROVE pprev'[Spot(h, i + 1)] = Spot(h, i)
    <3>1. i + 1 \in 1..Len(buckets[h])
      BY <2>1, <2>5
    <3> QED BY <1>1, <1>2, <2>2, <2>5, <3>1 DEF Chained, HType
  <2> QED BY <2>4, <2>5
<1>6. Chained'
  BY <1>1, <1>4, <1>5 DEF Chained
<1> QED BY <1>3, <1>6 DEF HLists

LEMMA HMoveList ==
    ASSUME HLists, NEW old \in Bucket, NEW new \in Bucket, hlist_move_list(old, new)
    PROVE  HLists'
<1> DEFINE first == Spot(old, 1)
           L == Len(buckets[old])
           Place == place'
           Pprev == pprev'
           B == buckets'
<1>1. /\ old # new
      /\ place' = [place EXCEPT ![new] = place[old], ![old] = HNull]
      /\ pprev' = SetUnlessNull(pprev, place[old], new)
      /\ buckets' = [buckets EXCEPT ![new] = buckets[old], ![old] = <<>>]
  BY DEF hlist_move_list
<1>2. HType /\ HDistinct /\ Chained /\ L \in Nat
  BY DEF HLists, HType
<1>3. place[old] = first /\ first \in HNode \cup {HNull} /\ (first = HNull <=> L = 0)
  <2>1. 0 \in 0..L /\ Spot(old, 0) = old /\ 0 + 1 = 1
    BY <1>2 DEF Spot
  <2>2. place[Spot(old, 0)] = Spot(old, 0 + 1)
    BY <1>2, <2>1 DEF Chained
  <2>3. HNull \notin HNode
    BY HashListAssumption DEF HNull
  <2>4. CASE L = 0
    BY <1>2, <2>1, <2>2, <2>4 DEF Spot
  <2>5. CASE L # 0
    <3>1. 1 \in 1..L
      BY <1>2, <2>5
    <3>2. first \in HNode
      BY <1>2, <3>1, Spots
    <3> QED BY <2>1, <2>2, <2>3, <2>5, <3>2
  <2> QED BY <2>4, <2>5
<1> HIDE DEF first
<1>4. /\ B \in [Bucket -> Seq(HNode)] /\ B[new] = buckets[old] /\ B[old] = <<>>
      /\ \A g \in Bucket : g # old /\ g # new => B[g] = buckets[g]
  BY <1>1, <1>2 DEF HType
<1>5. \A x \in Bucket \cup HNode : Place[x] = IF x = old THEN HNull ELSE IF x = new THEN first ELSE place[x]
  BY <1>1, <1>2, <1>3 DEF HType
<1>6. pprev' \in [HNode -> Bucket \cup HNode \cup {HNull, HPoison}] /\ \A y \in HNode : Pprev[y] = IF y = first THEN new ELSE pprev[y]
  <2>1. HNull \notin HNode
    BY HashListAssumption DEF HNull
  <2>2. CASE first = HNull
    BY <1>1, <1>2, <1>3, <2>1, <2>2 DEF HType, SetUnlessNull
  <2>3. CASE first # HNull
    <3>1. pprev' = [pprev EXCEPT ![first] = new]
      BY <1>1, <1>3, <2>3 DEF SetUnlessNull
    <3> QED BY <1>2, <1>3, <2>3, <3>1 DEF HType
  <2> QED BY <2>2, <2>3
<1>7. HType'
  <2>1. place' \in [Bucket \cup HNode -> HNode \cup {HNull, HPoison}]
    BY <1>1, <1>2, <1>3 DEF HType
  <2> QED BY <1>4, <1>6, <2>1 DEF HType
<1> DEFINE From(g) == IF g = new THEN old ELSE g
<1> HIDE DEF B
<1>8. HDistinct'
  <2> SUFFICES ASSUME NEW f \in Bucket, NEW g \in Bucket, NEW j \in 1..Len(B[f]), NEW k \in 1..Len(B[g]), B[f][j] = B[g][k]
               PROVE  f = g /\ j = k
    BY DEF HDistinct, B
  <2>1. f # old /\ g # old
    BY <1>4
  <2>2. B[f] = buckets[From(f)] /\ B[g] = buckets[From(g)] /\ From(f) \in Bucket /\ From(g) \in Bucket
    BY <1>4, <2>1
  <2>3. From(f) = From(g) /\ j = k
    BY <1>2, <2>2 DEF HDistinct
  <2> QED BY <2>1, <2>3
<1> DEFINE To(g, j) == IF j = 0 THEN g ELSE IF j <= Len(B[g]) THEN B[g][j] ELSE HNull
<1>9. \A g, j : Spot(g, j)' = To(g, j)
  BY DEF Spot, B
<1>10. \A g \in Bucket : g # old => \A j \in Nat : j # 0 => To(g, j) = Spot(From(g), j)
  BY <1>1, <1>4 DEF Spot
<1> HIDE DEF To
<1>11. ASSUME NEW g \in Bucket, NEW j \in 0..Len(B[g])
       PROVE  Place[To(g, j)] = To(g, j + 1) /\ (j < Len(B[g]) => Pprev[To(g, j + 1)] = To(g, j))
  <2>1. CASE g = old
    <3>1. j = 0 /\ ~(j < Len(B[g])) /\ To(g, j) = old /\ To(g, j + 1) = HNull
      BY <1>4, <2>1 DEF To
    <3> QED BY <1>5, <3>1
  <2>2. CASE g # old
    <3> DEFINE f == From(g)
    <3>1. f \in Bucket /\ B[g] = buckets[f] /\ j \in 0..Len(buckets[f]) /\ j \in Nat /\ Len(buckets[f]) \in Nat
      BY <1>2, <1>4, <2>2 DEF HType
    <3>2. To(g, j + 1) = Spot(f, j + 1)
      BY <1>10, <2>2, <3>1
    <3>3. place[Spot(f, j)] = Spot(f, j + 1) /\ (j < Len(buckets[f]) => pprev[Spot(f, j + 1)] = Spot(f, j))
      BY <1>2, <3>1 DEF Chained
    <3>4. CASE j = 0
      <4>1. To(g, j) = g /\ Spot(f, j) = f
        BY <3>4 DEF To, Spot
      <4>2. Place[g] = Spot(f, j + 1)
        BY <1>3, <1>5, <2>2, <3>3, <4>1
      <4>3. ASSUME j < Len(B[g]) PROVE Pprev[Spot(f, j + 1)] = g
        <5>1. j + 1 \in 1..Len(buckets[f])
          BY <3>1, <4>3
        <5>2. Spot(f, j + 1) \in HNode
          BY <1>2, <3>1, <5>1, Spots
        <5>3. CASE g = new
          <6>1. Spot(f, j + 1) = first
            BY <1>3, <3>3, <4>1, <5>3
          <6> QED BY <1>6, <5>2, <5>3, <6>1
        <5>4. CASE g # new
          <6>1. f = g
            BY <5>4
          <6>2. Spot(f, j + 1) # first
            <7>1. CASE first = HNull
              BY <5>2, <7>1, HashListAssumption DEF HNull
            <7>2. CASE first # HNull
              <8>1. 1 \in 1..L /\ 1 \in 0..L /\ j + 1 \in 0..Len(buckets[f])
                BY <1>2, <1>3, <5>1, <7>2
              <8> QED BY <1>2, <2>2, <3>1, <6>1, <8>1, Spots DEF first
            <7> QED BY <7>1, <7>2
          <6> QED BY <1>6, <3>1, <3>3, <4>1, <4>3, <5>2, <6>1, <6>2
        <5> QED BY <5>3, <5>4
      <4> QED BY <3>2, <4>1, <4>2, <4>3
    <3>5. CASE j # 0
      <4>1. To(g, j) = Spot(f, j) /\ j \in 1..Len(buckets[f])
        BY <1>10, <2>2, <3>1, <3>5
      <4>2. Spot(f, j) \in HNode
        BY <1>2, <3>1, <4>1, Spots
      <4>3. Place[Spot(f, j)] = Spot(f, j + 1)
        BY <1>5, <3>3, <4>2, HashListAssumption
      <4>4. ASSUME j < Len(B[g]) PROVE Pprev[Spot(f, j + 1)] = Spot(f, j)
        <5>1. j + 1 \in 1..Len(buckets[f]) /\ j + 1 \in 0..Len(buckets[f]) /\ j + 1 # 1
          BY <3>1, <3>5, <4>4
        <5>2. Spot(f, j + 1) \in HNode
          BY <1>2, <3>1, <5>1, Spots
        <5>3. Spot(f, j + 1) # first
          <6>1. CASE first = HNull
            BY <5>2, <6>1, HashListAssumption DEF HNull
          <6>2. CASE first # HNull
            <7>1. 1 \in 0..L
              BY <1>2, <1>3, <6>2
            <7> QED BY <1>2, <3>1, <5>1, <7>1, Spots DEF first
          <6> QED BY <6>1, <6>2
        <5> QED BY <1>6, <3>1, <3>3, <4>4, <5>2, <5>3
      <4> QED BY <3>2, <4>1, <4>3, <4>4
    <3> QED BY <3>4, <3>5
  <2> QED BY <2>1, <2>2
<1>12. Chained'
  BY <1>9, <1>11 DEF Chained, B
<1> QED BY <1>7, <1>8, <1>12 DEF HLists

LEMMA HUnchanged ==
    ASSUME HLists, UNCHANGED <<place, pprev, buckets>>
    PROVE  HLists' /\ \A h, i : Spot(h, i)' = Spot(h, i)
BY DEF HLists, HType, HDistinct, Chained, Spot

LEMMA HDeletes ==
    ASSUME HLists, NEW n \in Hashed, NEW v \in {HNull, HPoison}, DelAndSet(n, v)
    PROVE  HLists'
<1>1. PICK h \in Bucket : \E i \in 1..Len(buckets[h]) : n = Spot(h, i)
  BY FindNode
<1>2. PICK i \in 1..Len(buckets[h]) : n = Spot(h, i)
  BY <1>1
<1>3. TakenOut(h, i, v)
  BY <1>2, DelTakesOut
<1> QED BY <1>3, HRemoval

\* A loop begins.
LEMMA HWalkStarts ==
    ASSUME HLists, NEW h \in Bucket, NEW safe \in BOOLEAN, NEW p \in HNode \cup {HNull}, hlist_for_each(h, safe, p)
    PROVE  HInv'
<1> DEFINE b == buckets[h]
           L == Len(b)
           todo == IF p = HNull THEN <<>> ELSE SubSeq(b, PlaceOf(b, p), Len(b))
<1>1. /\ p \in In(h) \cup {place[q] : q \in In(h) \cup {h}}
      /\ walk' = [on |-> TRUE, safe |-> safe, pos |-> p, seen |-> <<>>, todo |-> todo]
      /\ UNCHANGED <<place, pprev, buckets>>
  BY DEF hlist_for_each
<1>2. HLists' /\ \A g, i : Spot(g, i)' = Spot(g, i)
  BY <1>1, HUnchanged
<1>3. HType /\ HDistinct /\ Chained /\ L \in Nat /\ b \in Seq(HNode) /\ HNull \notin HNode
  BY HashListAssumption DEF HLists, HType, HNull
<1>4. ASSUME p # HNull PROVE \E i \in 1..L : p = Spot(h, i)
  <2>1. \A q \in In(h) : \E j \in 1..L : q = Spot(h, j)
    <3>1. \A j \in 1..L : Spot(h, j) = b[j]
      BY <1>3, Spots
    <3> QED BY <1>3, <3>1 DEF In, Range
  <2>2. ASSUME NEW j \in 0..L, p = place[Spot(h, j)] PROVE \E i \in 1..L : p = Spot(h, i)
    <3>1. p = Spot(h, j + 1)
      BY <1>3, <2>2 DEF Chained
    <3>2. j # L
      BY <1>3, <1>4, <3>1, Spots
    <3>3. j + 1 \in 1..L
      BY <1>3, <3>2
    <3> QED BY <3>1, <3>3
  <2>3. Spot(h, 0) = h /\ 0 \in 0..L /\ \A j \in 1..L : j \in 0..L
    BY <1>3 DEF Spot
  <2> HIDE DEF b, L
  <2>4. CASE p \in In(h)
    BY <2>1, <2>4
  <2>5. CASE p = place[h]
    <3>1. p = place[Spot(h, 0)]
      BY <2>3, <2>5
    <3> QED BY <2>2, <2>3, <3>1
  <2>6. CASE \E q \in In(h) : p = place[q]
    <3>1. PICK q \in In(h) : p = place[q]
      BY <2>6
    <3>2. PICK j \in 1..L : q = Spot(h, j)
      BY <2>1
    <3>3. j \in 0..L /\ p = place[Spot(h, j)]
      BY <2>3, <3>1, <3>2
    <3> QED BY <2>2, <3>3
  <2> QED BY <1>1, <2>4, <2>5, <2>6
<1>5. /\ walk' \in WalkType => walk'.pos = p /\ walk'.seen = <<>> /\ walk'.todo = todo
      /\ todo \in Seq(HNode) => walk' \in WalkType
  <2> HIDE DEF todo
  <2>1. <<>> \in Seq(HNode)
    OBVIOUS
  <2> QED BY <1>1, <2>1 DEF WalkType
<1>6. CASE p = HNull
  <2>1. todo = <<>> /\ todo \in Seq(HNode) /\ Len(todo) = 0
    BY <1>6
  <2>2. walk' \in WalkType /\ walk'.pos = HNull /\ walk'.seen = <<>> /\ walk'.todo = <<>>
    BY <1>5, <1>6, <2>1
  <2>3. Spot(h, L + 1) = HNull /\ Len(<<>>) = 0 /\ L - L = 0 /\ buckets' = buckets
    BY <1>1, <1>3, Spots
  <2>4. Walking(h, L)'
    BY <1>2, <1>3, <2>2, <2>3 DEF Walking
  <2> QED BY <1>2, <1>3, <2>2, <2>4 DEF HInv
<1>7. CASE p # HNull
  <2>1. PICK i \in 1..L : p = Spot(h, i)
    BY <1>4, <1>7
  <2>2. PlaceOf(b, p) = i
    BY <2>1, Around
  <2>3. todo = SubSeq(b, i, L)
    BY <1>7, <2>2
  <2>4. \A j \in i..L : b[j] \in HNode
    BY <1>3
  <2>5. todo \in Seq(HNode) /\ Len(todo) = L - i + 1 /\ \A m \in 1..L - i + 1 : todo[m] = b[i + m - 1]
    <3>1. i <= L /\ i \in Int /\ L \in Int
      BY <1>3
    <3> HIDE DEF b, L, todo
    <3> QED BY <2>3, <2>4, <3>1, SubSeqProperties
  <2>6. walk' \in WalkType /\ walk'.pos = p /\ walk'.seen = <<>> /\ walk'.todo = todo
    BY <1>5, <2>5
  <2> DEFINE k == i - 1
  <2>7. k \in Nat /\ k + 1 = i /\ k <= L /\ L - k = L - i + 1 /\ \A m \in 1..L - k : k + m = i + m - 1
    BY <1>3
  <2>8. buckets' = buckets /\ Len(<<>>) = 0
    BY <1>1
  <2>9. Walking(h, k)'
    <3>1. Len(todo) \in Nat /\ Len(todo) = L - k /\ Len(todo) - 0 = Len(todo)
      BY <2>5, <2>7
    <3>2. \A m \in 1..L - k : b[k + m] = todo[0 + m]
      BY <2>5, <2>7
    <3>3. Spot(h, k + 1)' = p
      BY <1>2, <2>1, <2>7
    <3> HIDE DEF todo, k
    <3> QED BY <2>6, <2>7, <2>8, <3>1, <3>2, <3>3 DEF Walking
  <2> QED BY <1>2, <2>6, <2>7, <2>9 DEF HInv
<1> QED BY <1>6, <1>7

\* A turn of a loop.
LEMMA HWalkTurns ==
    ASSUME HInv, WalkBody
    PROVE  HInv'
<1> DEFINE p == walk.pos
           seen == walk.seen
           todo == walk.todo
           S == Len(seen)
<1>1. HLists /\ walk \in WalkType
  BY DEF HInv, WalkBody, NoWalk
<1>2. PICK h \in Bucket, k \in Nat : Walking(h, k)
  BY DEF HInv, WalkBody, NoWalk
<1> DEFINE b == buckets[h]
           L == Len(b)
           i == k + 1
<1>3. p # HNull /\ (UNCHANGED <<place, pprev, buckets>> \/ (walk.safe /\ hlist_del(p)))
  BY DEF WalkBody
<1>4. HType /\ HDistinct /\ Chained /\ L \in Nat /\ b \in Seq(HNode)
  BY <1>1 DEF HLists, HType
<1>5. seen \in Seq(HNode) /\ todo \in Seq(HNode) /\ S \in Nat /\ Len(todo) \in Nat
  BY <1>1 DEF WalkType
<1>6. /\ p = Spot(h, i) /\ k <= L /\ S <= Len(todo) /\ L - k = Len(todo) - S
      /\ \A m \in 1..S : seen[m] = todo[m]
      /\ \A m \in 1..L - k : b[k + m] = todo[S + m]
  BY <1>2 DEF Walking
<1>7. k # L
  BY <1>3, <1>4, <1>6, Spots
<1>8. i \in 1..L /\ i \in Nat /\ 1 \in 1..L - k
  BY <1>4, <1>6, <1>7
<1>9. p = b[i] /\ p = todo[S + 1] /\ p \in HNode
  <2>1. Spot(h, i) = b[i] /\ Spot(h, i) \in HNode
    BY <1>4, <1>8, Spots
  <2> QED BY <1>6, <1>8, <2>1
<1>10. place[p] = Spot(h, i + 1) /\ p # Spot(h, i - 1) /\ Spot(h, i + 1) \in HNode \cup {HNull}
  BY <1>1, <1>6, <1>8, Around
<1> DEFINE to == IF walk.safe THEN place[p] ELSE place'[p]
<1>11. walk' = [walk EXCEPT !.seen = Append(@, p), !.pos = to]
  BY DEF WalkBody
<1>12. to = Spot(h, i + 1)
  <2>1. CASE walk.safe
    BY <1>10, <2>1
  <2>2. CASE ~walk.safe
    BY <1>3, <1>10, <2>2
  <2> QED BY <2>1, <2>2
<1> HIDE DEF to, p
<1>13. /\ walk' \in WalkType /\ walk'.pos = Spot(h, i + 1) /\ walk'.todo = todo
       /\ walk'.seen = Append(seen, p)
  <2>1. Append(walk.seen, p) \in Seq(HNode) /\ to \in HNode \cup {HNull}
    BY <1>5, <1>9, <1>10, <1>12
  <2>2. walk' \in WalkType /\ walk'.pos = to /\ walk'.todo = walk.todo /\ walk'.seen = Append(walk.seen, p)
    BY <1>1, <1>11, <2>1 DEF WalkType
  <2> QED BY <1>12, <2>2
<1> HIDE DEF seen, todo, S
<1>14. /\ Append(seen, p) \in Seq(HNode) /\ Len(Append(seen, p)) = S + 1
       /\ \A m \in 1..S + 1 : Append(seen, p)[m] = todo[m]
  <2>1. Append(seen, p) \in Seq(HNode) /\ Len(Append(seen, p)) = S + 1 /\ Append(seen, p)[S + 1] = p
        /\ \A m \in 1..S : Append(seen, p)[m] = seen[m]
    BY <1>5, <1>9 DEF S
  <2>2. \A m \in 1..S + 1 : m \in 1..S \/ m = S + 1
    BY <1>5
  <2> QED BY <1>6, <1>9, <2>1, <2>2
<1>15. CASE UNCHANGED <<place, pprev, buckets>>
  <2>1. HLists' /\ \A g, j : Spot(g, j)' = Spot(g, j)
    BY <1>1, <1>15, HUnchanged
  <2>2. Walking(h, i)'
    <3>1. i <= L /\ S + 1 <= Len(todo) /\ L - i = Len(todo) - (S + 1)
      <4> HIDE DEF L
      <4> QED BY <1>4, <1>5, <1>6, <1>8, SMTT(30)
    <3>2. ASSUME NEW m \in 1..L - i PROVE b[i + m] = todo[S + 1 + m]
      <4>1. m + 1 \in 1..L - k /\ k + (m + 1) = i + m /\ S + (m + 1) = S + 1 + m
        <5> HIDE DEF L
        <5> QED BY <1>4, <1>5
      <4>2. b[k + (m + 1)] = todo[S + (m + 1)]
        BY <1>6, <4>1
      <4> QED BY <4>1, <4>2
    <3>3. buckets' = buckets /\ Spot(h, i + 1)' = Spot(h, i + 1)
      BY <1>15, <2>1
    <3> HIDE DEF i
    <3> QED BY <1>13, <1>14, <3>1, <3>2, <3>3 DEF Walking
  <2> QED BY <1>8, <1>13, <2>1, <2>2 DEF HInv
<1>16. CASE walk.safe /\ hlist_del(p)
  <2>1. DelAndSet(Spot(h, i), HPoison)
    BY <1>6, <1>16 DEF hlist_del
  <2>2. TakenOut(h, i, HPoison)
    BY <1>1, <1>8, <2>1, DelTakesOut
  <2>3. HLists'
    BY <1>1, <1>8, <2>2, HRemoval
  <2>4. buckets'[h] = RemoveAt(b, i)
    BY <1>4, <2>2 DEF TakenOut, HType
  <2> DEFINE c == buckets'[h]
  <2>5. Len(c) = L - 1 /\ \A j \in 1..L - 1 : c[j] = IF j < i THEN b[j] ELSE b[j + 1]
    <3>1. Len(RemoveAt(b, i)) = Len(b) - 1
      BY <1>4, <1>8, Removing
    <3>2. \A j \in 1..Len(b) - 1 : RemoveAt(b, i)[j] = IF j < i THEN b[j] ELSE b[j + 1]
      BY <1>4, <1>8, Removing
    <3> QED BY <2>4, <3>1, <3>2
  <2> HIDE DEF c
  <2>6. Spot(h, i)' = Spot(h, i + 1)
    <3>1. Spot(h, i)' = IF i = 0 THEN h ELSE IF i <= Len(c) THEN c[i] ELSE HNull
      BY DEF Spot, c
    <3>2. CASE i = L
      BY <1>4, <1>8, <2>5, <3>1, <3>2 DEF Spot
    <3>3. CASE i < L
      <4>1. i \in 1..L - 1 /\ i # 0 /\ i <= L - 1 /\ i + 1 # 0 /\ i + 1 <= L
        BY <1>4, <1>8, <3>3
      <4>2. c[i] = b[i + 1]
        BY <2>5, <4>1
      <4> QED BY <2>5, <3>1, <4>1, <4>2 DEF Spot
    <3> QED BY <1>4, <1>8, <3>2, <3>3
  <2>7. Walking(h, k)'
    <3>1. k <= L - 1 /\ S + 1 <= Len(todo) /\ L - 1 - k = Len(todo) - (S + 1)
      <4> HIDE DEF L
      <4> QED BY <1>4, <1>5, <1>6, <1>8
    <3>2. ASSUME NEW m \in 1..L - 1 - k PROVE c[k + m] = todo[S + 1 + m]
      <4>1. m + 1 \in 1..L - k /\ k + (m + 1) = k + m + 1 /\ S + (m + 1) = S + 1 + m /\ k + m \in 1..L - 1 /\ ~(k + m < i)
        <5> HIDE DEF L
        <5> QED BY <1>4, <1>5
      <4>2. b[k + (m + 1)] = todo[S + (m + 1)]
        BY <1>6, <4>1
      <4>3. c[k + m] = b[k + m + 1]
        BY <2>5, <4>1
      <4> QED BY <4>1, <4>2, <4>3
    <3>3. Spot(h, k + 1)' = Spot(h, i + 1)
      BY <2>6
    <3> HIDE DEF L
    <3> QED BY <1>13, <1>14, <2>5, <3>1, <3>2, <3>3 DEF Walking, c
  <2> QED BY <1>13, <2>3, <2>7 DEF HInv
<1> QED BY <1>3, <1>15, <1>16

LEMMA HStep == HInv /\ [HListNext]_hlistVars => HInv'
<1> SUFFICES ASSUME HInv, [HListNext]_hlistVars PROVE HInv'
  OBVIOUS
<1>1. HLists
  BY DEF HInv
<1>2. ASSUME ~walk.on, UNCHANGED walk, HLists' PROVE HInv'
  <2>1. walk = NoWalk
    BY <1>2 DEF HInv, WalkType
  <2> QED BY <1>2, <2>1 DEF HInv
<1>3. ASSUME NEW n \in HNode, hlist_del(n) PROVE HLists'
  BY <1>1, <1>3, HDeletes DEF hlist_del
<1>4. ASSUME NEW n \in HNode, hlist_del_init(n) PROVE HLists'
  BY <1>1, <1>4, HDeletes DEF hlist_del_init
<1>5. ASSUME NEW n \in HNode, INIT_HLIST_NODE(n) PROVE HLists'
  BY <1>1, <1>5, HInitNode
<1>6. ASSUME NEW n \in HNode, NEW h \in Bucket, hlist_add_head(n, h) PROVE HLists'
  BY <1>1, <1>6, AddHeadPutsIn, HInsertion
<1>7. ASSUME NEW n \in HNode, NEW m \in HNode, hlist_add_before(n, m) PROVE HLists'
  <2>1. PICK h \in Bucket : \E i \in 0..Len(buckets[h]) : PutIn(h, i, n) /\ n \notin Hashed
    BY <1>1, <1>7, AddBeforePutsIn
  <2> QED BY <1>1, <2>1, HInsertion
<1>8. ASSUME NEW n \in HNode, NEW m \in HNode, hlist_add_after(n, m) PROVE HLists'
  <2>1. PICK h \in Bucket : \E i \in 0..Len(buckets[h]) : PutIn(h, i, m) /\ m \notin Hashed
    BY <1>1, <1>8, AddAfterPutsIn
  <2> QED BY <1>1, <2>1, HInsertion
<1>9. ASSUME NEW old \in Bucket, NEW new \in Bucket, hlist_move_list(old, new) PROVE HLists'
  BY <1>1, <1>9, HMoveList
<1>10. CASE /\ ~walk.on /\ UNCHANGED walk
            /\ \/ \E n \in HNode : \/ hlist_del(n) \/ hlist_del_init(n) \/ INIT_HLIST_NODE(n)
                                   \/ \E h \in Bucket : hlist_add_head(n, h)
                                   \/ \E m \in HNode \ {n} : hlist_add_before(n, m) \/ hlist_add_after(n, m)
               \/ \E old, new \in Bucket : hlist_move_list(old, new)
  <2>1. HLists'
    BY <1>3, <1>4, <1>5, <1>6, <1>7, <1>8, <1>9, <1>10
  <2> QED BY <1>2, <1>10, <2>1
<1>11. CASE \E h \in Bucket, safe \in BOOLEAN, p \in HNode \cup {HNull} : hlist_for_each(h, safe, p)
  BY <1>1, <1>11, HWalkStarts
<1>12. CASE WalkBody
  BY <1>12, HWalkTurns
<1>13. CASE WalkDone
  <2>1. UNCHANGED <<place, pprev, buckets>> /\ walk' = NoWalk
    BY <1>13 DEF WalkDone
  <2>2. HLists'
    BY <1>1, <2>1, HUnchanged
  <2> QED BY <2>1, <2>2 DEF HInv, NoWalk
<1>14. CASE UNCHANGED hlistVars
  <2>1. UNCHANGED <<place, pprev, buckets>> /\ walk' = walk
    BY <1>14 DEF hlistVars
  <2>2. HLists' /\ \A h, i : Spot(h, i)' = Spot(h, i)
    BY <1>1, <2>1, HUnchanged
  <2>3. \A h, k : Walking(h, k)' <=> Walking(h, k)
    BY <2>1, <2>2 DEF Walking
  <2> QED BY <2>1, <2>2, <2>3 DEF HInv
<1> QED BY <1>10, <1>11, <1>12, <1>13, <1>14 DEF HListNext

\* A sequence between a first and a last element.
LEMMA Framed ==
    ASSUME NEW E, NEW s \in Seq(E), NEW a \in E, NEW z \in E
    PROVE  LET f == <<a>> \o s \o <<z>>
           IN  /\ f \in Seq(E) /\ Len(f) = Len(s) + 2 /\ f[1] = a /\ f[Len(s) + 2] = z
               /\ \A i \in 1..Len(s) : f[i + 1] = s[i]
<1> DEFINE L == Len(s)
           l == <<a>> \o s
           f == l \o <<z>>
<1>1. L \in Nat /\ <<a>> \in Seq(E) /\ <<z>> \in Seq(E) /\ Len(<<a>>) = 1 /\ Len(<<z>>) = 1 /\ <<a>>[1] = a /\ <<z>>[1] = z
  OBVIOUS
<1>2. l \in Seq(E) /\ Len(l) = 1 + L /\ \A i \in 1..1 + L : l[i] = IF i <= 1 THEN <<a>>[i] ELSE s[i - 1]
  BY <1>1, ConcatProperties
<1> HIDE DEF l, L
<1>3. f \in Seq(E) /\ Len(f) = Len(l) + 1 /\ \A i \in 1..Len(l) + 1 : f[i] = IF i <= Len(l) THEN l[i] ELSE <<z>>[i - Len(l)]
  BY <1>1, <1>2, ConcatProperties
<1> HIDE DEF f
<1>4. f[1] = a
  <2>1. 1 \in 1..Len(l) + 1 /\ 1 <= Len(l) /\ 1 \in 1..1 + L
    BY <1>1, <1>2
  <2>2. f[1] = l[1]
    BY <1>3, <2>1
  <2>3. l[1] = a
    BY <1>1, <1>2, <2>1
  <2> QED BY <2>2, <2>3
<1>5. f[L + 2] = z
  <2>1. L + 2 - Len(l) = 1 /\ L + 2 \in 1..Len(l) + 1 /\ ~(L + 2 <= Len(l))
    BY <1>1, <1>2
  <2> QED BY <1>1, <1>3, <2>1
<1>6. ASSUME NEW i \in 1..L PROVE f[i + 1] = s[i]
  <2>1. i + 1 \in 1..Len(l) + 1 /\ i + 1 <= Len(l) /\ i + 1 \in 1..1 + L /\ ~(i + 1 <= 1) /\ i + 1 - 1 = i
    BY <1>1, <1>2
  <2>2. f[i + 1] = l[i + 1]
    BY <1>3, <2>1
  <2> QED BY <1>2, <2>1, <2>2
<1>7. Len(f) = L + 2
  BY <1>1, <1>2, <1>3
<1> QED BY <1>3, <1>4, <1>5, <1>6, <1>7 DEF f, l, L

LEMMA HInvAgrees == HInv => HListsAgree
<1> SUFFICES ASSUME HInv PROVE HListsAgree
  OBVIOUS
<1>1. HLists /\ HType /\ HDistinct /\ Chained
  BY DEF HInv, HLists
<1>2. HNull \notin HNode /\ HNull \notin Bucket /\ HPoison \notin HNode /\ HPoison # HNull
  BY HashListAssumption DEF HNull, HPoison
<1>3. ASSUME NEW h \in Bucket
      PROVE  LET s == <<h>> \o buckets[h] \o <<HNull>>
             IN  /\ \A i \in 1..Len(s) - 1 : place[s[i]] = s[i + 1] /\ (s[i + 1] # HNull => pprev[s[i + 1]] = s[i])
                 /\ hlist_empty(h) <=> buckets[h] = <<>>
  <2> DEFINE E == Bucket \cup HNode \cup {HNull}
             b == buckets[h]
             L == Len(b)
             s == <<h>> \o b \o <<HNull>>
  <2>1. b \in Seq(E) /\ b \in Seq(HNode) /\ L \in Nat
    BY <1>1 DEF HType
  <2>2. Len(s) = L + 2 /\ s[1] = h /\ s[L + 2] = HNull /\ \A i \in 1..L : s[i + 1] = b[i]
    <3>1. h \in E /\ HNull \in E
      OBVIOUS
    <3> HIDE DEF b, E
    <3> QED BY <2>1, <3>1, Framed
  <2> HIDE DEF s
  <2>3. \A j \in 0..L + 1 : s[j + 1] = Spot(h, j)
    <3> SUFFICES ASSUME NEW j \in 0..L + 1 PROVE s[j + 1] = Spot(h, j)
      OBVIOUS
    <3>1. CASE j = 0
      BY <2>2, <3>1 DEF Spot
    <3>2. CASE j \in 1..L
      BY <2>1, <2>2, <3>2 DEF Spot
    <3>3. CASE j = L + 1
      <4>1. j # 0 /\ ~(j <= L) /\ j + 1 = L + 2
        BY <2>1, <3>3
      <4> QED BY <2>2, <4>1 DEF Spot
    <3>4. j = 0 \/ j \in 1..L \/ j = L + 1
      BY <2>1
    <3> QED BY <3>1, <3>2, <3>3, <3>4
  <2>4. ASSUME NEW i \in 1..Len(s) - 1 PROVE place[s[i]] = s[i + 1] /\ (s[i + 1] # HNull => pprev[s[i + 1]] = s[i])
    <3> DEFINE j == i - 1
    <3>1. j \in 0..L /\ j + 1 = i /\ i \in 0..L + 1 /\ j \in 0..L + 1
      <4>1. Len(s) = L + 2 /\ L \in Nat
        BY <2>1, <2>2
      <4> HIDE DEF L
      <4> QED BY <4>1
    <3>2. s[i] = Spot(h, j) /\ s[i + 1] = Spot(h, j + 1)
      BY <2>3, <3>1
    <3>3. place[Spot(h, j)] = Spot(h, j + 1) /\ (j < L => pprev[Spot(h, j + 1)] = Spot(h, j))
      BY <1>1, <3>1 DEF Chained
    <3>4. j = L => Spot(h, j + 1) = HNull
      BY <1>1, Spots
    <3>5. j = L \/ j < L
      BY <2>1, <3>1
    <3> HIDE DEF j
    <3> QED BY <3>2, <3>3, <3>4, <3>5
  <2>5. hlist_empty(h) <=> b = <<>>
    <3>1. 0 \in 0..L /\ Spot(h, 0) = h /\ 0 + 1 = 1
      BY <2>1 DEF Spot
    <3>2. place[h] = Spot(h, 1)
      BY <1>1, <3>1 DEF Chained
    <3>3. CASE L = 0
      BY <2>1, <3>2, <3>3 DEF Spot, hlist_empty
    <3>4. CASE L # 0
      <4>1. 1 \in 1..L /\ b # <<>>
        BY <2>1, <3>4
      <4>2. Spot(h, 1) \in HNode
        BY <1>1, <4>1, Spots
      <4> QED BY <1>2, <3>2, <4>1, <4>2 DEF hlist_empty
    <3> QED BY <3>3, <3>4
  <2> QED BY <2>4, <2>5 DEF s
<1>4. ASSUME NEW n \in Hashed PROVE ~hlist_unhashed(n)
  <2>1. PICK h \in Bucket : \E i \in 1..Len(buckets[h]) : n = Spot(h, i)
    BY <1>1, FindNode
  <2>2. PICK i \in 1..Len(buckets[h]) : n = Spot(h, i)
    BY <2>1
  <2>3. pprev[n] \in Bucket \cup HNode
    BY <1>1, <2>2, Around
  <2> QED BY <1>2, <2>3 DEF hlist_unhashed
<1>5. ASSUME walk.on
      PROVE  /\ walk.pos # HPoison
             /\ walk.seen = SubSeq(walk.todo, 1, Len(walk.seen))
             /\ walk.pos = HNull => walk.seen = walk.todo
  <2>1. walk \in WalkType
    BY <1>5 DEF HInv, NoWalk
  <2>2. PICK h \in Bucket, k \in Nat : Walking(h, k)
    BY <1>5 DEF HInv, NoWalk
  <2> DEFINE seen == walk.seen
             todo == walk.todo
             S == Len(seen)
             L == Len(buckets[h])
  <2>3. /\ seen \in Seq(HNode) /\ todo \in Seq(HNode) /\ S \in Nat /\ Len(todo) \in Nat /\ L \in Nat
        /\ walk.pos \in HNode \cup {HNull}
    BY <1>1, <2>1 DEF WalkType, HType
  <2>4. /\ walk.pos = Spot(h, k + 1) /\ k <= L /\ S <= Len(todo) /\ \A m \in 1..S : seen[m] = todo[m]
        /\ L - k = Len(todo) - S
    BY <2>2 DEF Walking
  <2>5. walk.pos # HPoison
    BY <1>2, <2>3
  <2>6. SubSeq(todo, 1, S) \in Seq(HNode) /\ Len(SubSeq(todo, 1, S)) = S /\ \A m \in 1..S : SubSeq(todo, 1, S)[m] = todo[m]
    <3>1. \A m \in 1..S : todo[m] \in HNode
      BY <2>3, <2>4
    <3> HIDE DEF seen, todo, S
    <3>2. SubSeq(todo, 1, S) \in Seq(HNode) /\ Len(SubSeq(todo, 1, S)) = (IF 1 <= S THEN S - 1 + 1 ELSE 0)
          /\ \A m \in 1..S - 1 + 1 : SubSeq(todo, 1, S)[m] = todo[1 + m - 1]
      BY <2>3, <3>1, SubSeqProperties
    <3> QED BY <2>3, <3>2
  <2>7. seen = SubSeq(todo, 1, S)
    BY <2>3, <2>4, <2>6, SeqEqual
  <2>8. ASSUME walk.pos = HNull PROVE seen = todo
    <3>1. k = L
      <4>1. CASE k < L
        <5>1. k + 1 \in 1..L
          BY <2>3, <4>1
        <5>2. Spot(h, k + 1) \in HNode
          BY <1>1, <5>1, Spots
        <5> QED BY <1>2, <2>4, <2>8, <5>2
      <4> QED BY <2>3, <2>4, <4>1
    <3>2. S = Len(todo)
      <4> HIDE DEF seen, todo, S, L
      <4> QED BY <2>3, <2>4, <3>1
    <3> QED BY <2>3, <2>4, <3>2, SeqEqual
  <2> QED BY <2>5, <2>7, <2>8
<1> QED BY <1>3, <1>4, <1>5 DEF HListsAgree

\* For any number of heads and nodes and any sequence of calls: every list leads
\* from its head through its nodes to NULL, pprev is the address of the pointer to the
\* node, and the loops visit what they begin with, also when the body deletes.
THEOREM HListsAlwaysAgree == HListSpec => []HListsAgree
<1>1. HListSpec => []HInv
  BY HInitially, HStep, PTL DEF HListSpec
<1> QED BY <1>1, HInvAgrees, PTL
-------------------------------------------------------------------------------
(* The hash table.                                                           *)

Row == 0..hash_table_size - 1
Item == [id : 1..MaxNodes, key : AddrKey, rec : Rec]

TableType == htable \in [Row -> Seq(Item)] /\ inserted \in [AddrKey -> Seq(Rec)]

\* A node is in the row of its key, and no two nodes are the same.
InItsRow == \A b \in Row : \A j \in 1..Len(htable[b]) : hash(htable[b][j].key) = b
IdsDiffer ==
    \A b, c \in Row : \A i \in 1..Len(htable[b]), j \in 1..Len(htable[c]) :
        htable[b][i].id = htable[c][j].id => b = c /\ i = j

\* The records l of a key, in their order, are those of the nodes of its row s at pos.
Tracks(s, l, k, pos) ==
    /\ pos \in [1..Len(l) -> 1..Len(s)]
    /\ \A m \in 1..Len(l) : s[pos[m]].key = k /\ s[pos[m]].rec = l[m]
    /\ \A m, n \in 1..Len(l) : m < n => pos[m] < pos[n]
    /\ \A j \in 1..Len(s) : s[j].key = k => \E m \in 1..Len(l) : pos[m] = j
Kept == \A k \in AddrKey : \E pos : Tracks(htable[hash(k)], inserted[k], k, pos)

\* The ids of the nodes up to the j-th one of row b, in the order of an iteration.
UpTo(b, j) ==
    {x \in 1..MaxNodes : \E c \in Row : \E m \in 1..Len(htable[c]) :
                             (c < b \/ (c = b /\ m <= j)) /\ x = htable[c][m].id}
At(b, j) == /\ htable[b][j].id = cursor
            /\ visited \in Seq(1..MaxNodes) /\ Range(visited) = UpTo(b, j) /\ IsInjective(visited)
Iterating == IF cursor = 0 THEN visited = <<>>
             ELSE \E b \in Row : \E j \in 1..Len(htable[b]) : At(b, j)

TInv == TableType /\ InItsRow /\ IdsDiffer /\ Kept /\ Iterating

LEMMA Remainder ==
    ASSUME NEW a \in Nat, NEW n \in Nat \ {0}
    PROVE  a % n \in Nat /\ a % n \in 0..n - 1
OBVIOUS

LEMMA HashInRow == \A k \in AddrKey : hash(k) \in Row
<1> SUFFICES ASSUME NEW k \in AddrKey PROVE hash(k) \in Row
  OBVIOUS
<1> DEFINE N == hash_table_size
<1>1. N \in Nat /\ N >= 2 /\ k.src \in Nat /\ k.dst \in Nat /\ k.src_port \in Nat /\ k.dst_port \in Nat
  BY AddrHashAssumption
<1>2. hash(k) = (((4 * (k.src % N) + k.src_port) % (N - 1)) + 4 * (k.dst % N) + k.dst_port) % (N - 1)
  BY DEF hash
<1> HIDE DEF N
<1> DEFINE h == (4 * (k.src % N) + k.src_port) % (N - 1)
           d == k.dst % N
           x == h + 4 * d + k.dst_port
<1>3. k.src % N \in Nat /\ d \in Nat
  BY <1>1
<1>4. h \in Nat
  <2>1. 4 * (k.src % N) + k.src_port \in Nat /\ N - 1 \in Nat \ {0}
    BY <1>1, <1>3
  <2> QED BY <2>1, Remainder
<1>5. x \in Nat /\ N - 1 \in Nat \ {0}
  <2> HIDE DEF h, d
  <2> QED BY <1>1, <1>3, <1>4
<1>6. hash(k) = x % (N - 1)
  BY <1>2
<1> HIDE DEF x
<1>7. x % (N - 1) \in 0..N - 1 - 1
  BY <1>5, Remainder
<1> QED BY <1>1, <1>6, <1>7 DEF Row, N

LEMMA TableInitially == HashInit => TInv
<1> SUFFICES ASSUME HashInit PROVE TInv
  OBVIOUS
<1>1. /\ htable = [b \in Row |-> <<>>] /\ inserted = [k \in AddrKey |-> <<>>]
      /\ cursor = 0 /\ visited = <<>>
  BY DEF HashInit, Row
<1>2. TableType
  BY <1>1 DEF TableType
<1>3. \A b \in Row : htable[b] = <<>> /\ Len(htable[b]) = 0
  BY <1>1
<1>4. InItsRow /\ IdsDiffer
  BY <1>3 DEF InItsRow, IdsDiffer
<1>5. ASSUME NEW k \in AddrKey PROVE Tracks(htable[hash(k)], inserted[k], k, <<>>)
  <2>1. inserted[k] = <<>> /\ Len(inserted[k]) = 0 /\ Len(htable[hash(k)]) = 0
    BY <1>1, <1>3, HashInRow
  <2>2. <<>> \in [1..0 -> 1..0]
    OBVIOUS
  <2> QED BY <2>1, <2>2 DEF Tracks
<1> QED BY <1>1, <1>2, <1>4, <1>5 DEF TInv, Kept, Iterating

LEMMA Prepending ==
    ASSUME NEW S, NEW s \in Seq(S), NEW e \in S
    PROVE  /\ <<e>> \o s \in Seq(S) /\ Len(<<e>> \o s) = Len(s) + 1 /\ (<<e>> \o s)[1] = e
           /\ \A i \in 1..Len(s) : (<<e>> \o s)[i + 1] = s[i]
<1> DEFINE t == <<e>> \o s
<1>1. Len(s) \in Nat /\ <<e>> \in Seq(S) /\ Len(<<e>>) = 1 /\ <<e>>[1] = e
  OBVIOUS
<1>2. t \in Seq(S) /\ Len(t) = 1 + Len(s) /\ \A i \in 1..1 + Len(s) : t[i] = IF i <= 1 THEN <<e>>[i] ELSE s[i - 1]
  BY <1>1, ConcatProperties
<1> HIDE DEF t
<1>3. t[1] = e
  <2>1. 1 \in 1..1 + Len(s)
    BY <1>1
  <2> QED BY <1>1, <1>2, <2>1
<1>4. ASSUME NEW i \in 1..Len(s) PROVE t[i + 1] = s[i]
  <2>1. i + 1 \in 1..1 + Len(s) /\ ~(i + 1 <= 1) /\ i + 1 - 1 = i
    BY <1>1
  <2> QED BY <1>2, <2>1
<1> QED BY <1>1, <1>2, <1>3, <1>4 DEF t

\* Another key's node in front.
LEMMA TracksFront ==
    ASSUME NEW s \in Seq(Item), NEW l \in Seq(Rec), NEW k, NEW pos, Tracks(s, l, k, pos), NEW e \in Item, e.key # k
    PROVE  \E p : Tracks(<<e>> \o s, l, k, p)
<1> DEFINE t == <<e>> \o s
           p == [m \in 1..Len(l) |-> pos[m] + 1]
           L == Len(l)
           N == Len(s)
<1>1. t \in Seq(Item) /\ Len(t) = N + 1 /\ t[1] = e /\ \A i \in 1..N : t[i + 1] = s[i]
  BY Prepending
<1>2. L \in Nat /\ N \in Nat
  OBVIOUS
<1>3. /\ pos \in [1..L -> 1..N]
      /\ \A m \in 1..L : s[pos[m]].key = k /\ s[pos[m]].rec = l[m]
      /\ \A m, n \in 1..L : m < n => pos[m] < pos[n]
      /\ \A j \in 1..N : s[j].key = k => \E m \in 1..L : pos[m] = j
  BY DEF Tracks
<1>4. \A m \in 1..L : pos[m] \in 1..N /\ pos[m] + 1 \in 1..N + 1 /\ p[m] = pos[m] + 1
  BY <1>2, <1>3
<1> HIDE DEF L, N, t
<1>5. p \in [1..L -> 1..N + 1]
  BY <1>4 DEF L
<1> HIDE DEF p
<1>6. \A m \in 1..L : t[p[m]].key = k /\ t[p[m]].rec = l[m]
  BY <1>1, <1>3, <1>4
<1>7. \A m, n \in 1..L : m < n => p[m] < p[n]
  <2> SUFFICES ASSUME NEW m \in 1..L, NEW n \in 1..L, m < n PROVE p[m] < p[n]
    OBVIOUS
  <2>1. pos[m] < pos[n]
    BY <1>3
  <2>2. pos[m] \in Int /\ pos[n] \in Int /\ p[m] = pos[m] + 1 /\ p[n] = pos[n] + 1
    BY <1>2, <1>4
  <2> QED BY <2>1, <2>2
<1>8. ASSUME NEW j \in 1..N + 1, t[j].key = k PROVE \E m \in 1..L : p[m] = j
  <2>1. j # 1
    BY <1>1, <1>8
  <2> DEFINE i == j - 1
  <2>2. i \in 1..N /\ i + 1 = j
    BY <1>2, <2>1
  <2>3. s[i].key = k
    BY <1>1, <1>8, <2>2
  <2>4. PICK m \in 1..L : pos[m] = i
    BY <1>3, <2>2, <2>3
  <2> QED BY <1>4, <2>2, <2>4
<1>9. Tracks(t, l, k, p)
  BY <1>1, <1>5, <1>6, <1>7, <1>8 DEF Tracks, L
<1> QED BY <1>9 DEF t

\* A new node of the key in front.
LEMMA TracksNew ==
    ASSUME NEW s \in Seq(Item), NEW l \in Seq(Rec), NEW k, NEW pos, Tracks(s, l, k, pos), NEW e \in Item, e.key = k
    PROVE  \E p : Tracks(<<e>> \o s, <<e.rec>> \o l, k, p)
<1> DEFINE t == <<e>> \o s
           u == <<e.rec>> \o l
           L == Len(l)
           N == Len(s)
           p == [m \in 1..L + 1 |-> IF m = 1 THEN 1 ELSE pos[m - 1] + 1]
<1>1. t \in Seq(Item) /\ Len(t) = N + 1 /\ t[1] = e /\ \A i \in 1..N : t[i + 1] = s[i]
  BY Prepending
<1>2. u \in Seq(Rec) /\ Len(u) = L + 1 /\ u[1] = e.rec /\ \A i \in 1..L : u[i + 1] = l[i]
  <2>1. e.rec \in Rec
    BY DEF Item
  <2> QED BY <2>1, Prepending
<1>3. L \in Nat /\ N \in Nat
  OBVIOUS
<1>4. /\ pos \in [1..L -> 1..N]
      /\ \A m \in 1..L : s[pos[m]].key = k /\ s[pos[m]].rec = l[m]
      /\ \A m, n \in 1..L : m < n => pos[m] < pos[n]
      /\ \A j \in 1..N : s[j].key = k => \E m \in 1..L : pos[m] = j
  BY DEF Tracks
<1> HIDE DEF L, N, t, u
<1>5. \A m \in 1..L : pos[m] \in 1..N /\ pos[m] + 1 \in 1..N + 1 /\ pos[m] \in Nat
  BY <1>3, <1>4
<1>6. p[1] = 1 /\ \A m \in 1..L : m + 1 \in 1..L + 1 /\ p[m + 1] = pos[m] + 1
  BY <1>3
<1>7. \A m \in 1..L + 1 : m = 1 \/ \E n \in 1..L : m = n + 1
  <2> SUFFICES ASSUME NEW m \in 1..L + 1, m # 1 PROVE \E n \in 1..L : m = n + 1
    OBVIOUS
  <2>1. m - 1 \in 1..L /\ m = (m - 1) + 1
    BY <1>3
  <2> QED BY <2>1
<1>8. p \in [1..L + 1 -> 1..N + 1]
  <2>1. \A m \in 1..L + 1 : p[m] \in 1..N + 1
    <3> SUFFICES ASSUME NEW m \in 1..L + 1 PROVE p[m] \in 1..N + 1
      OBVIOUS
    <3> HIDE DEF p
    <3>1. CASE m = 1
      BY <1>3, <1>6, <3>1
    <3>2. ASSUME NEW n \in 1..L, m = n + 1 PROVE p[m] \in 1..N + 1
      BY <1>5, <1>6, <3>2
    <3> QED BY <1>7, <3>1, <3>2
  <2> QED BY <2>1
<1> HIDE DEF p
<1>9. ASSUME NEW m \in 1..L + 1 PROVE t[p[m]].key = k /\ t[p[m]].rec = u[m]
  <2>1. CASE m = 1
    BY <1>1, <1>2, <1>6, <2>1
  <2>2. ASSUME NEW n \in 1..L, m = n + 1 PROVE t[p[m]].key = k /\ t[p[m]].rec = u[m]
    <3>1. t[pos[n] + 1] = s[pos[n]] /\ u[n + 1] = l[n] /\ p[m] = pos[n] + 1
      BY <1>1, <1>2, <1>5, <1>6, <2>2
    <3> QED BY <1>4, <2>2, <3>1
  <2> QED BY <1>7, <2>1, <2>2
<1>10. ASSUME NEW m \in 1..L + 1, NEW n \in 1..L + 1, m < n PROVE p[m] < p[n]
  <2>1. PICK b \in 1..L : n = b + 1
    BY <1>3, <1>7, <1>10
  <2>2. p[n] = pos[b] + 1 /\ pos[b] \in Nat /\ pos[b] >= 1
    BY <1>5, <1>6, <2>1
  <2>3. CASE m = 1
    BY <1>6, <2>2, <2>3
  <2>4. ASSUME NEW a \in 1..L, m = a + 1 PROVE p[m] < p[n]
    <3>1. a < b
      BY <1>3, <1>10, <2>1, <2>4
    <3>2. pos[a] < pos[b] /\ p[m] = pos[a] + 1 /\ pos[a] \in Nat
      BY <1>4, <1>5, <1>6, <2>4, <3>1
    <3> QED BY <2>2, <3>2
  <2> QED BY <1>7, <2>3, <2>4
<1>11. ASSUME NEW j \in 1..N + 1, t[j].key = k PROVE \E m \in 1..L + 1 : p[m] = j
  <2>1. CASE j = 1
    <3>1. 1 \in 1..L + 1
      BY <1>3
    <3> QED BY <1>6, <2>1, <3>1
  <2>2. CASE j # 1
    <3> DEFINE i == j - 1
    <3>1. i \in 1..N /\ i + 1 = j
      BY <1>3, <2>2
    <3>2. s[i].key = k
      BY <1>1, <1>11, <3>1
    <3>3. PICK m \in 1..L : pos[m] = i
      BY <1>4, <3>1, <3>2
    <3> QED BY <1>6, <3>1, <3>3
  <2> QED BY <2>1, <2>2
<1>12. Tracks(t, u, k, p)
  BY <1>1, <1>2, <1>8, <1>9, <1>10, <1>11 DEF Tracks
<1> QED BY <1>12 DEF t, u

\* What First() and hash_find() return.
KeyPlaces(s, k) == {i \in DOMAIN s : s[i].key = k}
LEMMA TracksFirst ==
    ASSUME NEW s \in Seq(Item), NEW l \in Seq(Rec), NEW k, NEW pos, Tracks(s, l, k, pos)
    PROVE  /\ KeyPlaces(s, k) = {} <=> l = <<>>
           /\ l # <<>> => /\ Min(KeyPlaces(s, k)) = pos[1]
                          /\ pos[1] \in 1..Len(s) /\ s[pos[1]].rec = Head(l) /\ s[pos[1]].key = k
<1> DEFINE P == KeyPlaces(s, k)
           L == Len(l)
           N == Len(s)
<1>1. L \in Nat /\ N \in Nat /\ DOMAIN s = 1..N /\ (l = <<>> <=> L = 0)
  OBVIOUS
<1>2. /\ pos \in [1..L -> 1..N]
      /\ \A m \in 1..L : s[pos[m]].key = k /\ s[pos[m]].rec = l[m]
      /\ \A m, n \in 1..L : m < n => pos[m] < pos[n]
      /\ \A j \in 1..N : s[j].key = k => \E m \in 1..L : pos[m] = j
  BY DEF Tracks
<1>3. \A i : i \in P <=> \E m \in 1..L : pos[m] = i
  BY <1>1, <1>2 DEF KeyPlaces
<1>4. CASE L = 0
  BY <1>1, <1>3, <1>4
<1>5. CASE L # 0
  <2>0. 1 \in 1..L
    BY <1>1, <1>5
  <2>1. 1 \in 1..L /\ pos[1] \in 1..N /\ pos[1] \in P
    <3>1. pos[1] \in 1..N
      BY <1>2, <2>0
    <3> QED BY <1>3, <2>0, <3>1
  <2>2. ASSUME NEW i \in P PROVE pos[1] <= i
    <3>1. PICK m \in 1..L : pos[m] = i
      BY <1>3
    <3>2. m = 1 \/ 1 < m
      BY <1>1
    <3>3. pos[m] \in Nat /\ pos[1] \in Nat
      BY <1>1, <1>2, <2>1
    <3>4. CASE m = 1
      BY <3>1, <3>3, <3>4
    <3>5. CASE 1 < m
      BY <1>2, <2>1, <3>1, <3>3, <3>5
    <3> QED BY <3>2, <3>4, <3>5
  <2>3. \A i \in P : i \in Nat
    BY <1>1 DEF KeyPlaces
  <2> HIDE DEF P
  <2>4. Min(P) = pos[1]
    <3>1. \A x \in P : (\A y \in P : x <= y) => x = pos[1]
      BY <2>1, <2>2, <2>3
    <3> QED BY <2>1, <2>2, <3>1 DEF Min
  <2>5. s[pos[1]].rec = Head(l) /\ s[pos[1]].key = k
    BY <1>1, <1>2, <1>5, <2>1
  <2>6. l # <<>> /\ P # {}
    BY <1>1, <1>5, <2>1
  <2> QED BY <2>1, <2>4, <2>5, <2>6 DEF P
<1> QED BY <1>4, <1>5

\* Another key's node is unlinked.
LEMMA TracksOther ==
    ASSUME NEW s \in Seq(Item), NEW l \in Seq(Rec), NEW k, NEW pos, Tracks(s, l, k, pos),
           NEW i \in 1..Len(s), s[i].key # k
    PROVE  \E p : Tracks(RemoveAt(s, i), l, k, p)
<1> DEFINE t == RemoveAt(s, i)
           L == Len(l)
           N == Len(s)
           p == [m \in 1..L |-> IF pos[m] < i THEN pos[m] ELSE pos[m] - 1]
<1>1. L \in Nat /\ N \in Nat /\ i \in Nat /\ i <= N /\ i >= 1
  OBVIOUS
<1>2. Len(t) = N - 1 /\ \A j \in 1..N - 1 : t[j] = IF j < i THEN s[j] ELSE s[j + 1]
  <2>1. Len(t) = N - 1
    BY Removing
  <2>2. \A j \in 1..N - 1 : t[j] = IF j < i THEN s[j] ELSE s[j + 1]
    BY Removing
  <2> QED BY <2>1, <2>2
<1>3. /\ pos \in [1..L -> 1..N]
      /\ \A m \in 1..L : s[pos[m]].key = k /\ s[pos[m]].rec = l[m]
      /\ \A m, n \in 1..L : m < n => pos[m] < pos[n]
      /\ \A j \in 1..N : s[j].key = k => \E m \in 1..L : pos[m] = j
  BY DEF Tracks
<1> HIDE DEF L, N, t
<1>4. \A m \in 1..L : /\ pos[m] \in Nat /\ 1 <= pos[m] /\ pos[m] <= N /\ pos[m] # i
                      /\ p[m] = IF pos[m] < i THEN pos[m] ELSE pos[m] - 1
  BY <1>1, <1>3
<1>5. p \in [1..L -> 1..N - 1]
  BY <1>1, <1>4
<1> HIDE DEF p
<1>6. ASSUME NEW m \in 1..L PROVE t[p[m]] = s[pos[m]]
  <2>1. CASE pos[m] < i
    <3>1. p[m] = pos[m] /\ p[m] \in 1..N - 1 /\ p[m] < i
      BY <1>1, <1>4, <2>1
    <3> QED BY <1>2, <3>1
  <2>2. CASE ~(pos[m] < i)
    <3>1. p[m] = pos[m] - 1 /\ p[m] \in 1..N - 1 /\ ~(p[m] < i) /\ p[m] + 1 = pos[m]
      BY <1>1, <1>4, <2>2
    <3> QED BY <1>2, <3>1
  <2> QED BY <2>1, <2>2
<1>7. \A m \in 1..L : t[p[m]].key = k /\ t[p[m]].rec = l[m]
  BY <1>3, <1>6
<1>8. \A m, n \in 1..L : m < n => p[m] < p[n]
  <2> SUFFICES ASSUME NEW m \in 1..L, NEW n \in 1..L, m < n PROVE p[m] < p[n]
    OBVIOUS
  <2>1. pos[m] < pos[n]
    BY <1>3
  <2>2. /\ i \in Int /\ pos[m] \in Int /\ pos[n] \in Int /\ pos[m] # i /\ pos[n] # i
        /\ p[m] = IF pos[m] < i THEN pos[m] ELSE pos[m] - 1
        /\ p[n] = IF pos[n] < i THEN pos[n] ELSE pos[n] - 1
    BY <1>1, <1>4
  <2> QED BY <2>1, <2>2
<1>9. ASSUME NEW j \in 1..N - 1, t[j].key = k PROVE \E m \in 1..L : p[m] = j
  <2>1. CASE j < i
    <3>1. j \in 1..N /\ t[j] = s[j]
      BY <1>1, <1>2, <2>1
    <3>2. PICK m \in 1..L : pos[m] = j
      BY <1>3, <1>9, <3>1
    <3>3. p[m] = IF pos[m] < i THEN pos[m] ELSE pos[m] - 1
      BY <1>4
    <3>4. p[m] = j
      BY <2>1, <3>2, <3>3
    <3> QED BY <3>4
  <2>2. CASE ~(j < i)
    <3>1. j + 1 \in 1..N /\ t[j] = s[j + 1] /\ ~(j + 1 < i) /\ j + 1 - 1 = j
      BY <1>1, <1>2, <2>2
    <3>2. PICK m \in 1..L : pos[m] = j + 1
      BY <1>3, <1>9, <3>1
    <3>3. pos[m] \in Int /\ ~(pos[m] < i) /\ j \in Int /\ j = pos[m] - 1
      BY <1>1, <3>1, <3>2
    <3>4. p[m] = IF pos[m] < i THEN pos[m] ELSE pos[m] - 1
      BY <1>4
    <3>5. p[m] = j
      BY <3>3, <3>4
    <3> QED BY <3>5
  <2> QED BY <2>1, <2>2
<1>10. Tracks(t, l, k, p)
  BY <1>2, <1>5, <1>7, <1>8, <1>9 DEF Tracks, L
<1> QED BY <1>10 DEF t

\* The first node of the key is unlinked.
LEMMA TracksUnlinked ==
    ASSUME NEW s \in Seq(Item), NEW l \in Seq(Rec), l # <<>>, NEW k, NEW pos, Tracks(s, l, k, pos)
    PROVE  \E p : Tracks(RemoveAt(s, pos[1]), Tail(l), k, p)
<1> DEFINE i == pos[1]
           t == RemoveAt(s, i)
           u == Tail(l)
           L == Len(l)
           N == Len(s)
           p == [m \in 1..L - 1 |-> pos[m + 1] - 1]
<1>1. L \in Nat /\ N \in Nat /\ L >= 1 /\ 1 \in 1..L
  OBVIOUS
<1>2. /\ pos \in [1..L -> 1..N]
      /\ \A m \in 1..L : s[pos[m]].key = k /\ s[pos[m]].rec = l[m]
      /\ \A m, n \in 1..L : m < n => pos[m] < pos[n]
      /\ \A j \in 1..N : s[j].key = k => \E m \in 1..L : pos[m] = j
  BY DEF Tracks
<1>3. i \in 1..N /\ i \in Nat /\ i >= 1 /\ i <= N
  BY <1>1, <1>2
<1>4. Len(t) = N - 1 /\ \A j \in 1..N - 1 : t[j] = IF j < i THEN s[j] ELSE s[j + 1]
  <2> HIDE DEF i
  <2>1. Len(t) = N - 1
    BY <1>3, Removing
  <2>2. \A j \in 1..N - 1 : t[j] = IF j < i THEN s[j] ELSE s[j + 1]
    BY <1>3, Removing
  <2> QED BY <2>1, <2>2
<1>5. Len(u) = L - 1 /\ \A m \in 1..L - 1 : u[m] = l[m + 1]
  BY HeadTailProperties
<1> HIDE DEF L, N, t, u
<1>6. \A m \in 1..L : pos[m] \in Nat /\ pos[m] <= N
  BY <1>1, <1>2
<1>7. \A m \in 1..L - 1 : m + 1 \in 1..L /\ i < pos[m + 1] /\ p[m] = pos[m + 1] - 1
  BY <1>1, <1>2
<1>8. p \in [1..L - 1 -> 1..N - 1]
  BY <1>1, <1>3, <1>6, <1>7
<1> HIDE DEF p, i
<1>9. ASSUME NEW m \in 1..L - 1 PROVE t[p[m]].key = k /\ t[p[m]].rec = u[m]
  <2>1. p[m] \in 1..N - 1 /\ ~(p[m] < i) /\ p[m] + 1 = pos[m + 1]
    BY <1>1, <1>3, <1>6, <1>7
  <2>2. t[p[m]] = s[pos[m + 1]]
    BY <1>4, <2>1
  <2>3. m + 1 \in 1..L
    BY <1>7
  <2>4. s[pos[m + 1]].key = k /\ s[pos[m + 1]].rec = l[m + 1]
    BY <1>2, <2>3
  <2> QED BY <1>5, <2>2, <2>4
<1>10. ASSUME NEW m \in 1..L - 1, NEW n \in 1..L - 1, m < n PROVE p[m] < p[n]
  <2>1. m + 1 < n + 1
    BY <1>1, <1>10
  <2>2. pos[m + 1] < pos[n + 1]
    BY <1>2, <1>7, <2>1
  <2> QED BY <1>6, <1>7, <2>2
<1>11. ASSUME NEW j \in 1..N - 1, t[j].key = k PROVE \E m \in 1..L - 1 : p[m] = j
  <2>1. CASE j < i
    <3>1. j \in 1..N /\ t[j] = s[j]
      BY <1>1, <1>3, <1>4, <2>1
    <3>2. PICK m \in 1..L : pos[m] = j
      BY <1>2, <1>11, <3>1
    <3>3. m = 1 \/ 1 < m
      BY <1>1
    <3>4. i = pos[1]
      BY DEF i
    <3>5. i <= pos[m]
      BY <1>1, <1>2, <1>3, <1>6, <3>3, <3>4
    <3> QED BY <1>3, <2>1, <3>2, <3>5
  <2>2. CASE ~(j < i)
    <3>1. j + 1 \in 1..N /\ t[j] = s[j + 1] /\ j + 1 # i
      BY <1>1, <1>3, <1>4, <2>2
    <3>2. PICK m \in 1..L : pos[m] = j + 1
      BY <1>2, <1>11, <3>1
    <3>3. m # 1
      BY <3>1, <3>2 DEF i
    <3>4. m - 1 \in 1..L - 1 /\ m - 1 + 1 = m
      BY <1>1, <3>3
    <3>5. p[m - 1] = j + 1 - 1
      <4>1. p[m - 1] = pos[m - 1 + 1] - 1
        BY <1>7, <3>4
      <4> QED BY <3>2, <3>4, <4>1
    <3>6. j + 1 - 1 = j
      OBVIOUS
    <3> QED BY <3>4, <3>5, <3>6
  <2> QED BY <2>1, <2>2
<1>12. Tracks(t, u, k, p)
  BY <1>4, <1>5, <1>8, <1>9, <1>10, <1>11 DEF Tracks
<1> QED BY <1>12 DEF t, u, i

\* The nodes of the table, by their rows and places.
LEMMA TableHas ==
    ASSUME TableType
    PROVE  /\ \A n : n \in TableNodes <=> \E b \in Row : \E j \in 1..Len(htable[b]) : n = htable[b][j]
           /\ \A x : x \in {n.id : n \in TableNodes} <=> \E b \in Row : \E j \in 1..Len(htable[b]) : x = htable[b][j].id
<1>1. DOMAIN htable = Row /\ \A b \in Row : DOMAIN htable[b] = 1..Len(htable[b])
  BY DEF TableType
<1>2. \A n : n \in TableNodes <=> \E b \in Row : n \in Range(htable[b])
  BY <1>1 DEF TableNodes
<1>3. \A b \in Row : \A n : n \in Range(htable[b]) <=> \E j \in 1..Len(htable[b]) : n = htable[b][j]
  BY <1>1 DEF Range
<1>4. \A n : n \in TableNodes <=> \E b \in Row : \E j \in 1..Len(htable[b]) : n = htable[b][j]
  <2> TAKE n
  <2>1. \A b \in Row : n \in Range(htable[b]) <=> \E j \in 1..Len(htable[b]) : n = htable[b][j]
    BY <1>3
  <2>2. n \in TableNodes <=> \E b \in Row : n \in Range(htable[b])
    BY <1>2
  <2> QED BY <2>1, <2>2, Zenon
<1>5. ASSUME NEW x PROVE x \in {n.id : n \in TableNodes} <=> \E b \in Row : \E j \in 1..Len(htable[b]) : x = htable[b][j].id
  <2>1. x \in {n.id : n \in TableNodes} <=> \E n \in TableNodes : x = n.id
    OBVIOUS
  <2> QED BY <1>4, <2>1
<1> QED BY <1>4, <1>5

LEMMA TableInsert ==
    ASSUME TInv, NEW k \in AddrKey, NEW r \in Rec, hash_insert(k, r)
    PROVE  TInv'
<1> DEFINE h == hash(k)
           s == htable[h]
           e == [id |-> NewId, key |-> k, rec |-> r]
           t == <<e>> \o s
<1>1. TableType /\ InItsRow /\ IdsDiffer /\ Kept
  BY DEF TInv
<1>2. h \in Row /\ s \in Seq(Item)
  BY <1>1, HashInRow DEF TableType
<1>3. NewId \in 1..MaxNodes /\ \A b \in Row : \A j \in 1..Len(htable[b]) : htable[b][j].id # NewId
  <2>1. NewId \in 1..MaxNodes /\ NewId \notin {n.id : n \in TableNodes}
    BY DEF hash_insert, NewId
  <2> QED BY <1>1, <2>1, TableHas
<1>4. e \in Item /\ e.id = NewId /\ e.key = k /\ e.rec = r
  BY <1>3 DEF Item
<1>5. /\ htable' = [htable EXCEPT ![h] = t] /\ inserted' = [inserted EXCEPT ![k] = <<r>> \o inserted[k]]
      /\ cursor' = 0 /\ visited' = <<>>
  BY DEF hash_insert, NotIterating
<1> HIDE DEF e, h
<1>6. t \in Seq(Item) /\ Len(t) = Len(s) + 1 /\ t[1] = e /\ \A i \in 1..Len(s) : t[i + 1] = s[i]
  BY <1>2, <1>4, Prepending
<1> HIDE DEF t
<1>7. htable'[h] = t /\ \A b \in Row : b # h => htable'[b] = htable[b]
  BY <1>1, <1>2, <1>5 DEF TableType
<1>8. TableType'
  <2>1. <<r>> \o inserted[k] \in Seq(Rec)
    BY <1>1, Prepending DEF TableType
  <2> QED BY <1>1, <1>5, <1>6, <2>1 DEF TableType
<1>9. \A b \in Row : \A j \in 1..Len(htable'[b]) :
          \/ b = h /\ j = 1 /\ htable'[b][j] = e
          \/ \E i \in 1..Len(htable[b]) : htable'[b][j] = htable[b][i] /\ j = IF b = h THEN i + 1 ELSE i
  <2> SUFFICES ASSUME NEW b \in Row, NEW j \in 1..Len(htable'[b])
               PROVE  \/ b = h /\ j = 1 /\ htable'[b][j] = e
                      \/ \E i \in 1..Len(htable[b]) : htable'[b][j] = htable[b][i] /\ j = IF b = h THEN i + 1 ELSE i
    OBVIOUS
  <2>1. CASE b # h
    BY <1>7, <2>1
  <2>2. CASE b = h /\ j = 1
    BY <1>6, <1>7, <2>2
  <2>3. CASE b = h /\ j # 1
    <3>1. Len(s) \in Nat
      BY <1>2
    <3>2. j \in 1..Len(s) + 1
      BY <1>6, <1>7, <2>3
    <3>3. j - 1 \in 1..Len(s) /\ j = (j - 1) + 1
      BY <2>3, <3>1, <3>2
    <3>4. t[j] = s[j - 1]
      BY <1>6, <3>3
    <3> QED BY <1>7, <2>3, <3>3, <3>4
  <2> QED BY <2>1, <2>2, <2>3
<1>10. InItsRow'
  <2>1. ASSUME NEW b \in Row, NEW j \in 1..Len(htable'[b]) PROVE hash(htable'[b][j].key) = b
    <3>1. CASE b = h /\ htable'[b][j] = e
      BY <1>4, <3>1 DEF h
    <3>2. ASSUME NEW i \in 1..Len(htable[b]), htable'[b][j] = htable[b][i] PROVE hash(htable'[b][j].key) = b
      BY <1>1, <3>2 DEF InItsRow
    <3> QED BY <1>9, <3>1, <3>2
  <2> QED BY <2>1 DEF InItsRow, hash
<1>11. IdsDiffer'
  <2>1. ASSUME NEW b \in Row, NEW c \in Row, NEW i \in 1..Len(htable'[b]), NEW j \in 1..Len(htable'[c]),
               htable'[b][i].id = htable'[c][j].id
        PROVE  b = c /\ i = j
    <3>1. \/ b = h /\ i = 1 /\ htable'[b][i] = e
          \/ \E m \in 1..Len(htable[b]) : htable'[b][i] = htable[b][m] /\ i = IF b = h THEN m + 1 ELSE m
      BY <1>9
    <3>2. \/ c = h /\ j = 1 /\ htable'[c][j] = e
          \/ \E m \in 1..Len(htable[c]) : htable'[c][j] = htable[c][m] /\ j = IF c = h THEN m + 1 ELSE m
      BY <1>9
    <3>3. CASE b = h /\ i = 1 /\ htable'[b][i] = e
      BY <1>3, <1>4, <2>1, <3>2, <3>3
    <3>4. ASSUME NEW m \in 1..Len(htable[b]), htable'[b][i] = htable[b][m], i = IF b = h THEN m + 1 ELSE m
          PROVE  b = c /\ i = j
      <4>1. PICK n \in 1..Len(htable[c]) : htable'[c][j] = htable[c][n] /\ j = IF c = h THEN n + 1 ELSE n
        BY <1>3, <1>4, <2>1, <3>2, <3>4
      <4>2. b = c /\ m = n
        BY <1>1, <2>1, <3>4, <4>1 DEF IdsDiffer
      <4> QED BY <3>4, <4>1, <4>2
    <3> QED BY <3>1, <3>3, <3>4
  <2> QED BY <2>1 DEF IdsDiffer
<1>12. Kept'
  <2>1. ASSUME NEW q \in AddrKey PROVE \E p : Tracks(htable'[hash(q)], inserted'[q], q, p)
    <3>1. PICK pos : Tracks(htable[hash(q)], inserted[q], q, pos)
      BY <1>1 DEF Kept
    <3>2. inserted[q] \in Seq(Rec) /\ hash(q) \in Row
      BY <1>1, HashInRow DEF TableType
    <3>3. CASE q = k
      <4>1. inserted'[q] = <<r>> \o inserted[q] /\ htable'[hash(q)] = t /\ htable[hash(q)] = s
        BY <1>1, <1>5, <1>7, <3>3 DEF h, TableType
      <4>2. \E p : Tracks(<<e>> \o s, <<e.rec>> \o inserted[q], q, p)
        <5>1. e.key = q
          BY <1>4, <3>3
        <5>2. Tracks(s, inserted[q], q, pos)
          BY <3>1, <4>1
        <5> HIDE DEF s
        <5> QED BY <1>2, <1>4, <3>2, <5>1, <5>2, TracksNew
      <4> QED BY <1>4, <4>1, <4>2 DEF t
    <3>4. CASE q # k
      <4>1. inserted'[q] = inserted[q]
        BY <1>1, <1>5, <3>4 DEF TableType
      <4>2. CASE hash(q) # h
        BY <1>7, <3>1, <3>2, <4>1, <4>2
      <4>3. CASE hash(q) = h
        <5>1. htable'[hash(q)] = t /\ htable[hash(q)] = s
          BY <1>7, <4>3
        <5>2. \E p : Tracks(<<e>> \o s, inserted[q], q, p)
          <6>1. e.key # q
            BY <1>4, <3>4
          <6>2. Tracks(s, inserted[q], q, pos)
            BY <3>1, <5>1
          <6> HIDE DEF s
          <6> QED BY <1>2, <1>4, <3>2, <6>1, <6>2, TracksFront
        <5> QED BY <4>1, <5>1, <5>2 DEF t
      <4> QED BY <4>2, <4>3
    <3> QED BY <3>3, <3>4
  <2> QED BY <2>1 DEF Kept, hash, Tracks
<1>13. Iterating'
  BY <1>5 DEF Iterating
<1> QED BY <1>8, <1>10, <1>11, <1>12, <1>13 DEF TInv

LEMMA TableDelete ==
    ASSUME TInv, NEW k \in AddrKey, hash_delete(k)
    PROVE  TInv'
<1> DEFINE h == hash(k)
           s == htable[h]
           l == inserted[k]
           f == First(k)
           t == RemoveAt(s, f)
<1>1. TableType /\ InItsRow /\ IdsDiffer /\ Kept
  BY DEF TInv
<1>2. h \in Row /\ s \in Seq(Item) /\ l \in Seq(Rec)
  BY <1>1, HashInRow DEF TableType
<1>3. PICK pos : Tracks(s, l, k, pos)
  BY <1>1 DEF Kept
<1>4. l # <<>> /\ f = pos[1] /\ f \in 1..Len(s) /\ s[f].key = k
  <2> DEFINE P == KeyPlaces(s, k)
  <2>1. f = (IF P = {} THEN 0 ELSE Min(P)) /\ f # 0
    BY DEF First, hash_delete, KeyPlaces
  <2> HIDE DEF s, l, f
  <2>2. /\ P = {} <=> l = <<>>
        /\ l # <<>> => Min(P) = pos[1] /\ pos[1] \in 1..Len(s) /\ s[pos[1]].rec = Head(l) /\ s[pos[1]].key = k
    BY <1>2, <1>3, TracksFirst
  <2> QED BY <2>1, <2>2
<1>5. /\ htable' = [htable EXCEPT ![h] = t] /\ inserted' = [inserted EXCEPT ![k] = Tail(l)]
      /\ cursor' = 0 /\ visited' = <<>>
  BY DEF hash_delete, NotIterating, Unlinked
<1> HIDE DEF f, h
<1>6. t \in Seq(Item) /\ Len(t) = Len(s) - 1
  BY <1>2, <1>4, Removing
<1>7. \A j \in 1..Len(s) - 1 : t[j] = IF j < f THEN s[j] ELSE s[j + 1]
  BY <1>2, <1>4, Removing
<1> HIDE DEF t
<1>8. htable'[h] = t /\ \A b \in Row : b # h => htable'[b] = htable[b]
  BY <1>1, <1>2, <1>5 DEF TableType
<1>9. TableType'
  <2>1. Tail(l) \in Seq(Rec)
    BY <1>2, <1>4
  <2> QED BY <1>1, <1>5, <1>6, <2>1 DEF TableType
<1>10. \A b \in Row : \A j \in 1..Len(htable'[b]) :
          \E i \in 1..Len(htable[b]) : htable'[b][j] = htable[b][i] /\ i = IF b # h \/ j < f THEN j ELSE j + 1
  <2> SUFFICES ASSUME NEW b \in Row, NEW j \in 1..Len(htable'[b])
               PROVE  \E i \in 1..Len(htable[b]) : htable'[b][j] = htable[b][i] /\ i = IF b # h \/ j < f THEN j ELSE j + 1
    OBVIOUS
  <2>1. CASE b # h
    BY <1>8, <2>1
  <2>2. CASE b = h
    <3>1. Len(s) \in Nat
      BY <1>2
    <3>2. j \in 1..Len(s) - 1
      BY <1>6, <1>8, <2>2
    <3>3. j \in 1..Len(s) /\ j + 1 \in 1..Len(s)
      BY <3>1, <3>2
    <3>4. t[j] = IF j < f THEN s[j] ELSE s[j + 1]
      BY <1>7, <3>2
    <3> QED BY <1>8, <2>2, <3>3, <3>4
  <2> QED BY <2>1, <2>2
<1>11. InItsRow'
  <2>1. ASSUME NEW b \in Row, NEW j \in 1..Len(htable'[b]) PROVE hash(htable'[b][j].key) = b
    BY <1>1, <1>10 DEF InItsRow
  <2> QED BY <2>1 DEF InItsRow, hash
<1>12. IdsDiffer'
  <2>1. ASSUME NEW b \in Row, NEW c \in Row, NEW i \in 1..Len(htable'[b]), NEW j \in 1..Len(htable'[c]),
               htable'[b][i].id = htable'[c][j].id
        PROVE  b = c /\ i = j
    <3>1. PICK m \in 1..Len(htable[b]) : htable'[b][i] = htable[b][m] /\ m = IF b # h \/ i < f THEN i ELSE i + 1
      BY <1>10
    <3>2. PICK n \in 1..Len(htable[c]) : htable'[c][j] = htable[c][n] /\ n = IF c # h \/ j < f THEN j ELSE j + 1
      BY <1>10
    <3>3. b = c /\ m = n
      BY <1>1, <2>1, <3>1, <3>2 DEF IdsDiffer
    <3>4. f \in Nat /\ i \in Nat /\ j \in Nat
      BY <1>4
    <3> QED BY <3>1, <3>2, <3>3, <3>4
  <2> QED BY <2>1 DEF IdsDiffer
<1>13. Kept'
  <2>1. ASSUME NEW q \in AddrKey PROVE \E p : Tracks(htable'[hash(q)], inserted'[q], q, p)
    <3>1. PICK o : Tracks(htable[hash(q)], inserted[q], q, o)
      BY <1>1 DEF Kept
    <3>2. inserted[q] \in Seq(Rec) /\ hash(q) \in Row
      BY <1>1, HashInRow DEF TableType
    <3>3. CASE q = k
      <4>1. inserted'[q] = Tail(l) /\ htable'[hash(q)] = t
        BY <1>1, <1>5, <1>8, <3>3 DEF h, TableType
      <4>2. \E p : Tracks(RemoveAt(s, pos[1]), Tail(l), k, p)
        <5> HIDE DEF s, l
        <5> QED BY <1>2, <1>3, <1>4, TracksUnlinked
      <4> QED BY <1>4, <3>3, <4>1, <4>2 DEF t
    <3>4. CASE q # k
      <4>1. inserted'[q] = inserted[q]
        BY <1>1, <1>5, <3>4 DEF TableType
      <4>2. CASE hash(q) # h
        BY <1>8, <3>1, <3>2, <4>1, <4>2
      <4>3. CASE hash(q) = h
        <5>1. htable'[hash(q)] = t /\ htable[hash(q)] = s
          BY <1>8, <4>3
        <5>2. \E p : Tracks(RemoveAt(s, f), inserted[q], q, p)
          <6>1. s[f].key # q
            BY <1>4, <3>4
          <6>2. Tracks(s, inserted[q], q, o)
            BY <3>1, <5>1
          <6> HIDE DEF s
          <6> QED BY <1>2, <1>4, <3>2, <6>1, <6>2, TracksOther
        <5> QED BY <4>1, <5>1, <5>2 DEF t
      <4> QED BY <4>2, <4>3
    <3> QED BY <3>3, <3>4
  <2> QED BY <2>1 DEF Kept, hash, Tracks
<1>14. Iterating'
  BY <1>5 DEF Iterating
<1> QED BY <1>9, <1>11, <1>12, <1>13, <1>14 DEF TInv

LEMMA TableDeleteAll == TInv /\ hash_delete_all => TInv'
<1> SUFFICES ASSUME hash_delete_all PROVE TInv'
  OBVIOUS
<1>1. HashInit'
  BY DEF hash_delete_all, NotIterating, HashInit
<1>2. HashInit => TInv
  BY TableInitially
<1> QED BY <1>1, TableInitially, PTL

-------------------------------------------------------------------------------
(* The iteration of the hash table.                                          *)

LEMMA LeastOf ==
    ASSUME NEW S \in SUBSET Nat, S # {}
    PROVE  Min(S) \in S /\ \A n \in S : Min(S) <= n
<1> DEFINE R == OpToRel(<, Nat)
<1>1. PICK m \in S : \A n \in S : ~(<<n, m>> \in R)
  BY NatLessThanWellFounded, WFMin
<1>2. ASSUME NEW n \in S, n < m PROVE FALSE
  <2>1. n \in Nat /\ m \in Nat
    OBVIOUS
  <2>2. <<n, m>> \in R
    BY <1>2, <2>1 DEF OpToRel
  <2> QED BY <1>1, <2>2
<1>3. \A n \in S : m <= n
  BY <1>2
<1> QED BY <1>3 DEF Min

\* FirstIn() is the first node of the first row from b on that has one.
LEMMA FirstInIs ==
    ASSUME TInv, NEW b \in Nat
    PROVE  \/ FirstIn(b) = 0 /\ \A c \in Row : b <= c => Len(htable[c]) = 0
           \/ \E c \in Row : /\ b <= c /\ 1 \in 1..Len(htable[c]) /\ FirstIn(b) = htable[c][1].id
                             /\ \A d \in Row : b <= d /\ d < c => Len(htable[d]) = 0
<1> DEFINE F == {c \in b..hash_table_size - 1 : htable[c] # <<>>}
<1>1. hash_table_size \in Nat /\ hash_table_size >= 2
  BY AddrHashAssumption
<1>2. FirstIn(b) = IF F = {} THEN 0 ELSE htable[Min(F)][1].id
  BY DEF FirstIn
<1>3. \A c \in Row : htable[c] \in Seq(Item) /\ Len(htable[c]) \in Nat /\ (htable[c] = <<>> <=> Len(htable[c]) = 0)
  BY DEF TInv, TableType
<1>4. \A c : c \in F <=> c \in Row /\ b <= c /\ Len(htable[c]) # 0
  BY <1>1, <1>3 DEF Row
<1>5. F \subseteq Nat
  BY <1>1
<1> HIDE DEF F
<1>6. CASE F = {}
  BY <1>2, <1>4, <1>6
<1>7. CASE F # {}
  <2>1. Min(F) \in F /\ \A n \in F : Min(F) <= n
    BY <1>5, <1>7, LeastOf
  <2> DEFINE c == Min(F)
  <2> HIDE DEF c
  <2>2. c \in F /\ \A n \in F : c <= n
    BY <2>1 DEF c
  <2>3. c \in Row /\ b <= c /\ 1 \in 1..Len(htable[c])
    BY <1>3, <1>4, <2>2
  <2>4. FirstIn(b) = htable[c][1].id
    BY <1>2, <1>7 DEF c
  <2>5. \A d \in Row : b <= d /\ d < c => Len(htable[d]) = 0
    <3> SUFFICES ASSUME NEW d \in Row, b <= d, d < c, Len(htable[d]) # 0 PROVE FALSE
      OBVIOUS
    <3>1. c <= d
      BY <1>4, <2>2
    <3>2. c \in Nat /\ d \in Nat
      BY <1>1, <2>3 DEF Row
    <3> QED BY <3>1, <3>2
  <2> QED BY <2>3, <2>4, <2>5
<1> QED BY <1>6, <1>7

\* hash_next_item() finds the node it is given again, and goes on behind it.
LEMMA NextIs ==
    ASSUME TInv, NEW b \in Row, NEW j \in 1..Len(htable[b]), htable[b][j].id = cursor, cursor # 0
    PROVE  NextItem = IF j < Len(htable[b]) THEN htable[b][j + 1].id ELSE FirstIn(b + 1)
<1> DEFINE n == CHOOSE n \in TableNodes : n.id = cursor
           i == CHOOSE i \in DOMAIN htable[b] : htable[b][i].id = cursor
<1>1. TableType /\ InItsRow /\ IdsDiffer
  BY DEF TInv
<1>2. htable[b][j] \in TableNodes
  BY <1>1, TableHas
<1>3. n \in TableNodes /\ n.id = cursor
  BY <1>2
<1> HIDE DEF n
<1>4. n = htable[b][j]
  <2>0. PICK c \in Row : \E m \in 1..Len(htable[c]) : n = htable[c][m]
    BY <1>1, <1>3, TableHas
  <2>1. PICK m \in 1..Len(htable[c]) : n = htable[c][m]
    BY <2>0
  <2>2. htable[c][m].id = htable[b][j].id
    BY <1>3, <2>1
  <2>3. c = b /\ m = j
    BY <1>1, <2>2 DEF IdsDiffer
  <2> QED BY <2>1, <2>3
<1>5. hash(n.key) = b
  BY <1>1, <1>4 DEF InItsRow
<1>6. DOMAIN htable[b] = 1..Len(htable[b])
  BY <1>1 DEF TableType
<1>7. i \in DOMAIN htable[b] /\ htable[b][i].id = cursor
  BY <1>6
<1>8. i = j
  BY <1>1, <1>6, <1>7 DEF IdsDiffer
<1>9. NextItem = LET s == htable[hash(n.key)]
                     k == CHOOSE k \in DOMAIN s : s[k].id = cursor
                 IN  IF k < Len(s) THEN s[k + 1].id ELSE FirstIn(hash(n.key) + 1)
  BY DEF NextItem, n
<1>10. NextItem = IF i < Len(htable[b]) THEN htable[b][i + 1].id ELSE FirstIn(b + 1)
  BY <1>5, <1>9
<1> HIDE DEF i
<1> QED BY <1>8, <1>10

LEMMA IdsAre ==
    ASSUME TableType
    PROVE  \A d \in Row : \A i \in 1..Len(htable[d]) : htable[d][i].id \in 1..MaxNodes /\ htable[d][i].id # 0
<1> SUFFICES ASSUME NEW d \in Row, NEW i \in 1..Len(htable[d])
             PROVE  htable[d][i].id \in 1..MaxNodes /\ htable[d][i].id # 0
  OBVIOUS
<1>1. htable[d] \in Seq(Item)
  BY DEF TableType
<1>2. htable[d][i] \in Item
  BY <1>1
<1>3. htable[d][i].id \in 1..MaxNodes
  BY <1>2 DEF Item
<1> QED BY <1>3, AddrHashAssumption

LEMMA SameTable ==
    ASSUME TInv, htable' = htable, inserted' = inserted
    PROVE  (TableType /\ InItsRow /\ IdsDiffer /\ Kept)'
<1>1. TableType'
  BY DEF TInv, TableType
<1>2. InItsRow'
  BY DEF TInv, InItsRow, hash
<1>3. IdsDiffer'
  BY DEF TInv, IdsDiffer
<1>4. \A k \in AddrKey : \E pos : Tracks(htable'[hash(k)], inserted'[k], k, pos)
  BY DEF TInv, Kept
<1>5. Kept'
  BY <1>4 DEF Kept, hash, Tracks
<1> QED BY <1>1, <1>2, <1>3, <1>5

\* Nothing lies between the j-th node of row b and the m-th one of row c behind it.
NoneBetween(b, j, c, m) ==
    /\ b < c \/ (b = c /\ j < m)
    /\ \A d \in Row : \A i \in 1..Len(htable[d]) :
           d < c \/ (d = c /\ i <= m) => d < b \/ (d = b /\ i <= j) \/ (d = c /\ i = m)

LEMMA UpToNext ==
    ASSUME TInv, NEW b \in Int, NEW j \in Int, NEW c \in Row, NEW m \in 1..Len(htable[c]), NoneBetween(b, j, c, m)
    PROVE  UpTo(c, m) = UpTo(b, j) \cup {htable[c][m].id} /\ htable[c][m].id \notin UpTo(b, j)
<1>1. TableType /\ IdsDiffer
  BY DEF TInv
<1>2. htable[c][m].id \in 1..MaxNodes
  BY <1>1, IdsAre
<1>3. c \in Nat /\ m \in Nat /\ \A d \in Row : d \in Int
  BY <1>1, AddrHashAssumption DEF Row
<1>4. \A d \in Row : \A i \in 1..Len(htable[d]) :
          (d < c \/ (d = c /\ i <= m)) <=> (d < b \/ (d = b /\ i <= j) \/ (d = c /\ i = m))
  <2> SUFFICES ASSUME NEW d \in Row, NEW i \in 1..Len(htable[d])
               PROVE  (d < c \/ (d = c /\ i <= m)) <=> (d < b \/ (d = b /\ i <= j) \/ (d = c /\ i = m))
    OBVIOUS
  <2>1. b < c \/ (b = c /\ j < m)
    BY DEF NoneBetween
  <2>2. d < c \/ (d = c /\ i <= m) => d < b \/ (d = b /\ i <= j) \/ (d = c /\ i = m)
    BY DEF NoneBetween
  <2>3. d \in Int /\ i \in Int
    BY <1>3
  <2> QED BY <1>3, <2>1, <2>2, <2>3
<1>5. \A x : x \in UpTo(c, m) <=> x \in UpTo(b, j) \/ x = htable[c][m].id
  <2> TAKE x
  <2>1. x \in UpTo(c, m) => x \in UpTo(b, j) \/ x = htable[c][m].id
    BY <1>4 DEF UpTo
  <2>2. x \in UpTo(b, j) => x \in UpTo(c, m)
    BY <1>4 DEF UpTo
  <2>3. htable[c][m].id \in UpTo(c, m)
    BY <1>2, <1>3 DEF UpTo
  <2> QED BY <2>1, <2>2, <2>3
<1>6. ASSUME htable[c][m].id \in UpTo(b, j) PROVE FALSE
  <2>1. PICK d \in Row : \E i \in 1..Len(htable[d]) : (d < b \/ (d = b /\ i <= j)) /\ htable[c][m].id = htable[d][i].id
    BY <1>6 DEF UpTo
  <2>2. PICK i \in 1..Len(htable[d]) : (d < b \/ (d = b /\ i <= j)) /\ htable[c][m].id = htable[d][i].id
    BY <2>1
  <2>3. d = c /\ i = m
    BY <1>1, <2>2 DEF IdsDiffer
  <2>4. b < c \/ (b = c /\ j < m)
    BY DEF NoneBetween
  <2> QED BY <1>3, <2>2, <2>3, <2>4
<1> QED BY <1>5, <1>6

LEMMA AppendNew ==
    ASSUME NEW S, NEW s \in Seq(S), NEW e \in S, e \notin Range(s), IsInjective(s)
    PROVE  Append(s, e) \in Seq(S) /\ Range(Append(s, e)) = Range(s) \cup {e} /\ IsInjective(Append(s, e))
<1> DEFINE t == Append(s, e)
           N == Len(s)
<1>1. /\ N \in Nat /\ t \in Seq(S) /\ DOMAIN s = 1..N /\ DOMAIN t = 1..N + 1
      /\ t[N + 1] = e /\ \A i \in 1..N : t[i] = s[i]
  OBVIOUS
<1>2. \A i \in 1..N : s[i] # e
  BY <1>1 DEF Range
<1>3. \A i \in 1..N, j \in 1..N : s[i] = s[j] => i = j
  BY <1>1 DEF IsInjective
<1> HIDE DEF t, N
<1>4. \A i \in 1..N + 1 : i \in 1..N \/ i = N + 1
  BY <1>1
<1>5. \A i, j \in 1..N + 1 : t[i] = t[j] => i = j
  <2> SUFFICES ASSUME NEW i \in 1..N + 1, NEW j \in 1..N + 1, t[i] = t[j] PROVE i = j
    OBVIOUS
  <2>1. (i \in 1..N \/ i = N + 1) /\ (j \in 1..N \/ j = N + 1)
    BY <1>4
  <2> QED BY <1>1, <1>2, <1>3, <2>1
<1>6. Range(t) = Range(s) \cup {e}
  <2>1. \A x : x \in Range(t) <=> \E i \in 1..N + 1 : x = t[i]
    BY <1>1 DEF Range
  <2>2. \A x : x \in Range(s) <=> \E i \in 1..N : x = s[i]
    BY <1>1 DEF Range
  <2>3. N + 1 \in 1..N + 1 /\ \A i \in 1..N : i \in 1..N + 1
    BY <1>1
  <2>4. \A x : x \in Range(t) => x \in Range(s) \/ x = e
    BY <1>1, <1>4, <2>1, <2>2
  <2>5. \A x : x \in Range(s) \/ x = e => x \in Range(t)
    BY <1>1, <2>1, <2>2, <2>3
  <2> QED BY <2>4, <2>5
<1> QED BY <1>1, <1>5, <1>6 DEF t, IsInjective

\* The iteration comes to the m-th node of row c.
LEMMA ComesTo ==
    ASSUME TInv, NEW b \in Int, NEW j \in Int, NEW c \in Row, NEW m \in 1..Len(htable[c]), NoneBetween(b, j, c, m),
           visited \in Seq(1..MaxNodes), IsInjective(visited), Range(visited) = UpTo(b, j),
           hash_next_item, NextItem = htable[c][m].id
    PROVE  TInv'
<1> DEFINE x == htable[c][m].id
<1>1. x \in 1..MaxNodes /\ x # 0
  BY IdsAre DEF TInv
<1>2. UpTo(c, m) = UpTo(b, j) \cup {x} /\ x \notin UpTo(b, j)
  BY UpToNext
<1>3. cursor' = x /\ visited' = Append(visited, x) /\ htable' = htable /\ inserted' = inserted
  BY <1>1 DEF hash_next_item
<1> HIDE DEF x
<1>4. Append(visited, x) \in Seq(1..MaxNodes) /\ Range(Append(visited, x)) = Range(visited) \cup {x}
      /\ IsInjective(Append(visited, x))
  BY <1>1, <1>2, AppendNew
<1>5. visited' \in Seq(1..MaxNodes) /\ Range(visited') = UpTo(c, m) /\ IsInjective(visited')
  BY <1>2, <1>3, <1>4
<1>6. UpTo(c, m)' = UpTo(c, m)
  BY <1>3 DEF UpTo
<1>7. At(c, m)'
  <2>1. htable'[c][m].id = cursor'
    BY <1>3 DEF x
  <2>2. IsInjective(visited)' /\ Range(visited)' = UpTo(c, m)'
    BY <1>5, <1>6 DEF IsInjective, Range
  <2> QED BY <1>5, <2>1, <2>2 DEF At
<1>8. cursor' # 0 /\ c \in Row /\ m \in 1..Len(htable'[c])
  BY <1>1, <1>3
<1>9. Iterating'
  BY <1>7, <1>8 DEF Iterating
<1>10. (TableType /\ InItsRow /\ IdsDiffer /\ Kept)'
  BY <1>3, SameTable
<1> QED BY <1>9, <1>10 DEF TInv

LEMMA TableIterates == TInv /\ hash_next_item => TInv'
<1> SUFFICES ASSUME TInv, hash_next_item PROVE TInv'
  OBVIOUS
<1>0. \A d \in Row : d \in Nat /\ Len(htable[d]) \in Nat
  BY AddrHashAssumption DEF TInv, TableType, Row
<1>1. ASSUME NextItem = 0 PROVE TInv'
  <2>1. cursor' = 0 /\ visited' = <<>> /\ htable' = htable /\ inserted' = inserted
    BY <1>1 DEF hash_next_item
  <2>2. Iterating'
    BY <2>1 DEF Iterating
  <2>3. (TableType /\ InItsRow /\ IdsDiffer /\ Kept)'
    BY <2>1, SameTable
  <2> QED BY <2>2, <2>3 DEF TInv
<1>2. CASE cursor = 0
  <2>1. NextItem = FirstIn(0)
    BY <1>2 DEF NextItem
  <2>2. ASSUME NEW c \in Row, 1 \in 1..Len(htable[c]), FirstIn(0) = htable[c][1].id,
               \A d \in Row : 0 <= d /\ d < c => Len(htable[d]) = 0
        PROVE  TInv'
    <3>1. NoneBetween(-1, 0, c, 1)
      <4>1. -1 < c
        BY <1>0
      <4>2. ASSUME NEW d \in Row, NEW i \in 1..Len(htable[d]), d < c \/ (d = c /\ i <= 1) PROVE d = c /\ i = 1
        BY <1>0, <2>2, <4>2
      <4> QED BY <4>1, <4>2 DEF NoneBetween
    <3>2. visited = <<>>
      BY <1>2 DEF TInv, Iterating
    <3>3. visited \in Seq(1..MaxNodes) /\ IsInjective(visited) /\ Range(visited) = {}
      BY <3>2 DEF IsInjective, Range
    <3>4. UpTo(-1, 0) = {}
      BY <1>0 DEF UpTo
    <3> QED BY <2>1, <2>2, <3>1, <3>3, <3>4, ComesTo
  <2> QED BY <1>1, <2>1, <2>2, FirstInIs
<1>3. CASE cursor # 0
  <2>1. PICK b \in Row : \E j \in 1..Len(htable[b]) : At(b, j)
    BY <1>3 DEF TInv, Iterating
  <2>2. PICK j \in 1..Len(htable[b]) : At(b, j)
    BY <2>1
  <2>3. NextItem = IF j < Len(htable[b]) THEN htable[b][j + 1].id ELSE FirstIn(b + 1)
    BY <1>3, <2>2, NextIs DEF At
  <2>4. visited \in Seq(1..MaxNodes) /\ IsInjective(visited) /\ Range(visited) = UpTo(b, j)
    BY <2>2 DEF At
  <2>5. b \in Int /\ j \in Int
    BY <1>0
  <2>6. CASE j < Len(htable[b])
    <3>1. j + 1 \in 1..Len(htable[b])
      BY <1>0, <2>6
    <3>2. NoneBetween(b, j, b, j + 1)
      <4>1. \A d \in Row : \A i \in 1..Len(htable[d]) :
                d < b \/ (d = b /\ i <= j + 1) => d < b \/ (d = b /\ i <= j) \/ (d = b /\ i = j + 1)
        BY <1>0, <2>5
      <4> QED BY <2>5, <4>1 DEF NoneBetween
    <3>3. NextItem = htable[b][j + 1].id
      BY <2>3, <2>6
    <3> QED BY <2>4, <2>5, <3>1, <3>2, <3>3, ComesTo
  <2>7. CASE ~(j < Len(htable[b]))
    <3>1. NextItem = FirstIn(b + 1) /\ j = Len(htable[b]) /\ b + 1 \in Nat
      BY <1>0, <2>3, <2>7
    <3>2. ASSUME NEW c \in Row, b + 1 <= c, 1 \in 1..Len(htable[c]), FirstIn(b + 1) = htable[c][1].id,
                 \A d \in Row : b + 1 <= d /\ d < c => Len(htable[d]) = 0
          PROVE  TInv'
      <4>1. b < c
        BY <1>0, <3>2
      <4>2. ASSUME NEW d \in Row, NEW i \in 1..Len(htable[d]), d < c \/ (d = c /\ i <= 1)
            PROVE  d < b \/ (d = b /\ i <= j) \/ (d = c /\ i = 1)
        <5>1. CASE d = c
          BY <1>0, <4>1, <4>2, <5>1
        <5>2. CASE d = b
          BY <1>0, <3>1, <5>2
        <5>3. CASE d < c /\ d # b
          <6>1. Len(htable[d]) # 0
            BY <1>0
          <6>2. ~(b + 1 <= d)
            BY <3>2, <5>3, <6>1
          <6> QED BY <1>0, <5>3, <6>2
        <5> QED BY <1>0, <4>2, <5>1, <5>2, <5>3
      <4>3. NoneBetween(b, j, c, 1)
        BY <4>1, <4>2 DEF NoneBetween
      <4> QED BY <2>4, <2>5, <3>1, <3>2, <4>3, ComesTo
    <3> QED BY <1>1, <3>1, <3>2, FirstInIs
  <2> QED BY <2>6, <2>7
<1> QED BY <1>2, <1>3

LEMMA TableStep == TInv /\ [HashNext]_hashVars => TInv'
<1> SUFFICES ASSUME TInv, [HashNext]_hashVars PROVE TInv'
  OBVIOUS
<1>1. ASSUME NEW k \in AddrKey, hash_delete(k) PROVE TInv'
  BY <1>1, TableDelete
<1>2. ASSUME NEW k \in AddrKey, NEW r \in Rec, hash_insert(k, r) PROVE TInv'
  BY <1>2, TableInsert
<1>3. CASE hash_next_item
  BY <1>3, TableIterates
<1>4. CASE hash_delete_all
  BY <1>4, TableDeleteAll
<1>5. CASE UNCHANGED hashVars
  <2>1. htable' = htable /\ inserted' = inserted /\ cursor' = cursor /\ visited' = visited
    BY <1>5 DEF hashVars
  <2>2. (TableType /\ InItsRow /\ IdsDiffer /\ Kept)'
    BY <2>1, SameTable
  <2>3. Iterating'
    <3>1. CASE cursor = 0
      BY <2>1, <3>1 DEF TInv, Iterating
    <3>2. CASE cursor # 0
      <4>1. PICK b \in Row : \E j \in 1..Len(htable[b]) : At(b, j)
        BY <3>2 DEF TInv, Iterating
      <4>2. PICK j \in 1..Len(htable[b]) : At(b, j)
        BY <4>1
      <4>3. UpTo(b, j)' = UpTo(b, j)
        BY <2>1 DEF UpTo
      <4>4. IsInjective(visited)' /\ Range(visited)' = UpTo(b, j)'
        BY <2>1, <4>2, <4>3 DEF At, IsInjective, Range
      <4>5. At(b, j)'
        BY <2>1, <4>2, <4>4 DEF At
      <4>6. j \in 1..Len(htable'[b]) /\ cursor' # 0
        BY <2>1, <3>2
      <4> QED BY <4>5, <4>6 DEF Iterating
    <3> QED BY <3>1, <3>2
  <2> QED BY <2>2, <2>3 DEF TInv
<1> QED BY <1>1, <1>2, <1>3, <1>4, <1>5 DEF HashNext

LEMMA TableHolds == TInv => LastInserted
<1> SUFFICES ASSUME TInv PROVE LastInserted
  OBVIOUS
<1>0. \A d \in Row : d \in Nat /\ Len(htable[d]) \in Nat
  BY AddrHashAssumption DEF TInv, TableType, Row
<1>1. ASSUME NEW k \in AddrKey PROVE hash_find(k) = IF inserted[k] = <<>> THEN <<>> ELSE <<Head(inserted[k])>>
  <2> DEFINE s == htable[hash(k)]
             l == inserted[k]
             f == First(k)
             P == KeyPlaces(s, k)
  <2>1. s \in Seq(Item) /\ l \in Seq(Rec)
    BY HashInRow DEF TInv, TableType
  <2>2. PICK pos : Tracks(s, l, k, pos)
    BY DEF TInv, Kept
  <2>3. f = IF P = {} THEN 0 ELSE Min(P)
    BY DEF First, KeyPlaces
  <2>4. hash_find(k) = IF f = 0 THEN <<>> ELSE <<s[f].rec>>
    BY DEF hash_find
  <2> HIDE DEF s, l, f
  <2>5. /\ P = {} <=> l = <<>>
        /\ l # <<>> => Min(P) = pos[1] /\ pos[1] \in 1..Len(s) /\ s[pos[1]].rec = Head(l) /\ s[pos[1]].key = k
    BY <2>1, <2>2, TracksFirst
  <2> HIDE DEF P
  <2>6. CASE l = <<>>
    BY <2>3, <2>4, <2>5, <2>6 DEF l
  <2>7. CASE l # <<>>
    <3>1. f = pos[1] /\ f \in 1..Len(s) /\ s[f].rec = Head(l)
      BY <2>3, <2>5, <2>7
    <3>2. f # 0
      BY <2>1, <3>1
    <3> QED BY <2>4, <2>7, <3>1, <3>2 DEF l
  <2> QED BY <2>6, <2>7
<1>2. IsInjective(visited)
  <2>1. CASE cursor = 0
    BY <2>1 DEF TInv, Iterating, IsInjective
  <2>2. CASE cursor # 0
    BY <2>2 DEF TInv, Iterating, At
  <2> QED BY <2>1, <2>2
<1>3. ASSUME cursor # 0, NextItem = 0 PROVE Range(visited) = {n.id : n \in TableNodes}
  <2>1. PICK b \in Row : \E j \in 1..Len(htable[b]) : At(b, j)
    BY <1>3 DEF TInv, Iterating
  <2>2. PICK j \in 1..Len(htable[b]) : At(b, j)
    BY <2>1
  <2>3. NextItem = IF j < Len(htable[b]) THEN htable[b][j + 1].id ELSE FirstIn(b + 1)
    BY <1>3, <2>2, NextIs DEF At
  <2>4. \A d \in Row : \A i \in 1..Len(htable[d]) : htable[d][i].id \in 1..MaxNodes /\ htable[d][i].id # 0
    BY IdsAre DEF TInv
  <2>5. ~(j < Len(htable[b]))
    <3> SUFFICES ASSUME j < Len(htable[b]) PROVE FALSE
      OBVIOUS
    <3>1. j + 1 \in 1..Len(htable[b])
      BY <1>0
    <3> QED BY <1>3, <2>3, <2>4, <3>1
  <2>6. FirstIn(b + 1) = 0 /\ j = Len(htable[b]) /\ b + 1 \in Nat
    BY <1>0, <1>3, <2>3, <2>5
  <2>7. \A c \in Row : b + 1 <= c => Len(htable[c]) = 0
    BY <2>4, <2>6, FirstInIs
  <2>8. \A d \in Row : \A i \in 1..Len(htable[d]) : d < b \/ (d = b /\ i <= j)
    BY <1>0, <2>6, <2>7
  <2>9. \A x : x \in UpTo(b, j) <=> \E d \in Row : \E i \in 1..Len(htable[d]) : x = htable[d][i].id
    BY <2>4, <2>8 DEF UpTo
  <2>10. \A x : x \in {n.id : n \in TableNodes} <=> \E d \in Row : \E i \in 1..Len(htable[d]) : x = htable[d][i].id
    BY TableHas DEF TInv
  <2>11. Range(visited) = UpTo(b, j)
    BY <2>2 DEF At
  <2> QED BY <2>9, <2>10, <2>11
<1> QED BY <1>1, <1>2, <1>3 DEF LastInserted

\* For every table size, set of keys and sequence of calls: hash_find() returns the
\* record that was inserted last for the key and is not deleted yet, whatever shares
\* its bucket, and hash_next_item() comes to every node once before it returns NULL.
THEOREM LastIsFound == HashSpec => []LastInserted
<1>1. HashSpec => []TInv
  BY TableInitially, TableStep, PTL DEF HashSpec
<1> QED BY <1>1, TableHolds, PTL

-------------------------------------------------------------------------------
(* The doubly linked list.                                                   *)

Cell == LHead \cup Entry
Links == [next : [Cell -> Cell \cup {Poison}], prev : [Cell -> Cell \cup {Poison}]]

\* What the circle of a list s with head h leads through.
Ring(s, h, i) == IF i \in 1..Len(s) THEN s[i] ELSE h
Circle(L, s, h) ==
    \A i \in 0..Len(s) : L.next[Ring(s, h, i)] = Ring(s, h, i + 1) /\ L.prev[Ring(s, h, i + 1)] = Ring(s, h, i)

\* An entry is on one list, once.
Apart(ls) ==
    \A g, h \in LHead : \A i \in 1..Len(ls[g]), j \in 1..Len(ls[h]) : ls[g][i] = ls[h][j] => g = h /\ i = j
Shape(L, ls, st) ==
    L \in Links /\ ls \in [LHead -> Seq(Entry)] /\ st \subseteq LHead /\ Apart(ls)
    /\ \A h \in st : ls[h] = <<>>
\* Every list is a circle, except one that has to be initialised first.
Sound(L, ls, st) == Shape(L, ls, st) /\ \A h \in LHead \ st : Circle(L, ls[h], h)

Free(ls, e) == \A h \in LHead : \A i \in 1..Len(ls[h]) : ls[h][i] # e

\* The spots of the circles: a head or an entry each, and no two of them the same.
LEMMA RingIs ==
    ASSUME NEW ls \in [LHead -> Seq(Entry)], Apart(ls)
    PROVE  /\ \A h \in LHead : /\ Len(ls[h]) \in Nat /\ ls[h] \in Seq(Entry)
                               /\ Ring(ls[h], h, 0) = h /\ Ring(ls[h], h, Len(ls[h]) + 1) = h
           /\ \A h \in LHead : \A i \in 1..Len(ls[h]) : Ring(ls[h], h, i) = ls[h][i] /\ ls[h][i] \in Entry
           /\ \A h \in LHead : \A i \in Int : Ring(ls[h], h, i) \in Cell
           /\ \A g, h \in LHead : \A i \in 0..Len(ls[g]), j \in 0..Len(ls[h]) :
                  Ring(ls[g], g, i) = Ring(ls[h], h, j) => g = h /\ i = j
<1>1. \A h \in LHead : ls[h] \in Seq(Entry) /\ Len(ls[h]) \in Nat
  OBVIOUS
<1>2. \A h \in LHead : Ring(ls[h], h, 0) = h /\ Ring(ls[h], h, Len(ls[h]) + 1) = h
  BY <1>1 DEF Ring
<1>3. \A h \in LHead : \A i \in 1..Len(ls[h]) : Ring(ls[h], h, i) = ls[h][i] /\ ls[h][i] \in Entry
  BY <1>1 DEF Ring
<1>4. \A h \in LHead : \A i \in Int : Ring(ls[h], h, i) \in Cell
  BY <1>1 DEF Ring, Cell
<1>5. ASSUME NEW g \in LHead, NEW h \in LHead, NEW i \in 0..Len(ls[g]), NEW j \in 0..Len(ls[h]),
             Ring(ls[g], g, i) = Ring(ls[h], h, j)
      PROVE  g = h /\ i = j
  <2>1. (i = 0 \/ i \in 1..Len(ls[g])) /\ (j = 0 \/ j \in 1..Len(ls[h]))
    BY <1>1
  <2>2. CASE i = 0
    BY <1>2, <1>3, <1>5, <2>1, <2>2, ListAssumption
  <2>3. CASE j = 0
    BY <1>2, <1>3, <1>5, <2>1, <2>3, ListAssumption
  <2>4. CASE i \in 1..Len(ls[g]) /\ j \in 1..Len(ls[h])
    BY <1>3, <1>5, <2>4 DEF Apart
  <2> QED BY <2>1, <2>2, <2>3, <2>4
<1> QED BY <1>1, <1>2, <1>3, <1>4, <1>5

\* A circle whose pointers are left alone.
Untouched(L, M, s, h) ==
    \A i \in 0..Len(s) : M.next[Ring(s, h, i)] = L.next[Ring(s, h, i)] /\ M.prev[Ring(s, h, i)] = L.prev[Ring(s, h, i)]

LEMMA CircleStays ==
    ASSUME NEW S, NEW s \in Seq(S), NEW h, NEW L, NEW M, Circle(L, s, h), Untouched(L, M, s, h)
    PROVE  Circle(M, s, h)
<1> DEFINE N == Len(s)
<1>1. N \in Nat
  OBVIOUS
<1>2. Ring(s, h, N + 1) = Ring(s, h, 0)
  BY <1>1 DEF Ring
<1>3. ASSUME NEW i \in 0..N
      PROVE  M.next[Ring(s, h, i)] = Ring(s, h, i + 1) /\ M.prev[Ring(s, h, i + 1)] = Ring(s, h, i)
  <2>1. L.next[Ring(s, h, i)] = Ring(s, h, i + 1) /\ L.prev[Ring(s, h, i + 1)] = Ring(s, h, i)
    BY DEF Circle
  <2>2. M.next[Ring(s, h, i)] = L.next[Ring(s, h, i)]
    BY DEF Untouched
  <2>3. M.prev[Ring(s, h, i + 1)] = L.prev[Ring(s, h, i + 1)]
    <3>1. CASE i = N
      <4>1. 0 \in 0..N
        BY <1>1
      <4> QED BY <1>2, <3>1, <4>1 DEF Untouched
    <3>2. CASE i # N
      <4>1. i + 1 \in 0..N
        BY <1>1, <3>2
      <4> QED BY <4>1 DEF Untouched
    <3> QED BY <3>1, <3>2
  <2> QED BY <2>1, <2>2, <2>3
<1> QED BY <1>3 DEF Circle

\* Pointers of an entry that is on no list, whatever they are set to.
LEMMA FreeSet ==
    ASSUME NEW L, NEW ls, NEW st, Sound(L, ls, st), NEW e \in Entry, Free(ls, e),
           NEW x \in Cell \cup {Poison}, NEW y \in Cell \cup {Poison},
           NEW M, M = [next |-> [L.next EXCEPT ![e] = x], prev |-> [L.prev EXCEPT ![e] = y]]
    PROVE  Sound(M, ls, st)
<1>1. Shape(L, ls, st) /\ e \in Cell
  BY DEF Sound, Cell
<1>2. M \in Links
  BY <1>1 DEF Shape, Links
<1>3. \A z \in Cell : z # e => M.next[z] = L.next[z] /\ M.prev[z] = L.prev[z]
  BY <1>1 DEF Shape, Links
<1>4. ls \in [LHead -> Seq(Entry)] /\ Apart(ls)
  BY <1>1 DEF Shape
<1>5. ASSUME NEW h \in LHead \ st PROVE Circle(M, ls[h], h)
  <2>1. ASSUME NEW i \in 0..Len(ls[h]) PROVE Ring(ls[h], h, i) \in Cell /\ Ring(ls[h], h, i) # e
    <3>1. i = 0 \/ i \in 1..Len(ls[h])
      BY <1>4
    <3>2. h # e
      BY ListAssumption
    <3>3. i \in Int
      BY <1>4
    <3>4. Ring(ls[h], h, i) \in Cell
      BY <1>4, <3>3, RingIs
    <3>5. CASE i \in 1..Len(ls[h])
      <4>1. Ring(ls[h], h, i) = ls[h][i]
        BY <3>5 DEF Ring
      <4>2. ls[h][i] # e
        BY <3>5 DEF Free
      <4> QED BY <3>4, <4>1, <4>2
    <3>6. CASE ~(i \in 1..Len(ls[h]))
      <4>1. Ring(ls[h], h, i) = h
        BY <3>6 DEF Ring
      <4> QED BY <3>2, <3>4, <4>1
    <3> QED BY <3>5, <3>6
  <2>2. Untouched(L, M, ls[h], h)
    BY <1>3, <2>1 DEF Untouched
  <2>3. Circle(L, ls[h], h) /\ ls[h] \in Seq(Entry)
    BY <1>4 DEF Sound
  <2> QED BY <2>2, <2>3, CircleStays
<1> QED BY <1>1, <1>2, <1>5 DEF Sound, Shape

\* At most the pointers of e and of the circle of g change, and e is on no other list.
Only(L, M, ls, g, e) ==
    /\ \A z \in Cell : \/ z = e \/ \E i \in 0..Len(ls[g]) : z = Ring(ls[g], g, i)
                       \/ M.next[z] = L.next[z] /\ M.prev[z] = L.prev[z]
    /\ \A h \in LHead \ {g} : \A j \in 1..Len(ls[h]) : ls[h][j] # e

\* One list changes: the others stay circles.
LEMMA OneChanged ==
    ASSUME NEW L, NEW ls, NEW st, Sound(L, ls, st), NEW g \in LHead \ st, NEW e \in Entry,
           NEW M \in Links, Only(L, M, ls, g, e),
           NEW t \in Seq(Entry), Apart([ls EXCEPT ![g] = t]), Circle(M, t, g)
    PROVE  Sound(M, [ls EXCEPT ![g] = t], st)
<1> DEFINE ms == [ls EXCEPT ![g] = t]
<1>1. ls \in [LHead -> Seq(Entry)] /\ Apart(ls) /\ st \subseteq LHead /\ \A h \in st : ls[h] = <<>>
  BY DEF Sound, Shape
<1>2. ms \in [LHead -> Seq(Entry)] /\ ms[g] = t /\ \A h \in LHead : h # g => ms[h] = ls[h]
  BY <1>1
<1> HIDE DEF ms
<1>3. Shape(M, ms, st)
  BY <1>1, <1>2 DEF Shape, ms
<1>4. ASSUME NEW h \in LHead \ st, h # g PROVE Circle(M, ms[h], h)
  <2>1. ASSUME NEW i \in 0..Len(ls[h])
        PROVE  M.next[Ring(ls[h], h, i)] = L.next[Ring(ls[h], h, i)] /\ M.prev[Ring(ls[h], h, i)] = L.prev[Ring(ls[h], h, i)]
    <3> DEFINE z == Ring(ls[h], h, i)
    <3>1. i \in Int /\ (i = 0 \/ i \in 1..Len(ls[h]))
      BY <1>1
    <3>2. z \in Cell
      BY <1>1, <3>1, RingIs
    <3>3. z # e
      <4>1. CASE i = 0
        BY <1>1, <4>1, ListAssumption, RingIs
      <4>2. CASE i \in 1..Len(ls[h])
        <5>1. ls[h][i] # e
          BY <1>4, <4>2 DEF Only
        <5>2. z = ls[h][i]
          BY <4>2 DEF Ring
        <5> QED BY <5>1, <5>2
      <4> QED BY <3>1, <4>1, <4>2
    <3>4. \A j \in 0..Len(ls[g]) : z # Ring(ls[g], g, j)
      BY <1>1, <1>4, RingIs
    <3> HIDE DEF z
    <3>5. M.next[z] = L.next[z] /\ M.prev[z] = L.prev[z]
      BY <3>2, <3>3, <3>4 DEF Only
    <3> QED BY <3>5 DEF z
  <2>2. Untouched(L, M, ls[h], h)
    BY <2>1 DEF Untouched
  <2>3. Circle(L, ls[h], h) /\ ls[h] \in Seq(Entry) /\ ms[h] = ls[h]
    BY <1>1, <1>2, <1>4 DEF Sound
  <2> QED BY <2>2, <2>3, CircleStays
<1>5. \A h \in LHead \ st : Circle(M, ms[h], h)
  BY <1>2, <1>4
<1> QED BY <1>3, <1>5 DEF Sound, ms

\* __list_add() between two neighbours.
LEMMA Added ==
    ASSUME NEW L, NEW ls, NEW st, Sound(L, ls, st), NEW h \in LHead \ st, NEW e \in Entry, Free(ls, e),
           NEW k \in 0..Len(ls[h])
    PROVE  Sound(__list_add(L, e, Ring(ls[h], h, k), Ring(ls[h], h, k + 1)), [ls EXCEPT ![h] = InsertAt(ls[h], k + 1, e)], st)
<1> DEFINE s == ls[h]
           N == Len(s)
           t == InsertAt(s, k + 1, e)
           M == __list_add(L, e, Ring(s, h, k), Ring(s, h, k + 1))
           ms == [ls EXCEPT ![h] = t]
<1>1. L \in Links /\ ls \in [LHead -> Seq(Entry)] /\ Apart(ls)
  BY DEF Sound, Shape
<1>2. s \in Seq(Entry) /\ N \in Nat /\ k \in Nat /\ k <= N /\ k + 1 \in 1..N + 1
  BY <1>1
<1>3. t \in Seq(Entry) /\ Len(t) = N + 1
  <2> DEFINE q == k + 1
  <2>1. q \in 1..Len(s) + 1
    BY <1>2
  <2> HIDE DEF s, q
  <2>2. InsertAt(s, q, e) \in Seq(Entry) /\ Len(InsertAt(s, q, e)) = Len(s) + 1
    BY <1>2, <2>1, Inserting
  <2> QED BY <2>2 DEF q
<1>4. \A j \in 1..N + 1 : t[j] = IF j < k + 1 THEN s[j] ELSE IF j = k + 1 THEN e ELSE s[j - 1]
  <2> DEFINE q == k + 1
  <2>1. q \in 1..Len(s) + 1
    BY <1>2
  <2> HIDE DEF s, q
  <2>2. q \in 1..Len(s) + 1 /\ s \in Seq(Entry) /\ e \in Entry
    BY <1>2, <2>1
  <2>3. \A j \in 1..Len(s) + 1 : InsertAt(s, q, e)[j] = IF j < q THEN s[j] ELSE IF j = q THEN e ELSE s[j - 1]
    BY <2>2, Inserting
  <2> QED BY <2>3 DEF q
<1>5. /\ \A i \in 0..N + 1 : Ring(s, h, i) \in Cell /\ Ring(s, h, i) # e
      /\ \A i, j \in 0..N : Ring(s, h, i) = Ring(s, h, j) => i = j
      /\ Ring(s, h, 0) = h /\ Ring(s, h, N + 1) = h /\ \A i \in 1..N : Ring(s, h, i) = s[i]
      /\ e \in Cell
  <2>1. \A i \in 0..N + 1 : i = 0 \/ i = N + 1 \/ i \in 1..N
    BY <1>2
  <2>2. h # e /\ e \in Cell
    BY ListAssumption DEF Cell
  <2>3. \A i \in 1..N : s[i] # e
    BY DEF Free
  <2>4. Ring(s, h, 0) = h /\ Ring(s, h, N + 1) = h /\ \A i \in 1..N : Ring(s, h, i) = s[i]
    BY <1>1, RingIs
  <2>5. \A i \in 0..N + 1 : Ring(s, h, i) \in Cell
    BY <1>1, <1>2, RingIs
  <2>6. \A i, j \in 0..N : Ring(s, h, i) = Ring(s, h, j) => i = j
    BY <1>1, RingIs
  <2> QED BY <2>1, <2>2, <2>3, <2>4, <2>5, <2>6
<1>6. \A i \in 0..N : L.next[Ring(s, h, i)] = Ring(s, h, i + 1) /\ L.prev[Ring(s, h, i + 1)] = Ring(s, h, i)
  BY DEF Sound, Circle
<1> DEFINE a == Ring(s, h, k)
           b == Ring(s, h, k + 1)
<1>7. a \in Cell /\ b \in Cell /\ a # e /\ b # e
  BY <1>2, <1>5
<1>8. M \in Links
  <2> HIDE DEF a, b
  <2>1. M = __list_add(L, e, a, b)
    BY DEF a, b
  <2> QED BY <1>1, <1>5, <1>7, <2>1 DEF Links, __list_add
<1>9. \A z \in Cell : /\ M.next[z] = IF z = a THEN e ELSE IF z = e THEN b ELSE L.next[z]
                      /\ M.prev[z] = IF z = e THEN a ELSE IF z = b THEN e ELSE L.prev[z]
  <2> HIDE DEF a, b
  <2>1. M = __list_add(L, e, a, b)
    BY DEF a, b
  <2> QED BY <1>1, <1>5, <1>7, <2>1 DEF Links, __list_add
<1> HIDE DEF M, t
<1>10. Ring(t, h, k + 1) = e /\ \A j \in 0..N + 2 : j # k + 1 => Ring(t, h, j) = IF j < k + 1 THEN Ring(s, h, j) ELSE Ring(s, h, j - 1)
  <2>1. Ring(t, h, k + 1) = e
    BY <1>2, <1>3, <1>4 DEF Ring
  <2>2. ASSUME NEW j \in 0..N + 2, j # k + 1 PROVE Ring(t, h, j) = IF j < k + 1 THEN Ring(s, h, j) ELSE Ring(s, h, j - 1)
    <3>1. CASE j = 0
      BY <1>2, <1>3, <3>1 DEF Ring
    <3>2. CASE j = N + 2
      BY <1>2, <1>3, <3>2 DEF Ring
    <3>3. CASE j \in 1..N + 1 /\ j < k + 1
      <4>1. j \in 1..N /\ j \in 1..Len(t)
        BY <1>2, <1>3, <3>3
      <4> QED BY <1>4, <3>3, <4>1 DEF Ring
    <3>4. CASE j \in 1..N + 1 /\ ~(j < k + 1)
      <4>1. j - 1 \in 1..N /\ j \in 1..Len(t)
        BY <1>2, <1>3, <2>2, <3>4
      <4> QED BY <1>4, <2>2, <3>4, <4>1 DEF Ring
    <3> QED BY <1>2, <3>1, <3>2, <3>3, <3>4
  <2> QED BY <2>1, <2>2
<1>11. Circle(M, t, h)
  <2> SUFFICES ASSUME NEW j \in 0..N + 1
               PROVE  M.next[Ring(t, h, j)] = Ring(t, h, j + 1) /\ M.prev[Ring(t, h, j + 1)] = Ring(t, h, j)
    BY <1>3 DEF Circle
  <2>1. CASE j = k
    <3>1. Ring(t, h, j) = a /\ Ring(t, h, j + 1) = e
      BY <1>2, <1>10, <2>1
    <3> QED BY <1>5, <1>7, <1>9, <3>1
  <2>2. CASE j = k + 1
    <3>1. Ring(t, h, j) = e /\ Ring(t, h, j + 1) = b
      <4>1. j + 1 \in 0..N + 2 /\ j + 1 # k + 1 /\ ~(j + 1 < k + 1) /\ (j + 1) - 1 = k + 1
        BY <1>2, <2>2
      <4> QED BY <1>10, <2>2, <4>1
    <3> QED BY <1>5, <1>7, <1>9, <3>1
  <2>3. CASE j # k /\ j # k + 1
    <3>1. PICK i \in 0..N : i # k /\ Ring(t, h, j) = Ring(s, h, i) /\ Ring(t, h, j + 1) = Ring(s, h, i + 1)
      <4>1. CASE j < k
        <5>1. j \in 0..N /\ j + 1 < k + 1 /\ j + 1 \in 0..N + 2 /\ j + 1 # k + 1 /\ j < k + 1 /\ j \in 0..N + 2
          BY <1>2, <4>1
        <5> QED BY <1>10, <2>3, <5>1
      <4>2. CASE ~(j < k)
        <5>1. /\ j - 1 \in 0..N /\ ~(j < k + 1) /\ ~(j + 1 < k + 1) /\ j \in 0..N + 2 /\ j + 1 \in 0..N + 2
              /\ j + 1 # k + 1 /\ j - 1 # k /\ (j + 1) - 1 = (j - 1) + 1
          BY <1>2, <2>3, <4>2
        <5> QED BY <1>10, <2>3, <5>1
      <4> QED BY <4>1, <4>2
    <3>2. Ring(s, h, i) # a
      BY <1>2, <1>5, <3>1
    <3>3. Ring(s, h, i + 1) # b
      <4>1. CASE i = N
        <5>1. Ring(s, h, i + 1) = Ring(s, h, 0) /\ 0 \in 0..N /\ k + 1 \in 0..N /\ k + 1 # 0
          BY <1>2, <1>5, <3>1, <4>1
        <5> QED BY <1>5, <5>1
      <4>2. CASE k = N
        <5>1. b = Ring(s, h, 0) /\ 0 \in 0..N /\ i + 1 \in 0..N /\ i + 1 # 0
          BY <1>2, <1>5, <3>1, <4>2
        <5> QED BY <1>5, <5>1
      <4>3. CASE i # N /\ k # N
        <5>1. i + 1 \in 0..N /\ k + 1 \in 0..N /\ i + 1 # k + 1
          BY <1>2, <3>1, <4>3
        <5> QED BY <1>5, <5>1
      <4> QED BY <4>1, <4>2, <4>3
    <3>4. i + 1 \in 0..N + 1 /\ i \in 0..N + 1
      BY <1>2
    <3>5. /\ Ring(s, h, i) \in Cell /\ Ring(s, h, i) # e /\ Ring(s, h, i + 1) \in Cell /\ Ring(s, h, i + 1) # e
      BY <1>5, <3>4
    <3>6. M.next[Ring(s, h, i)] = L.next[Ring(s, h, i)]
      BY <1>9, <3>2, <3>5
    <3>7. M.prev[Ring(s, h, i + 1)] = L.prev[Ring(s, h, i + 1)]
      BY <1>9, <3>3, <3>5
    <3> QED BY <1>6, <3>1, <3>6, <3>7
  <2> QED BY <2>1, <2>2, <2>3
<1>12. Apart(ms)
  <2>1. ms[h] = t /\ \A g \in LHead : g # h => ms[g] = ls[g]
    BY <1>1
  <2> HIDE DEF ms
  <2>2. \A g \in LHead : \A j \in 1..Len(ms[g]) :
            \/ g = h /\ j = k + 1 /\ ms[g][j] = e
            \/ \E i \in 1..Len(ls[g]) : ms[g][j] = ls[g][i] /\ j = IF g = h /\ i > k THEN i + 1 ELSE i
    <3> SUFFICES ASSUME NEW g \in LHead, NEW j \in 1..Len(ms[g])
                 PROVE  \/ g = h /\ j = k + 1 /\ ms[g][j] = e
                        \/ \E i \in 1..Len(ls[g]) : ms[g][j] = ls[g][i] /\ j = IF g = h /\ i > k THEN i + 1 ELSE i
      OBVIOUS
    <3>1. CASE g # h
      BY <2>1, <3>1
    <3>2. CASE g = h
      <4>1. j \in 1..N + 1 /\ ms[g] = t
        BY <1>3, <2>1, <3>2
      <4>2. CASE j = k + 1
        BY <1>4, <3>2, <4>1, <4>2
      <4>3. CASE j < k + 1
        <5>1. j \in 1..N /\ ~(j > k)
          BY <1>2, <4>1, <4>3
        <5> QED BY <1>4, <3>2, <4>1, <4>3, <5>1
      <4>4. CASE j > k + 1
        <5>1. j - 1 \in 1..N /\ j - 1 > k /\ j = (j - 1) + 1 /\ ~(j < k + 1) /\ j # k + 1
          BY <1>2, <4>1, <4>4
        <5>2. t[j] = s[j - 1]
          BY <1>4, <4>1, <5>1
        <5> QED BY <3>2, <4>1, <5>1, <5>2
      <4> QED BY <1>2, <4>1, <4>2, <4>3, <4>4
    <3> QED BY <3>1, <3>2
  <2>3. ASSUME NEW g \in LHead, NEW f \in LHead, NEW i \in 1..Len(ms[g]), NEW j \in 1..Len(ms[f]), ms[g][i] = ms[f][j]
        PROVE  g = f /\ i = j
    <3>1. \A c \in LHead : \A m \in 1..Len(ls[c]) : ls[c][m] # e
      BY DEF Free
    <3>2. \/ g = h /\ i = k + 1 /\ ms[g][i] = e
          \/ \E m \in 1..Len(ls[g]) : ms[g][i] = ls[g][m] /\ i = IF g = h /\ m > k THEN m + 1 ELSE m
      BY <2>2
    <3>3. \/ f = h /\ j = k + 1 /\ ms[f][j] = e
          \/ \E m \in 1..Len(ls[f]) : ms[f][j] = ls[f][m] /\ j = IF f = h /\ m > k THEN m + 1 ELSE m
      BY <2>2
    <3>4. CASE g = h /\ i = k + 1 /\ ms[g][i] = e
      BY <2>3, <3>1, <3>3, <3>4
    <3>5. ASSUME NEW m \in 1..Len(ls[g]), ms[g][i] = ls[g][m], i = IF g = h /\ m > k THEN m + 1 ELSE m
          PROVE  g = f /\ i = j
      <4>1. PICK n \in 1..Len(ls[f]) : ms[f][j] = ls[f][n] /\ j = IF f = h /\ n > k THEN n + 1 ELSE n
        BY <2>3, <3>1, <3>3, <3>5
      <4>2. ls[g][m] = ls[f][n]
        BY <2>3, <3>5, <4>1
      <4>3. g = f /\ m = n
        BY <1>1, <4>2 DEF Apart
      <4> QED BY <3>5, <4>1, <4>3
    <3> QED BY <3>2, <3>4, <3>5
  <2> QED BY <2>3 DEF Apart
<1>13. Only(L, M, ls, h, e)
  <2>1. ASSUME NEW z \in Cell, z # e, \A i \in 0..N : z # Ring(s, h, i) PROVE M.next[z] = L.next[z] /\ M.prev[z] = L.prev[z]
    <3>1. z # a
      BY <1>2, <2>1
    <3>2. z # b
      <4>1. CASE k = N
        BY <1>2, <1>5, <2>1, <4>1
      <4>2. CASE k # N
        <5>1. k + 1 \in 0..N
          BY <1>2, <4>2
        <5> QED BY <2>1, <5>1
      <4> QED BY <4>1, <4>2
    <3> QED BY <1>9, <2>1, <3>1, <3>2
  <2> QED BY <2>1 DEF Only, Free
<1>14. Sound(M, ms, st)
  BY <1>3, <1>8, <1>11, <1>12, <1>13, OneChanged
<1> QED BY <1>14 DEF M, t

\* No two spots of a circle have the same spot behind them.
LEMMA RingTurns ==
    ASSUME NEW ls \in [LHead -> Seq(Entry)], Apart(ls), NEW h \in LHead
    PROVE  \A i, j \in 0..Len(ls[h]) : Ring(ls[h], h, i + 1) = Ring(ls[h], h, j + 1) => i = j
<1> DEFINE s == ls[h]
           N == Len(s)
<1>1. N \in Nat /\ Ring(s, h, N + 1) = Ring(s, h, 0) /\ 0 \in 0..N
  BY RingIs
<1>2. \A i, j \in 0..N : Ring(s, h, i) = Ring(s, h, j) => i = j
  BY RingIs
<1> HIDE DEF s, N
<1>3. SUFFICES ASSUME NEW i \in 0..N, NEW j \in 0..N, Ring(s, h, i + 1) = Ring(s, h, j + 1) PROVE i = j
  BY DEF s, N
<1>4. CASE i = N /\ j # N
  <2>1. j + 1 \in 0..N /\ j + 1 # 0
    BY <1>1, <1>4
  <2> QED BY <1>1, <1>2, <1>3, <1>4, <2>1
<1>5. CASE i # N /\ j = N
  <2>1. i + 1 \in 0..N /\ i + 1 # 0
    BY <1>1, <1>5
  <2> QED BY <1>1, <1>2, <1>3, <1>5, <2>1
<1>6. CASE i # N /\ j # N
  <2>1. i + 1 \in 0..N /\ j + 1 \in 0..N
    BY <1>1, <1>6
  <2>2. i + 1 = j + 1
    BY <1>2, <1>3, <2>1
  <2> QED BY <1>1, <2>2
<1> QED BY <1>4, <1>5, <1>6

\* The circle without its k-th entry.
LEMMA RingRemoved ==
    ASSUME NEW s \in Seq(Entry), NEW h, NEW k \in 1..Len(s)
    PROVE  \A j \in 0..Len(s) : Ring(RemoveAt(s, k), h, j) = IF j < k THEN Ring(s, h, j) ELSE Ring(s, h, j + 1)
<1> DEFINE N == Len(s)
           t == RemoveAt(s, k)
<1>1. N \in Nat /\ k \in Nat /\ 1 <= k /\ k <= N /\ Len(t) = N - 1
  BY Removing
<1>2. \A j \in 1..N - 1 : t[j] = IF j < k THEN s[j] ELSE s[j + 1]
  BY Removing
<1> HIDE DEF N, t
<1> SUFFICES ASSUME NEW j \in 0..N PROVE Ring(t, h, j) = IF j < k THEN Ring(s, h, j) ELSE Ring(s, h, j + 1)
  BY DEF N, t
<1>3. Len(s) = N
  BY DEF N
<1>4. CASE j = 0
  BY <1>1, <1>3, <1>4 DEF Ring
<1>5. CASE j = N
  BY <1>1, <1>3, <1>5 DEF Ring
<1>6. CASE j \in 1..N - 1 /\ j < k
  <2>1. j \in 1..N /\ j \in 1..Len(t)
    BY <1>1, <1>6
  <2> QED BY <1>2, <1>3, <1>6, <2>1 DEF Ring
<1>7. CASE j \in 1..N - 1 /\ ~(j < k)
  <2>1. j + 1 \in 1..N /\ j \in 1..Len(t)
    BY <1>1, <1>7
  <2> QED BY <1>2, <1>3, <1>7, <2>1 DEF Ring
<1> QED BY <1>1, <1>4, <1>5, <1>6, <1>7

\* __list_del() of the neighbours of an entry.
LEMMA Deleted ==
    ASSUME NEW L, NEW ls, NEW st, Sound(L, ls, st), NEW h \in LHead \ st, NEW k \in 1..Len(ls[h])
    PROVE  /\ Sound(__list_del(L, Ring(ls[h], h, k - 1), Ring(ls[h], h, k + 1)), [ls EXCEPT ![h] = RemoveAt(ls[h], k)], st)
           /\ Free([ls EXCEPT ![h] = RemoveAt(ls[h], k)], ls[h][k])
<1> DEFINE s == ls[h]
           N == Len(s)
           t == RemoveAt(s, k)
           M == __list_del(L, Ring(s, h, k - 1), Ring(s, h, k + 1))
           ms == [ls EXCEPT ![h] = t]
           e == s[k]
<1>1. L \in Links /\ ls \in [LHead -> Seq(Entry)] /\ Apart(ls)
  BY DEF Sound, Shape
<1>2. s \in Seq(Entry) /\ N \in Nat /\ k \in Nat /\ 1 <= k /\ k <= N /\ k \in 1..N /\ e \in Entry
  BY <1>1
<1>3. t \in Seq(Entry) /\ Len(t) = N - 1
  <2> HIDE DEF s
  <2> QED BY <1>2, Removing
<1>4. \A j \in 1..N - 1 : t[j] = IF j < k THEN s[j] ELSE s[j + 1]
  <2> HIDE DEF s
  <2> QED BY <1>2, Removing
<1>5. /\ \A i \in 0..N + 1 : Ring(s, h, i) \in Cell
      /\ \A i, j \in 0..N : Ring(s, h, i) = Ring(s, h, j) => i = j
      /\ \A i, j \in 0..N : Ring(s, h, i + 1) = Ring(s, h, j + 1) => i = j
      /\ Ring(s, h, 0) = h /\ Ring(s, h, N + 1) = h /\ \A i \in 1..N : Ring(s, h, i) = s[i]
  <2>1. Ring(s, h, 0) = h /\ Ring(s, h, N + 1) = h /\ \A i \in 1..N : Ring(s, h, i) = s[i]
    BY <1>1, RingIs
  <2>2. \A i \in 0..N + 1 : Ring(s, h, i) \in Cell
    BY <1>1, <1>2, RingIs
  <2>3. \A i, j \in 0..N : Ring(s, h, i) = Ring(s, h, j) => i = j
    BY <1>1, RingIs
  <2>4. \A i, j \in 0..N : Ring(s, h, i + 1) = Ring(s, h, j + 1) => i = j
    BY <1>1, RingTurns
  <2> QED BY <2>1, <2>2, <2>3, <2>4
<1>6. \A i \in 0..N : L.next[Ring(s, h, i)] = Ring(s, h, i + 1) /\ L.prev[Ring(s, h, i + 1)] = Ring(s, h, i)
  BY DEF Sound, Circle
<1> DEFINE a == Ring(s, h, k - 1)
           b == Ring(s, h, k + 1)
<1>7. a \in Cell /\ b \in Cell
  <2>1. k - 1 \in 0..N + 1 /\ k + 1 \in 0..N + 1
    BY <1>2
  <2> QED BY <1>5, <2>1
<1>8. M \in Links /\ \A z \in Cell : /\ M.next[z] = IF z = a THEN b ELSE L.next[z]
                                     /\ M.prev[z] = IF z = b THEN a ELSE L.prev[z]
  <2> HIDE DEF a, b
  <2>1. M = __list_del(L, a, b)
    BY DEF a, b
  <2> QED BY <1>1, <1>7, <2>1 DEF Links, __list_del
<1> HIDE DEF M, t
<1>9. \A j \in 0..N : Ring(t, h, j) = IF j < k THEN Ring(s, h, j) ELSE Ring(s, h, j + 1)
  <2> HIDE DEF s
  <2> QED BY <1>2, RingRemoved DEF t
<1>10. Circle(M, t, h)
  <2> SUFFICES ASSUME NEW j \in 0..N - 1
               PROVE  M.next[Ring(t, h, j)] = Ring(t, h, j + 1) /\ M.prev[Ring(t, h, j + 1)] = Ring(t, h, j)
    BY <1>3 DEF Circle
  <2>0. j \in 0..N /\ j + 1 \in 0..N
    BY <1>2
  <2>1. CASE j = k - 1
    <3>1. j < k /\ ~(j + 1 < k) /\ (j + 1) + 1 = k + 1
      BY <1>2, <2>1
    <3>2. Ring(t, h, j) = a /\ Ring(t, h, j + 1) = b
      BY <1>9, <2>0, <2>1, <3>1
    <3> QED BY <1>7, <1>8, <3>2
  <2>2. CASE j # k - 1
    <3>1. PICK i \in 0..N : i # k - 1 /\ i # k /\ Ring(t, h, j) = Ring(s, h, i) /\ Ring(t, h, j + 1) = Ring(s, h, i + 1)
      <4>1. CASE j < k
        <5>1. j # k /\ j + 1 < k
          BY <1>2, <2>2, <4>1
        <5> QED BY <1>9, <2>0, <2>2, <4>1, <5>1
      <4>2. CASE ~(j < k)
        <5>1. j + 1 # k - 1 /\ j + 1 # k /\ ~(j + 1 < k)
          BY <1>2, <4>2
        <5> QED BY <1>9, <2>0, <4>2, <5>1
      <4> QED BY <4>1, <4>2
    <3>2. k - 1 \in 0..N /\ k \in 0..N /\ i \in 0..N + 1 /\ i + 1 \in 0..N + 1
      BY <1>2
    <3>3. Ring(s, h, i) # a /\ Ring(s, h, i + 1) # b
      BY <1>5, <3>1, <3>2
    <3>4. M.next[Ring(s, h, i)] = L.next[Ring(s, h, i)] /\ M.prev[Ring(s, h, i + 1)] = L.prev[Ring(s, h, i + 1)]
      BY <1>5, <1>8, <3>2, <3>3
    <3> QED BY <1>6, <3>1, <3>4
  <2> QED BY <2>1, <2>2
<1>11. \A g \in LHead : \A j \in 1..Len(ms[g]) :
           \E i \in 1..Len(ls[g]) : ms[g][j] = ls[g][i] /\ i = IF g # h \/ j < k THEN j ELSE j + 1
  <2>1. ms[h] = t /\ \A g \in LHead : g # h => ms[g] = ls[g]
    BY <1>1
  <2> HIDE DEF ms
  <2> SUFFICES ASSUME NEW g \in LHead, NEW j \in 1..Len(ms[g])
               PROVE  \E i \in 1..Len(ls[g]) : ms[g][j] = ls[g][i] /\ i = IF g # h \/ j < k THEN j ELSE j + 1
    OBVIOUS
  <2>2. CASE g # h
    BY <2>1, <2>2
  <2>3. CASE g = h
    <3>1. j \in 1..N - 1 /\ ms[g] = t
      BY <1>3, <2>1, <2>3
    <3>2. j \in 1..N /\ j + 1 \in 1..N
      BY <1>2, <3>1
    <3> QED BY <1>4, <2>3, <3>1, <3>2
  <2> QED BY <2>2, <2>3
<1> HIDE DEF ms
<1>12. Apart(ms)
  <2>1. ASSUME NEW g \in LHead, NEW f \in LHead, NEW i \in 1..Len(ms[g]), NEW j \in 1..Len(ms[f]), ms[g][i] = ms[f][j]
        PROVE  g = f /\ i = j
    <3>1. PICK m \in 1..Len(ls[g]) : ms[g][i] = ls[g][m] /\ m = IF g # h \/ i < k THEN i ELSE i + 1
      BY <1>11
    <3>2. PICK n \in 1..Len(ls[f]) : ms[f][j] = ls[f][n] /\ n = IF f # h \/ j < k THEN j ELSE j + 1
      BY <1>11
    <3>0. ls[g][m] = ls[f][n]
      BY <2>1, <3>1, <3>2
    <3>3. g = f /\ m = n
      BY <1>1, <3>0 DEF Apart
    <3>4. i \in Nat /\ j \in Nat
      OBVIOUS
    <3> QED BY <1>2, <3>1, <3>2, <3>3, <3>4
  <2> QED BY <2>1 DEF Apart
<1>13. Free(ms, e)
  <2> SUFFICES ASSUME NEW g \in LHead, NEW j \in 1..Len(ms[g]), ms[g][j] = e PROVE FALSE
    BY DEF Free
  <2>1. PICK i \in 1..Len(ls[g]) : ms[g][j] = ls[g][i] /\ i = IF g # h \/ j < k THEN j ELSE j + 1
    BY <1>11
  <2>2. ls[g][i] = ls[h][k]
    BY <2>1
  <2>3. g = h /\ i = k
    BY <1>1, <2>2 DEF Apart
  <2> QED BY <1>2, <2>1, <2>3
<1>14. Only(L, M, ls, h, e)
  <2>1. ASSUME NEW z \in Cell, \A i \in 0..N : z # Ring(s, h, i) PROVE M.next[z] = L.next[z] /\ M.prev[z] = L.prev[z]
    <3>1. z # a
      <4>1. k - 1 \in 0..N
        BY <1>2
      <4> QED BY <2>1, <4>1
    <3>2. z # b
      <4>1. k + 1 \in 0..N \/ (b = Ring(s, h, 0) /\ 0 \in 0..N)
        BY <1>2, <1>5
      <4> QED BY <2>1, <4>1
    <3> QED BY <1>8, <2>1, <3>1, <3>2
  <2>2. \A g \in LHead \ {h} : \A j \in 1..Len(ls[g]) : ls[g][j] # e
    BY <1>1, <1>2 DEF Apart
  <2> QED BY <2>1, <2>2 DEF Only
<1>15. Sound(M, ms, st)
  <2>1. Apart([ls EXCEPT ![h] = t])
    BY <1>12 DEF ms
  <2>2. Sound(M, [ls EXCEPT ![h] = t], st)
    BY <1>2, <1>3, <1>8, <1>10, <1>14, <2>1, OneChanged
  <2> QED BY <2>2 DEF ms
<1> QED BY <1>13, <1>15 DEF M, t, ms

LEMMA InsertFirst ==
    ASSUME NEW S, NEW s \in Seq(S), NEW e \in S
    PROVE  InsertAt(s, 1, e) = <<e>> \o s
<1> DEFINE t == InsertAt(s, 1, e)
           u == <<e>> \o s
           N == Len(s)
<1>1. N \in Nat /\ 1 \in 1..N + 1
  OBVIOUS
<1>2. t \in Seq(S) /\ Len(t) = N + 1
  BY <1>1, Inserting
<1>3. \A j \in 1..N + 1 : t[j] = IF j < 1 THEN s[j] ELSE IF j = 1 THEN e ELSE s[j - 1]
  BY <1>1, Inserting
<1>4. u \in Seq(S) /\ Len(u) = N + 1 /\ u[1] = e /\ \A i \in 1..N : u[i + 1] = s[i]
  BY Prepending
<1> HIDE DEF t, u, N
<1>5. ASSUME NEW j \in 1..N + 1 PROVE t[j] = u[j]
  <2>1. CASE j = 1
    BY <1>1, <1>3, <1>4, <2>1
  <2>2. CASE j # 1
    <3>1. j - 1 \in 1..N /\ (j - 1) + 1 = j /\ ~(j < 1)
      BY <1>1, <2>2
    <3>2. u[j] = s[j - 1]
      BY <1>4, <3>1
    <3> QED BY <1>3, <2>2, <3>1, <3>2
  <2> QED BY <2>1, <2>2
<1>6. t = u
  BY <1>2, <1>4, <1>5, SeqEqual
<1> QED BY <1>6 DEF t, u

LEMMA InsertLast ==
    ASSUME NEW S, NEW s \in Seq(S), NEW e \in S
    PROVE  InsertAt(s, Len(s) + 1, e) = Append(s, e)
<1> DEFINE N == Len(s)
           q == N + 1
           t == InsertAt(s, q, e)
           u == Append(s, e)
<1>1. N \in Nat /\ q \in 1..Len(s) + 1
  OBVIOUS
<1>2. u \in Seq(S) /\ Len(u) = N + 1 /\ u[N + 1] = e /\ \A i \in 1..N : u[i] = s[i]
  OBVIOUS
<1> HIDE DEF q
<1>3. t \in Seq(S) /\ Len(t) = N + 1
  BY <1>1, Inserting
<1>4. \A j \in 1..N + 1 : t[j] = IF j < q THEN s[j] ELSE IF j = q THEN e ELSE s[j - 1]
  BY <1>1, Inserting
<1> HIDE DEF t, u, N
<1>5. ASSUME NEW j \in 1..N + 1 PROVE t[j] = u[j]
  <2>1. CASE j = N + 1
    BY <1>1, <1>2, <1>4, <2>1 DEF q
  <2>2. CASE j # N + 1
    <3>1. j \in 1..N /\ j < q
      BY <1>1, <2>2 DEF q
    <3> QED BY <1>2, <1>4, <3>1
  <2> QED BY <2>1, <2>2
<1>6. t = u
  BY <1>2, <1>3, <1>5, SeqEqual
<1> QED BY <1>6 DEF t, u, q, N

\* list_add() puts an entry behind the head,
LEMMA AddedFirst ==
    ASSUME NEW L, NEW ls, NEW st, Sound(L, ls, st), NEW h \in LHead \ st, NEW e \in Entry, Free(ls, e)
    PROVE  Sound(list_add(L, e, h), [ls EXCEPT ![h] = <<e>> \o ls[h]], st)
<1>1. ls \in [LHead -> Seq(Entry)] /\ Apart(ls) /\ ls[h] \in Seq(Entry)
  BY DEF Sound, Shape
<1>2. 0 \in 0..Len(ls[h]) /\ Ring(ls[h], h, 0) = h /\ 0 + 1 = 1
  BY <1>1, RingIs
<1>3. L.next[h] = Ring(ls[h], h, 1)
  BY <1>2 DEF Sound, Circle
<1>4. Sound(__list_add(L, e, Ring(ls[h], h, 0), Ring(ls[h], h, 0 + 1)), [ls EXCEPT ![h] = InsertAt(ls[h], 0 + 1, e)], st)
  BY <1>2, Added
<1>5. InsertAt(ls[h], 1, e) = <<e>> \o ls[h]
  BY <1>1, InsertFirst
<1>6. list_add(L, e, h) = __list_add(L, e, Ring(ls[h], h, 0), Ring(ls[h], h, 1))
  BY <1>2, <1>3 DEF list_add
<1> QED BY <1>2, <1>4, <1>5, <1>6

\* list_add_tail() before it.
LEMMA AddedLast ==
    ASSUME NEW L, NEW ls, NEW st, Sound(L, ls, st), NEW h \in LHead \ st, NEW e \in Entry, Free(ls, e)
    PROVE  Sound(list_add_tail(L, e, h), [ls EXCEPT ![h] = Append(ls[h], e)], st)
<1> DEFINE k == Len(ls[h])
<1>1. ls \in [LHead -> Seq(Entry)] /\ Apart(ls) /\ ls[h] \in Seq(Entry)
  BY DEF Sound, Shape
<1>2. k \in 0..Len(ls[h]) /\ Ring(ls[h], h, k + 1) = h
  BY <1>1, RingIs
<1>3. L.prev[h] = Ring(ls[h], h, k)
  BY <1>2 DEF Sound, Circle
<1>4. InsertAt(ls[h], k + 1, e) = Append(ls[h], e)
  BY <1>1, InsertLast
<1>5. list_add_tail(L, e, h) = __list_add(L, e, Ring(ls[h], h, k), Ring(ls[h], h, k + 1))
  BY <1>2, <1>3 DEF list_add_tail
<1> HIDE DEF k
<1>6. Sound(__list_add(L, e, Ring(ls[h], h, k), Ring(ls[h], h, k + 1)), [ls EXCEPT ![h] = InsertAt(ls[h], k + 1, e)], st)
  BY <1>2, Added
<1> QED BY <1>4, <1>5, <1>6

\* An entry that takes the place of another one: as if one were deleted and the other
\* one added where it was.
LEMMA Replaced ==
    ASSUME NEW L, NEW ls, NEW st, Sound(L, ls, st), NEW h \in LHead \ st, NEW k \in 1..Len(ls[h]),
           NEW n \in Entry, Free(ls, n)
    PROVE  /\ Sound(list_replace(L, ls[h][k], n), [ls EXCEPT ![h] = [ls[h] EXCEPT ![k] = n]], st)
           /\ Free([ls EXCEPT ![h] = [ls[h] EXCEPT ![k] = n]], ls[h][k])
<1> DEFINE s == ls[h]
           N == Len(s)
           e == s[k]
           t == RemoveAt(s, k)
           u == [s EXCEPT ![k] = n]
           a == Ring(s, h, k - 1)
           b == Ring(s, h, k + 1)
           D == __list_del(L, a, b)
           ds == [ls EXCEPT ![h] = t]
<1>1. L \in Links /\ ls \in [LHead -> Seq(Entry)] /\ Apart(ls)
  BY DEF Sound, Shape
<1>2. s \in Seq(Entry) /\ N \in Nat /\ k \in Nat /\ 1 <= k /\ k <= N /\ k \in 1..N /\ k - 1 \in 0..N
  BY <1>1
<1>3. Sound(D, ds, st)
  BY Deleted
<1>4. Free(ds, e)
  BY Deleted
<1>5. ds \in [LHead -> Seq(Entry)] /\ ds[h] = t /\ \A g \in LHead : g # h => ds[g] = ls[g]
  BY <1>1, <1>3 DEF Sound, Shape
<1>6. t \in Seq(Entry) /\ Len(t) = N - 1
  <2> HIDE DEF s
  <2> QED BY <1>2, Removing
<1>7. \A j \in 1..N - 1 : t[j] = IF j < k THEN s[j] ELSE s[j + 1]
  <2> HIDE DEF s
  <2> QED BY <1>2, Removing
<1>8. \A j \in 0..N : Ring(t, h, j) = IF j < k THEN Ring(s, h, j) ELSE Ring(s, h, j + 1)
  <2> HIDE DEF s
  <2> QED BY <1>2, RingRemoved
<1>9. Free(ds, n) /\ n # e
  <2>1. n # e
    BY <1>2 DEF Free
  <2>2. ASSUME NEW g \in LHead, NEW j \in 1..Len(ds[g]) PROVE ds[g][j] # n
    <3>1. CASE g # h
      BY <1>5, <3>1 DEF Free
    <3>2. CASE g = h
      <4>1. j \in 1..N - 1
        BY <1>5, <1>6, <3>2
      <4>2. j \in 1..N /\ j + 1 \in 1..N
        BY <1>2, <4>1
      <4>3. ds[g][j] = s[j] \/ ds[g][j] = s[j + 1]
        BY <1>5, <1>7, <3>2, <4>1
      <4>4. s[j] # n /\ s[j + 1] # n
        BY <4>2 DEF Free
      <4> QED BY <4>3, <4>4
    <3> QED BY <3>1, <3>2
  <2> QED BY <2>1, <2>2 DEF Free
<1>10. Ring(t, h, k - 1) = a /\ Ring(t, h, k) = b
  BY <1>2, <1>8
<1>11. Sound(__list_add(D, n, a, b), [ds EXCEPT ![h] = InsertAt(t, k, n)], st)
  <2> DEFINE m == k - 1
  <2>1. m \in 0..Len(ds[h]) /\ m + 1 = k
    BY <1>2, <1>5, <1>6
  <2> HIDE DEF m, D, ds
  <2>2. Sound(__list_add(D, n, Ring(ds[h], h, m), Ring(ds[h], h, m + 1)), [ds EXCEPT ![h] = InsertAt(ds[h], m + 1, n)], st)
    BY <1>3, <1>9, <2>1, Added
  <2>3. Ring(ds[h], h, m) = a
    BY <1>5, <1>10 DEF m
  <2> QED BY <1>5, <1>10, <2>1, <2>2, <2>3
<1>12. InsertAt(t, k, n) = u
  <2> DEFINE v == InsertAt(t, k, n)
  <2>1. k \in 1..Len(t) + 1
    BY <1>2, <1>6
  <2>2. u \in Seq(Entry) /\ Len(u) = N /\ u[k] = n /\ \A j \in 1..N : j # k => u[j] = s[j]
    BY <1>2
  <2> HIDE DEF t, u, s, N
  <2>3. v \in Seq(Entry) /\ Len(v) = Len(t) + 1
    BY <1>6, <2>1, Inserting
  <2>4. \A j \in 1..Len(t) + 1 : v[j] = IF j < k THEN t[j] ELSE IF j = k THEN n ELSE t[j - 1]
    <3> HIDE DEF t, u, s, N, e, a, b, D, ds
    <3>1. k \in 1..Len(t) + 1 /\ t \in Seq(Entry) /\ n \in Entry
      BY <1>6, <2>1
    <3> QED BY <3>1, Inserting
  <2> HIDE DEF v
  <2>5. Len(t) + 1 = N
    BY <1>2, <1>6
  <2>6. ASSUME NEW j \in 1..N PROVE v[j] = u[j]
    <3>1. CASE j = k
      BY <1>2, <2>2, <2>4, <2>5, <3>1
    <3>2. CASE j < k
      <4>1. j \in 1..N - 1 /\ j # k
        BY <1>2, <3>2
      <4> QED BY <1>7, <2>2, <2>4, <2>5, <3>2, <4>1
    <3>3. CASE j > k
      <4>1. j - 1 \in 1..N - 1 /\ j # k /\ ~(j - 1 < k) /\ ~(j < k) /\ (j - 1) + 1 = j
        BY <1>2, <3>3
      <4>2. v[j] = t[j - 1]
        BY <2>4, <2>5, <4>1
      <4>3. t[j - 1] = s[j]
        BY <1>7, <4>1
      <4> QED BY <2>2, <4>1, <4>2, <4>3
    <3> QED BY <1>2, <3>1, <3>2, <3>3
  <2>7. v = u
    BY <2>2, <2>3, <2>5, <2>6, SeqEqual
  <2> QED BY <2>7 DEF v
<1>13. [ds EXCEPT ![h] = u] = [ls EXCEPT ![h] = u]
  BY <1>1
<1>14. L.next[e] = b /\ L.prev[e] = a /\ a \in Cell /\ b \in Cell /\ e \in Cell /\ n \in Cell /\ b # e
  <2>0. Ring(s, h, k) = e
    BY <1>1, <1>2, RingIs
  <2>1. Ring(s, h, k) = e /\ a \in Cell /\ b \in Cell
    <3>1. \A i \in Int : Ring(s, h, i) \in Cell
      BY <1>1, RingIs
    <3>2. k - 1 \in Int /\ k + 1 \in Int
      BY <1>2
    <3> QED BY <2>0, <3>1, <3>2
  <2>2. k \in 0..N /\ (k - 1) + 1 = k
    BY <1>2
  <2>3. \A i \in 0..N : L.next[Ring(s, h, i)] = Ring(s, h, i + 1) /\ L.prev[Ring(s, h, i + 1)] = Ring(s, h, i)
    BY DEF Sound, Circle
  <2>4. L.next[e] = b /\ L.prev[e] = a
    <3> HIDE DEF s, e, N
    <3>1. L.next[Ring(s, h, k)] = Ring(s, h, k + 1)
      BY <2>2, <2>3
    <3>2. L.prev[Ring(s, h, (k - 1) + 1)] = Ring(s, h, k - 1)
      BY <1>2, <2>3
    <3> QED BY <2>1, <2>2, <3>1, <3>2
  <2>5. Ring(s, h, (k - 1) + 1) = Ring(s, h, k + 1) => k - 1 = k
    BY <1>1, <1>2, <2>2, RingTurns
  <2>6. b # e
    BY <1>2, <2>1, <2>2, <2>5
  <2>7. e \in Entry
    BY <1>2
  <2> QED BY <2>1, <2>4, <2>6, <2>7 DEF Cell
<1>15. list_replace(L, e, n) = __list_add(D, n, a, b)
  <2> HIDE DEF a, b, e
  <2> DEFINE P == [L.prev EXCEPT ![b] = n]
  <2>1. P[e] = a
    BY <1>1, <1>14 DEF Links
  <2>2. list_replace(L, e, n) = [next |-> [L.next EXCEPT ![n] = b, ![a] = n], prev |-> [P EXCEPT ![n] = a]]
    BY <1>14, <2>1 DEF list_replace
  <2>3. __list_add(D, n, a, b) = [next |-> [D.next EXCEPT ![n] = b, ![a] = n], prev |-> [D.prev EXCEPT ![b] = n, ![n] = a]]
    BY DEF __list_add
  <2>4. D = [next |-> [L.next EXCEPT ![a] = b], prev |-> [L.prev EXCEPT ![b] = a]]
    BY DEF __list_del
  <2>5. [L.next EXCEPT ![n] = b, ![a] = n] = [D.next EXCEPT ![n] = b, ![a] = n]
    BY <1>1, <1>14, <2>4 DEF Links
  <2>6. [P EXCEPT ![n] = a] = [D.prev EXCEPT ![b] = n, ![n] = a]
    BY <1>1, <1>14, <2>4 DEF Links
  <2> QED BY <2>2, <2>3, <2>5, <2>6
<1>16. Free([ls EXCEPT ![h] = u], e)
  <2> DEFINE ms == [ls EXCEPT ![h] = u]
  <2>1. ms[h] = u /\ \A g \in LHead : g # h => ms[g] = ls[g]
    BY <1>1
  <2> HIDE DEF ms
  <2>2. u \in Seq(Entry) /\ Len(u) = N /\ u[k] = n /\ \A j \in 1..N : j # k => u[j] = s[j]
    BY <1>2
  <2>3. \A g \in LHead : \A j \in 1..Len(ls[g]) : ls[g][j] = e => g = h /\ j = k
    BY <1>1, <1>2 DEF Apart
  <2> HIDE DEF u, e
  <2>4. ASSUME NEW g \in LHead, NEW j \in 1..Len(ms[g]) PROVE ms[g][j] # e
    <3>1. CASE g # h
      BY <2>1, <2>3, <3>1
    <3>2. CASE g = h
      BY <1>9, <2>1, <2>2, <2>3, <3>2
    <3> QED BY <3>1, <3>2
  <2> QED BY <2>4 DEF Free, ms
<1> QED BY <1>11, <1>12, <1>13, <1>15, <1>16

\* A list is given up.
LEMMA GivenUp ==
    ASSUME NEW L, NEW ls, NEW st, Sound(L, ls, st), NEW h \in LHead
    PROVE  Sound(L, [ls EXCEPT ![h] = <<>>], st \cup {h})
<1> DEFINE ms == [ls EXCEPT ![h] = <<>>]
<1>1. L \in Links /\ ls \in [LHead -> Seq(Entry)] /\ Apart(ls) /\ st \subseteq LHead /\ \A g \in st : ls[g] = <<>>
  BY DEF Sound, Shape
<1>2. ms \in [LHead -> Seq(Entry)] /\ ms[h] = <<>> /\ Len(ms[h]) = 0 /\ \A g \in LHead : g # h => ms[g] = ls[g]
  BY <1>1
<1> HIDE DEF ms
<1>3. Apart(ms)
  <2>1. \A g \in LHead : \A j \in 1..Len(ms[g]) : ms[g] = ls[g]
    BY <1>2
  <2> QED BY <1>1, <2>1 DEF Apart
<1>4. Shape(L, ms, st \cup {h})
  BY <1>1, <1>2, <1>3 DEF Shape
<1>5. \A g \in LHead \ (st \cup {h}) : Circle(L, ms[g], g)
  BY <1>2 DEF Sound
<1> QED BY <1>4, <1>5 DEF Sound, ms

\* INIT_LIST_HEAD() of a head that leads to nothing.
LEMMA HeadInitialised ==
    ASSUME NEW L, NEW ls, NEW st, Sound(L, ls, st), NEW h \in LHead, ls[h] = <<>>
    PROVE  Sound(INIT_LIST_HEAD(L, h), ls, st \ {h})
<1> DEFINE M == INIT_LIST_HEAD(L, h)
<1>1. L \in Links /\ ls \in [LHead -> Seq(Entry)] /\ Apart(ls) /\ st \subseteq LHead /\ \A g \in st : ls[g] = <<>>
  BY DEF Sound, Shape
<1>2. M \in Links /\ M.next[h] = h /\ M.prev[h] = h /\ \A z \in Cell : z # h => M.next[z] = L.next[z] /\ M.prev[z] = L.prev[z]
  BY <1>1 DEF INIT_LIST_HEAD, Links, Cell
<1> HIDE DEF M
<1>3. Shape(M, ls, st \ {h})
  BY <1>1, <1>2 DEF Shape
<1>4. Circle(M, ls[h], h)
  <2>1. Len(ls[h]) = 0
    OBVIOUS
  <2>2. \A i : Ring(ls[h], h, i) = h
    BY <2>1 DEF Ring
  <2> QED BY <1>2, <2>1, <2>2 DEF Circle
<1>5. ASSUME NEW g \in LHead \ st, g # h PROVE Circle(M, ls[g], g)
  <2>1. ASSUME NEW i \in 0..Len(ls[g]) PROVE Ring(ls[g], g, i) \in Cell /\ Ring(ls[g], g, i) # h
    <3>1. i \in Int /\ 0 \in 0..Len(ls[h]) /\ Ring(ls[h], h, 0) = h
      BY <1>1, RingIs
    <3> QED BY <1>1, <1>5, <3>1, RingIs
  <2>2. Untouched(L, M, ls[g], g)
    BY <1>2, <2>1 DEF Untouched
  <2>3. Circle(L, ls[g], g) /\ ls[g] \in Seq(Entry)
    BY <1>1 DEF Sound
  <2> QED BY <2>2, <2>3, CircleStays
<1> QED BY <1>3, <1>4, <1>5 DEF Sound, M

\* At most the pointers of the circles of two heads change.
Within(L, M, ls, g, f) ==
    \A z \in Cell : \/ \E i \in 0..Len(ls[g]) : z = Ring(ls[g], g, i)
                    \/ \E i \in 0..Len(ls[f]) : z = Ring(ls[f], f, i)
                    \/ M.next[z] = L.next[z] /\ M.prev[z] = L.prev[z]
\* The other lists are as they were; these two are circles or have to be initialised.
Reshaped(M, ls, st, ms, sp, g, f) ==
    /\ ms \in [LHead -> Seq(Entry)] /\ Apart(ms) /\ sp \subseteq LHead /\ \A h \in sp : ms[h] = <<>>
    /\ \A h \in LHead : h # g /\ h # f => ms[h] = ls[h] /\ (h \in sp <=> h \in st)
    /\ g \notin sp => Circle(M, ms[g], g)
    /\ f \notin sp => Circle(M, ms[f], f)

\* Two lists change: the others stay circles.
LEMMA TwoChanged ==
    ASSUME NEW L, NEW ls, NEW st, Sound(L, ls, st), NEW g \in LHead, NEW f \in LHead,
           NEW M \in Links, Within(L, M, ls, g, f), NEW ms, NEW sp, Reshaped(M, ls, st, ms, sp, g, f)
    PROVE  Sound(M, ms, sp)
<1>1. ls \in [LHead -> Seq(Entry)] /\ Apart(ls)
  BY DEF Sound, Shape
<1>2. Shape(M, ms, sp)
  BY DEF Reshaped, Shape
<1>3. ASSUME NEW h \in LHead \ sp, h # g, h # f PROVE Circle(M, ms[h], h)
  <2>1. ms[h] = ls[h] /\ h \notin st
    BY <1>3 DEF Reshaped
  <2>2. ASSUME NEW i \in 0..Len(ls[h])
        PROVE  M.next[Ring(ls[h], h, i)] = L.next[Ring(ls[h], h, i)] /\ M.prev[Ring(ls[h], h, i)] = L.prev[Ring(ls[h], h, i)]
    <3> DEFINE z == Ring(ls[h], h, i)
    <3>1. i \in Int
      BY <1>1
    <3>2. z \in Cell
      BY <1>1, <3>1, RingIs
    <3>3. \A j \in 0..Len(ls[g]) : z # Ring(ls[g], g, j)
      BY <1>1, <1>3, RingIs
    <3>4. \A j \in 0..Len(ls[f]) : z # Ring(ls[f], f, j)
      BY <1>1, <1>3, RingIs
    <3> HIDE DEF z
    <3>5. M.next[z] = L.next[z] /\ M.prev[z] = L.prev[z]
      BY <3>2, <3>3, <3>4 DEF Within
    <3> QED BY <3>5 DEF z
  <2>3. Untouched(L, M, ls[h], h)
    BY <2>2 DEF Untouched
  <2>4. Circle(L, ls[h], h) /\ ls[h] \in Seq(Entry)
    BY <1>1, <2>1 DEF Sound
  <2> QED BY <2>1, <2>3, <2>4, CircleStays
<1>4. \A h \in LHead \ sp : Circle(M, ms[h], h)
  BY <1>3 DEF Reshaped
<1> QED BY <1>2, <1>4 DEF Sound

\* A head that takes the place of another one.
LEMMA HeadReplaced ==
    ASSUME NEW L, NEW ls, NEW st, Sound(L, ls, st), NEW old \in LHead \ st, NEW new \in LHead, new # old, ls[new] = <<>>
    PROVE  Sound(list_replace(L, old, new), [ls EXCEPT ![new] = ls[old], ![old] = <<>>], (st \ {new}) \cup {old})
<1> DEFINE s == ls[old]
           N == Len(s)
           M == list_replace(L, old, new)
           ms == [ls EXCEPT ![new] = ls[old], ![old] = <<>>]
           sp == (st \ {new}) \cup {old}
           a == Ring(s, old, N)
           b == Ring(s, old, 1)
<1>1. L \in Links /\ ls \in [LHead -> Seq(Entry)] /\ Apart(ls) /\ st \subseteq LHead /\ \A h \in st : ls[h] = <<>>
  BY DEF Sound, Shape
<1>2. s \in Seq(Entry) /\ N \in Nat
  BY <1>1
<1>3. ms \in [LHead -> Seq(Entry)] /\ ms[new] = s /\ ms[old] = <<>> /\ \A h \in LHead : h # new /\ h # old => ms[h] = ls[h]
  BY <1>1
<1>4. /\ \A i \in 0..N + 1 : Ring(s, old, i) \in Cell /\ Ring(s, old, i) # new
      /\ \A i, j \in 0..N : Ring(s, old, i) = Ring(s, old, j) => i = j
      /\ \A i, j \in 0..N : Ring(s, old, i + 1) = Ring(s, old, j + 1) => i = j
      /\ Ring(s, old, 0) = old /\ Ring(s, old, N + 1) = old
  <2>1. Ring(s, old, 0) = old /\ Ring(s, old, N + 1) = old /\ \A i \in 1..N : Ring(s, old, i) \in Entry
    <3>1. Ring(s, old, 0) = old /\ Ring(s, old, N + 1) = old
      BY <1>1, RingIs
    <3>2. \A i \in 1..N : Ring(s, old, i) = s[i] /\ s[i] \in Entry
      BY <1>1, RingIs
    <3> QED BY <3>1, <3>2
  <2>2. \A i \in 0..N + 1 : i \in Int /\ (i = 0 \/ i = N + 1 \/ i \in 1..N)
    BY <1>2
  <2>3. \A i \in Int : Ring(s, old, i) \in Cell
    BY <1>1, RingIs
  <2>4. \A i \in 0..N + 1 : Ring(s, old, i) # new
    BY <2>1, <2>2, ListAssumption
  <2>5. \A i, j \in 0..N : Ring(s, old, i) = Ring(s, old, j) => i = j
    BY <1>1, RingIs
  <2>6. \A i, j \in 0..N : Ring(s, old, i + 1) = Ring(s, old, j + 1) => i = j
    BY <1>1, RingTurns
  <2> QED BY <2>1, <2>2, <2>3, <2>4, <2>5, <2>6
<1>5. \A i \in 0..N : L.next[Ring(s, old, i)] = Ring(s, old, i + 1) /\ L.prev[Ring(s, old, i + 1)] = Ring(s, old, i)
  BY DEF Sound, Circle
<1>6. L.next[old] = b /\ L.prev[old] = a
  <2>1. 0 \in 0..N /\ N \in 0..N /\ 0 + 1 = 1
    BY <1>2
  <2> QED BY <1>4, <1>5, <2>1
<1>7. a \in Cell /\ b \in Cell /\ old \in Cell /\ new \in Cell /\ a # new /\ b # new
  <2>1. N \in 0..N + 1 /\ 1 \in 0..N + 1
    BY <1>2
  <2> QED BY <1>4, <2>1 DEF Cell
<1> HIDE DEF a, b
<1>8. M \in Links /\ \A z \in Cell :
           /\ M.next[z] = IF b = old THEN (IF z = new THEN new ELSE L.next[z])
                          ELSE IF z = a THEN new ELSE IF z = new THEN b ELSE L.next[z]
           /\ M.prev[z] = IF b = old THEN (IF z \in {old, new} THEN new ELSE L.prev[z])
                          ELSE IF z = new THEN a ELSE IF z = b THEN new ELSE L.prev[z]
  <2> DEFINE P == [L.prev EXCEPT ![b] = new]
  <2>1. M = [next |-> [L.next EXCEPT ![new] = b, ![P[old]] = new], prev |-> [P EXCEPT ![new] = P[old]]]
    BY <1>6 DEF list_replace
  <2>2. P[old] = IF b = old THEN new ELSE a
    BY <1>1, <1>6, <1>7 DEF Links
  <2>3. CASE b = old
    BY <1>1, <1>7, <2>1, <2>2, <2>3 DEF Links
  <2>4. CASE b # old
    <3>1. M = [next |-> [L.next EXCEPT ![new] = b, ![a] = new], prev |-> [L.prev EXCEPT ![b] = new, ![new] = a]]
      BY <2>1, <2>2, <2>4
    <3>2. M \in Links
      <4>1. L.next \in [Cell -> Cell \cup {Poison}] /\ L.prev \in [Cell -> Cell \cup {Poison}]
        BY <1>1 DEF Links
      <4>2. [L.next EXCEPT ![new] = b, ![a] = new] \in [Cell -> Cell \cup {Poison}]
        BY <1>7, <4>1
      <4>3. [L.prev EXCEPT ![b] = new, ![new] = a] \in [Cell -> Cell \cup {Poison}]
        BY <1>7, <4>1
      <4> QED BY <3>1, <4>2, <4>3 DEF Links
    <3>3. \A z \in Cell : M.next[z] = IF z = a THEN new ELSE IF z = new THEN b ELSE L.next[z]
      BY <1>1, <1>7, <3>1 DEF Links
    <3>4. \A z \in Cell : M.prev[z] = IF z = new THEN a ELSE IF z = b THEN new ELSE L.prev[z]
      BY <1>1, <1>7, <3>1 DEF Links
    <3> QED BY <2>4, <3>2, <3>3, <3>4
  <2> QED BY <2>3, <2>4
<1> HIDE DEF M, ms
<1>9. b = old <=> N = 0
  <2>1. N # 0 => 1 \in 0..N /\ 0 \in 0..N
    BY <1>2
  <2>2. N = 0 => b = Ring(s, old, N + 1)
    BY DEF b
  <2> QED BY <1>4, <2>1, <2>2 DEF b
<1>10. \A i \in 0..N + 1 : Ring(s, new, i) = IF i = 0 \/ i = N + 1 THEN new ELSE Ring(s, old, i)
  BY <1>2 DEF Ring
<1>11. Circle(M, s, new)
  <2> SUFFICES ASSUME NEW i \in 0..N
               PROVE  M.next[Ring(s, new, i)] = Ring(s, new, i + 1) /\ M.prev[Ring(s, new, i + 1)] = Ring(s, new, i)
    BY DEF Circle
  <2>0. i \in 0..N + 1 /\ i + 1 \in 0..N + 1 /\ i + 1 # 0 /\ i # N + 1
    BY <1>2
  <2>1. CASE N = 0
    <3>1. Ring(s, new, i) = new /\ Ring(s, new, i + 1) = new
      BY <1>10, <2>0, <2>1
    <3> QED BY <1>7, <1>8, <1>9, <2>1, <3>1
  <2>2. CASE N # 0 /\ i = 0
    <3>1. Ring(s, new, i) = new /\ Ring(s, new, i + 1) = b
      BY <1>2, <1>10, <2>0, <2>2 DEF b
    <3> QED BY <1>7, <1>8, <1>9, <2>2, <3>1
  <2>3. CASE N # 0 /\ i = N
    <3>1. Ring(s, new, i) = a /\ Ring(s, new, i + 1) = new
      BY <1>2, <1>10, <2>0, <2>3 DEF a
    <3> QED BY <1>7, <1>8, <1>9, <2>3, <3>1
  <2>4. CASE i # 0 /\ i # N
    <3>1. Ring(s, new, i) = Ring(s, old, i) /\ Ring(s, new, i + 1) = Ring(s, old, i + 1)
      BY <1>2, <1>10, <2>0, <2>4
    <3>2. Ring(s, old, i) # a
      <4>1. N \in 0..N
        BY <1>2
      <4> QED BY <1>4, <2>4, <4>1 DEF a
    <3>3. Ring(s, old, i + 1) # b
      <4>1. 0 \in 0..N /\ 0 + 1 = 1
        BY <1>2
      <4>2. Ring(s, old, i + 1) # Ring(s, old, 0 + 1)
        BY <1>4, <2>4, <4>1
      <4> QED BY <4>1, <4>2 DEF b
    <3>4. N # 0
      BY <1>2, <2>4
    <3>5. M.next[Ring(s, old, i)] = L.next[Ring(s, old, i)]
      BY <1>4, <1>8, <1>9, <2>0, <3>2, <3>4
    <3>6. M.prev[Ring(s, old, i + 1)] = L.prev[Ring(s, old, i + 1)]
      BY <1>4, <1>8, <1>9, <2>0, <3>3, <3>4
    <3> QED BY <1>5, <3>1, <3>5, <3>6
  <2> QED BY <2>1, <2>2, <2>3, <2>4
<1>12. Apart(ms)
  <2> DEFINE from(h) == IF h = new THEN old ELSE h
  <2>1. \A h \in LHead : \A j \in 1..Len(ms[h]) : h # old /\ from(h) \in LHead /\ ms[h] = ls[from(h)]
    BY <1>3
  <2>2. \A g, h \in LHead : g # old /\ h # old /\ from(g) = from(h) => g = h
    OBVIOUS
  <2> HIDE DEF from
  <2>3. ASSUME NEW g \in LHead, NEW h \in LHead, NEW i \in 1..Len(ms[g]), NEW j \in 1..Len(ms[h]), ms[g][i] = ms[h][j]
        PROVE  g = h /\ i = j
    <3>1. from(g) \in LHead /\ from(h) \in LHead /\ ms[g] = ls[from(g)] /\ ms[h] = ls[from(h)] /\ g # old /\ h # old
      BY <2>1
    <3>2. from(g) = from(h) /\ i = j
      BY <1>1, <2>3, <3>1 DEF Apart
    <3> QED BY <2>2, <3>1, <3>2
  <2> QED BY <2>3 DEF Apart
<1>13. Within(L, M, ls, old, new)
  <2>1. ASSUME NEW z \in Cell, \A i \in 0..N : z # Ring(s, old, i), \A i \in 0..Len(ls[new]) : z # Ring(ls[new], new, i)
        PROVE  M.next[z] = L.next[z] /\ M.prev[z] = L.prev[z]
    <3>1. z # new
      <4>1. 0 \in 0..Len(ls[new]) /\ Ring(ls[new], new, 0) = new
        BY <1>1, RingIs
      <4> QED BY <2>1, <4>1
    <3>2. z # a /\ z # old
      <4>1. N \in 0..N /\ 0 \in 0..N
        BY <1>2
      <4> QED BY <1>4, <2>1, <4>1 DEF a
    <3>3. z # b
      <4>1. N = 0 \/ 1 \in 0..N
        BY <1>2
      <4> QED BY <1>9, <2>1, <3>2, <4>1 DEF b
    <3> QED BY <1>8, <2>1, <3>1, <3>2, <3>3
  <2> QED BY <2>1 DEF Within
<1>14. Reshaped(M, ls, st, ms, sp, old, new)
  <2>1. \A h \in sp : ms[h] = <<>>
    BY <1>1, <1>3
  <2> QED BY <1>1, <1>3, <1>11, <1>12, <2>1 DEF Reshaped
<1> HIDE DEF sp
<1>15. Sound(M, ms, sp)
  BY <1>8, <1>13, <1>14, TwoChanged
<1> QED BY <1>15 DEF M, ms, sp

\* __list_cut_position() up to the k-th entry, for a head list that leads to nothing.
LEMMA CutOff ==
    ASSUME NEW L, NEW ls, NEW st, Sound(L, ls, st), NEW head \in LHead \ st, NEW list \in LHead, list # head,
           ls[list] = <<>>, NEW k \in 1..Len(ls[head])
    PROVE  Sound(__list_cut_position(L, list, head, ls[head][k]),
                 [ls EXCEPT ![list] = SubSeq(ls[head], 1, k), ![head] = SubSeq(ls[head], k + 1, Len(ls[head]))], st \ {list})
<1> DEFINE s == ls[head]
           N == Len(s)
           p == SubSeq(s, 1, k)
           q == SubSeq(s, k + 1, N)
           ms == [ls EXCEPT ![list] = p, ![head] = q]
           M == __list_cut_position(L, list, head, s[k])
           R(i) == Ring(s, head, i)
<1>1. L \in Links /\ ls \in [LHead -> Seq(Entry)] /\ Apart(ls) /\ st \subseteq LHead /\ \A h \in st : ls[h] = <<>>
  BY DEF Sound, Shape
<1>2. s \in Seq(Entry) /\ N \in Nat /\ k \in Nat /\ 1 <= k /\ k <= N
  BY <1>1
<1>3. p \in Seq(Entry) /\ Len(p) = k /\ \A j \in 1..k : p[j] = s[j]
  <2>1. \A j \in 1..k : s[j] \in Entry
    BY <1>2
  <2>2. p \in Seq(Entry) /\ Len(p) = (IF 1 <= k THEN k - 1 + 1 ELSE 0) /\ \A j \in 1..k - 1 + 1 : p[j] = s[1 + j - 1]
    BY <1>2, <2>1, SubSeqProperties
  <2> HIDE DEF p
  <2> QED BY <1>2, <2>2
<1>4. q \in Seq(Entry) /\ Len(q) = N - k /\ \A j \in 1..N - k : q[j] = s[k + j]
  <2>1. \A j \in k + 1..N : s[j] \in Entry
    BY <1>2
  <2>2. q \in Seq(Entry) /\ Len(q) = (IF k + 1 <= N THEN N - (k + 1) + 1 ELSE 0)
        /\ \A j \in 1..N - (k + 1) + 1 : q[j] = s[k + 1 + j - 1]
    BY <1>2, <2>1, SubSeqProperties
  <2> HIDE DEF q
  <2> QED BY <1>2, <2>2
<1> HIDE DEF p, q
<1>5. ms \in [LHead -> Seq(Entry)] /\ ms[list] = p /\ ms[head] = q /\ \A h \in LHead : h # list /\ h # head => ms[h] = ls[h]
  BY <1>1, <1>3, <1>4
<1>6. /\ \A i \in 0..N + 1 : R(i) \in Cell /\ R(i) # list
      /\ \A i, j \in 0..N : R(i) = R(j) => i = j
      /\ \A i, j \in 0..N : R(i + 1) = R(j + 1) => i = j
      /\ R(0) = head /\ R(N + 1) = head
  <2>1. R(0) = head /\ R(N + 1) = head /\ \A i \in 1..N : R(i) \in Entry
    <3>1. R(0) = head /\ R(N + 1) = head
      BY <1>1, RingIs
    <3>2. \A i \in 1..N : R(i) = s[i] /\ s[i] \in Entry
      BY <1>1, RingIs
    <3> QED BY <3>1, <3>2
  <2>2. \A i \in 0..N + 1 : i \in Int /\ (i = 0 \/ i = N + 1 \/ i \in 1..N)
    BY <1>2
  <2>3. \A i \in Int : R(i) \in Cell
    BY <1>1, RingIs
  <2>4. \A i \in 0..N + 1 : R(i) # list
    BY <2>1, <2>2, ListAssumption
  <2>5. \A i, j \in 0..N : R(i) = R(j) => i = j
    BY <1>1, RingIs
  <2>6. \A i, j \in 0..N : R(i + 1) = R(j + 1) => i = j
    BY <1>1, RingTurns
  <2> HIDE DEF R
  <2> QED BY <2>1, <2>2, <2>3, <2>4, <2>5, <2>6
<1>7. \A i \in 0..N : L.next[R(i)] = R(i + 1) /\ L.prev[R(i + 1)] = R(i)
  BY DEF Sound, Circle
<1>8. s[k] = R(k) /\ L.next[head] = R(1) /\ L.next[s[k]] = R(k + 1)
  <2>1. s[k] = R(k)
    BY <1>1, RingIs
  <2>2. 0 \in 0..N /\ 0 + 1 = 1 /\ k \in 0..N
    BY <1>2
  <2> HIDE DEF R
  <2> QED BY <1>6, <1>7, <2>1, <2>2
<1>9. \A j \in 0..k + 1 : Ring(p, list, j) = IF j = 0 \/ j = k + 1 THEN list ELSE R(j)
  <2> SUFFICES ASSUME NEW j \in 0..k + 1 PROVE Ring(p, list, j) = IF j = 0 \/ j = k + 1 THEN list ELSE R(j)
    OBVIOUS
  <2>1. CASE j = 0 \/ j = k + 1
    BY <1>2, <1>3, <2>1 DEF Ring
  <2>2. CASE ~(j = 0 \/ j = k + 1)
    <3>1. j \in 1..k /\ j \in 1..N
      BY <1>2, <2>2
    <3> QED BY <1>3, <2>2, <3>1 DEF Ring
  <2> QED BY <2>1, <2>2
<1>10. \A j \in 0..N - k + 1 : Ring(q, head, j) = IF j = 0 THEN head ELSE R(k + j)
  <2> SUFFICES ASSUME NEW j \in 0..N - k + 1 PROVE Ring(q, head, j) = IF j = 0 THEN head ELSE R(k + j)
    OBVIOUS
  <2>1. CASE j = 0
    BY <1>2, <1>4, <2>1 DEF Ring
  <2>2. CASE j = N - k + 1
    <3>1. k + j = N + 1 /\ j \notin 1..Len(q) /\ j # 0
      BY <1>2, <1>4, <2>2
    <3>2. Ring(q, head, j) = head
      BY <3>1 DEF Ring
    <3> HIDE DEF R
    <3> QED BY <1>6, <3>1, <3>2
  <2>3. CASE j # 0 /\ j # N - k + 1
    <3>1. j \in 1..N - k /\ k + j \in 1..N
      BY <1>2, <2>3
    <3> QED BY <1>4, <2>3, <3>1 DEF Ring
  <2> QED BY <2>1, <2>2, <2>3
<1> HIDE DEF R
<1> DEFINE a == R(k)
           b == R(k + 1)
           f == R(1)
<1>11. /\ a \in Cell /\ b \in Cell /\ f \in Cell /\ head \in Cell /\ list \in Cell
       /\ a # list /\ b # list /\ f # list /\ a # head /\ f # head /\ f # b
  <2>1. k \in 0..N + 1 /\ k + 1 \in 0..N + 1 /\ 1 \in 0..N + 1 /\ k \in 0..N /\ 1 \in 0..N /\ 0 \in 0..N /\ 0 + 1 = 1
    BY <1>2
  <2>2. a \in Cell /\ b \in Cell /\ f \in Cell /\ a # list /\ b # list /\ f # list
    BY <1>6, <2>1
  <2>3. a # head /\ f # head
    BY <1>2, <1>6, <2>1
  <2>4. R(0 + 1) # b
    BY <1>2, <1>6, <2>1
  <2> QED BY <2>1, <2>2, <2>3, <2>4 DEF Cell
<1>12. M = [next |-> [L.next EXCEPT ![list] = f, ![a] = list, ![head] = b],
            prev |-> [L.prev EXCEPT ![f] = list, ![list] = a, ![b] = head]]
  BY <1>8 DEF __list_cut_position
<1> HIDE DEF a, b, f, M
<1>13. M \in Links
  BY <1>1, <1>11, <1>12 DEF Links
<1>14. \A z \in Cell : M.next[z] = IF z = head THEN b ELSE IF z = a THEN list ELSE IF z = list THEN f ELSE L.next[z]
  BY <1>1, <1>11, <1>12 DEF Links
<1>15. \A z \in Cell : M.prev[z] = IF z = b THEN head ELSE IF z = list THEN a ELSE IF z = f THEN list ELSE L.prev[z]
  BY <1>1, <1>11, <1>12 DEF Links
<1>16. Circle(M, p, list)
  <2> SUFFICES ASSUME NEW i \in 0..k
               PROVE  M.next[Ring(p, list, i)] = Ring(p, list, i + 1) /\ M.prev[Ring(p, list, i + 1)] = Ring(p, list, i)
    BY <1>3 DEF Circle
  <2>0. i \in 0..k + 1 /\ i + 1 \in 0..k + 1 /\ i + 1 # 0 /\ i # k + 1 /\ i \in 0..N /\ i \in 0..N + 1 /\ i + 1 \in 0..N + 1
    BY <1>2
  <2>1. CASE i = 0
    <3>1. Ring(p, list, i) = list /\ Ring(p, list, i + 1) = f
      BY <1>2, <1>9, <2>0, <2>1 DEF f
    <3> QED BY <1>11, <1>14, <1>15, <3>1
  <2>2. CASE i = k
    <3>1. Ring(p, list, i) = a /\ Ring(p, list, i + 1) = list
      BY <1>2, <1>9, <2>0, <2>2 DEF a
    <3> QED BY <1>11, <1>14, <1>15, <3>1
  <2>3. CASE i # 0 /\ i # k
    <3>1. Ring(p, list, i) = R(i) /\ Ring(p, list, i + 1) = R(i + 1)
      BY <1>2, <1>9, <2>0, <2>3
    <3>2. R(i) # head /\ R(i) # a
      <4>1. 0 \in 0..N /\ k \in 0..N
        BY <1>2
      <4> QED BY <1>6, <2>0, <2>3, <4>1 DEF a
    <3>3. R(i + 1) # b /\ R(i + 1) # f
      <4>1. 0 \in 0..N /\ k \in 0..N /\ 0 + 1 = 1
        BY <1>2
      <4>2. R(i + 1) # R(k + 1) /\ R(i + 1) # R(0 + 1)
        BY <1>6, <2>0, <2>3, <4>1
      <4> QED BY <4>1, <4>2 DEF b, f
    <3>4. M.next[R(i)] = L.next[R(i)]
      BY <1>6, <1>14, <2>0, <3>2
    <3>5. M.prev[R(i + 1)] = L.prev[R(i + 1)]
      BY <1>6, <1>15, <2>0, <3>3
    <3> QED BY <1>7, <2>0, <3>1, <3>4, <3>5
  <2> QED BY <2>1, <2>2, <2>3
<1>17. Circle(M, q, head)
  <2> SUFFICES ASSUME NEW j \in 0..N - k
               PROVE  M.next[Ring(q, head, j)] = Ring(q, head, j + 1) /\ M.prev[Ring(q, head, j + 1)] = Ring(q, head, j)
    BY <1>4 DEF Circle
  <2> DEFINE i == k + j
  <2>0. /\ j \in 0..N - k + 1 /\ j + 1 \in 0..N - k + 1 /\ j + 1 # 0 /\ k + (j + 1) = i + 1
        /\ i \in 0..N /\ i \in 0..N + 1 /\ i + 1 \in 0..N + 1
    BY <1>2
  <2>1. CASE j = 0
    <3>1. Ring(q, head, j) = head /\ Ring(q, head, j + 1) = b
      BY <1>2, <1>10, <2>0, <2>1 DEF b
    <3> QED BY <1>11, <1>14, <1>15, <3>1
  <2>2. CASE j # 0
    <3>0. i # k /\ i # 0
      BY <1>2, <2>2
    <3>1. Ring(q, head, j) = R(i) /\ Ring(q, head, j + 1) = R(i + 1)
      BY <1>10, <2>0, <2>2
    <3> HIDE DEF i
    <3>2. R(i) # head /\ R(i) # a
      <4>1. 0 \in 0..N /\ k \in 0..N
        BY <1>2
      <4> QED BY <1>6, <2>0, <3>0, <4>1 DEF a
    <3>3. R(i + 1) # b /\ R(i + 1) # f
      <4>1. 0 \in 0..N /\ k \in 0..N /\ 0 + 1 = 1
        BY <1>2
      <4>2. R(i + 1) # R(k + 1) /\ R(i + 1) # R(0 + 1)
        BY <1>6, <2>0, <3>0, <4>1
      <4> QED BY <4>1, <4>2 DEF b, f
    <3>4. M.next[R(i)] = L.next[R(i)]
      BY <1>6, <1>14, <2>0, <3>2
    <3>5. M.prev[R(i + 1)] = L.prev[R(i + 1)]
      BY <1>6, <1>15, <2>0, <3>3
    <3> QED BY <1>7, <2>0, <3>1, <3>4, <3>5
  <2> QED BY <2>1, <2>2
<1> HIDE DEF ms
<1>18. Apart(ms)
  <2> DEFINE from(h) == IF h = list THEN head ELSE h
             at_(h, j) == IF h = head THEN k + j ELSE j
  <2>1. ASSUME NEW h \in LHead, NEW j \in 1..Len(ms[h])
        PROVE  from(h) \in LHead /\ at_(h, j) \in 1..Len(ls[from(h)]) /\ ms[h][j] = ls[from(h)][at_(h, j)]
    <3>1. CASE h = list
      <4>1. j \in 1..k /\ j \in 1..N
        BY <1>2, <1>3, <1>5, <3>1
      <4> QED BY <1>3, <1>5, <3>1, <4>1
    <3>2. CASE h = head
      <4>1. j \in 1..N - k /\ k + j \in 1..N
        BY <1>2, <1>4, <1>5, <3>2
      <4> QED BY <1>4, <1>5, <3>2, <4>1
    <3>3. CASE h # list /\ h # head
      BY <1>5, <3>3
    <3> QED BY <3>1, <3>2, <3>3
  <2>2. ASSUME NEW g \in LHead, NEW h \in LHead, NEW i \in 1..Len(ms[g]), NEW j \in 1..Len(ms[h]),
               from(g) = from(h), at_(g, i) = at_(h, j)
        PROVE  g = h /\ i = j
    <3>1. i \in Nat /\ j \in Nat /\ i >= 1 /\ j >= 1
      BY <1>5
    <3>2. g = list => i <= k
      BY <1>3, <1>5
    <3>3. h = list => j <= k
      BY <1>3, <1>5
    <3> QED BY <1>2, <2>2, <3>1, <3>2, <3>3
  <2> HIDE DEF from, at_
  <2>3. ASSUME NEW g \in LHead, NEW h \in LHead, NEW i \in 1..Len(ms[g]), NEW j \in 1..Len(ms[h]), ms[g][i] = ms[h][j]
        PROVE  g = h /\ i = j
    <3>1. /\ from(g) \in LHead /\ at_(g, i) \in 1..Len(ls[from(g)])
          /\ from(h) \in LHead /\ at_(h, j) \in 1..Len(ls[from(h)])
          /\ ls[from(g)][at_(g, i)] = ls[from(h)][at_(h, j)]
      BY <2>1, <2>3
    <3>2. from(g) = from(h) /\ at_(g, i) = at_(h, j)
      BY <1>1, <3>1, SMTT(30) DEF Apart
    <3> QED BY <2>2, <3>2
  <2> QED BY <2>3 DEF Apart
<1>19. Within(L, M, ls, head, list)
  <2>1. ASSUME NEW z \in Cell, \A i \in 0..N : z # R(i), \A i \in 0..Len(ls[list]) : z # Ring(ls[list], list, i)
        PROVE  M.next[z] = L.next[z] /\ M.prev[z] = L.prev[z]
    <3>1. z # list
      <4>1. 0 \in 0..Len(ls[list]) /\ Ring(ls[list], list, 0) = list
        BY <1>1, RingIs
      <4> QED BY <2>1, <4>1
    <3>2. z # a /\ z # head /\ z # f
      <4>1. k \in 0..N /\ 0 \in 0..N /\ 1 \in 0..N
        BY <1>2
      <4> QED BY <1>6, <2>1, <4>1 DEF a, f
    <3>3. z # b
      <4>1. k + 1 = N + 1 \/ k + 1 \in 0..N
        BY <1>2
      <4> QED BY <1>6, <2>1, <3>2, <4>1 DEF b
    <3> QED BY <1>14, <1>15, <2>1, <3>1, <3>2, <3>3
  <2> QED BY <2>1 DEF Within, R
<1>20. Reshaped(M, ls, st, ms, st \ {list}, head, list)
  <2>1. \A h \in st \ {list} : ms[h] = <<>>
    BY <1>1, <1>5
  <2>2. \A h \in LHead : h # head /\ h # list => ms[h] = ls[h] /\ (h \in st \ {list} <=> h \in st)
    BY <1>5
  <2>3. Circle(M, ms[head], head) /\ Circle(M, ms[list], list)
    BY <1>5, <1>16, <1>17
  <2> QED BY <1>1, <1>5, <1>18, <2>1, <2>2, <2>3 DEF Reshaped
<1>21. Sound(M, ms, st \ {list})
  BY <1>13, <1>19, <1>20, TwoChanged
<1> QED BY <1>21 DEF M, ms, p, q

\* The sequence s is put into r behind the m-th entry.
Joined(t, r, s, m) ==
    /\ Len(t) = Len(r) + Len(s)
    /\ \A j \in 1..m : t[j] = r[j]
    /\ \A j \in 1..Len(s) : t[m + j] = s[j]
    /\ \A j \in m + 1..Len(r) : t[Len(s) + j] = r[j]

\* __list_splice() of a list that is not empty, behind the m-th spot of the other one.
LEMMA SplicedIn ==
    ASSUME NEW L, NEW ls, NEW st, Sound(L, ls, st), NEW head \in LHead \ st, NEW list \in LHead \ st, list # head,
           ls[list] # <<>>, NEW m \in 0..Len(ls[head]), NEW t \in Seq(Entry), Joined(t, ls[head], ls[list], m)
    PROVE  Sound(__list_splice(L, list, Ring(ls[head], head, m), Ring(ls[head], head, m + 1)),
                 [ls EXCEPT ![head] = t, ![list] = <<>>], st \cup {list})
<1> DEFINE r == ls[head]
           s == ls[list]
           P == Len(r)
           N == Len(s)
           A(i) == Ring(r, head, i)
           B(i) == Ring(s, list, i)
           M == __list_splice(L, list, A(m), A(m + 1))
           ms == [ls EXCEPT ![head] = t, ![list] = <<>>]
<1>1. L \in Links /\ ls \in [LHead -> Seq(Entry)] /\ Apart(ls) /\ st \subseteq LHead /\ \A h \in st : ls[h] = <<>>
  BY DEF Sound, Shape
<1>2. /\ r \in Seq(Entry) /\ P \in Nat /\ s \in Seq(Entry) /\ N \in Nat /\ N >= 1
      /\ m \in Nat /\ m <= P /\ Len(t) = P + N
  BY <1>1 DEF Joined
<1>3. /\ \A j \in 1..m : t[j] = r[j]
      /\ \A j \in 1..N : t[m + j] = s[j]
      /\ \A j \in m + 1..P : t[N + j] = r[j]
  BY DEF Joined
<1>4. ms \in [LHead -> Seq(Entry)] /\ ms[head] = t /\ ms[list] = <<>> /\ \A h \in LHead : h # head /\ h # list => ms[h] = ls[h]
  BY <1>1
<1>5. /\ A(0) = head /\ A(P + 1) = head /\ B(0) = list /\ B(N + 1) = list
      /\ \A i \in Int : A(i) \in Cell /\ B(i) \in Cell
      /\ \A i \in 1..P : A(i) = r[i]
      /\ \A i \in 1..N : B(i) = s[i]
  BY <1>1, RingIs
<1>6. /\ \A i, j \in 0..P : A(i) = A(j) => i = j
      /\ \A i, j \in 0..N : B(i) = B(j) => i = j
      /\ \A i \in 0..P, j \in 0..N : A(i) # B(j)
  BY <1>1, RingIs
<1>7. \A i, j \in 0..P : A(i + 1) = A(j + 1) => i = j
  BY <1>1, RingTurns
<1>8. \A i, j \in 0..N : B(i + 1) = B(j + 1) => i = j
  BY <1>1, RingTurns
<1>9. \A i \in 0..P : L.next[A(i)] = A(i + 1) /\ L.prev[A(i + 1)] = A(i)
  BY DEF Sound, Circle
<1>10. \A i \in 0..N : L.next[B(i)] = B(i + 1) /\ L.prev[B(i + 1)] = B(i)
  BY DEF Sound, Circle
<1>11. \A j \in 0..P + N + 1 : Ring(t, head, j) = IF j <= m THEN A(j) ELSE IF j <= m + N THEN B(j - m) ELSE A(j - N)
  <2> SUFFICES ASSUME NEW j \in 0..P + N + 1
               PROVE  Ring(t, head, j) = IF j <= m THEN A(j) ELSE IF j <= m + N THEN B(j - m) ELSE A(j - N)
    OBVIOUS
  <2> HIDE DEF A, B, r, s, P, N
  <2>1. CASE j = 0
    <3>1. j <= m /\ j \notin 1..Len(t)
      BY <1>2, <2>1
    <3> QED BY <1>5, <2>1, <3>1 DEF Ring
  <2>2. CASE j = P + N + 1
    <3>1. ~(j <= m) /\ ~(j <= m + N) /\ j - N = P + 1 /\ j \notin 1..Len(t)
      BY <1>2, <2>2
    <3> QED BY <1>5, <3>1 DEF Ring
  <2>3. CASE j # 0 /\ j <= m
    <3>1. j \in 1..m /\ j \in 1..P /\ j \in 1..Len(t)
      BY <1>2, <2>3
    <3> QED BY <1>3, <1>5, <2>3, <3>1 DEF Ring
  <2>4. CASE ~(j <= m) /\ j <= m + N
    <3>1. j - m \in 1..N /\ m + (j - m) = j /\ j \in 1..Len(t)
      BY <1>2, <2>4
    <3>2. t[j] = s[j - m]
      BY <1>3, <3>1
    <3> QED BY <1>5, <2>4, <3>1, <3>2 DEF Ring
  <2>5. CASE j # P + N + 1 /\ ~(j <= m + N)
    <3>1. j - N \in m + 1..P /\ j - N \in 1..P /\ N + (j - N) = j /\ j \in 1..Len(t) /\ ~(j <= m)
      BY <1>2, <2>5
    <3>2. t[j] = r[j - N]
      BY <1>3, <3>1
    <3> QED BY <1>5, <2>5, <3>1, <3>2 DEF Ring
  <2> QED BY <2>1, <2>2, <2>3, <2>4, <2>5
<1> DEFINE a == A(m)
           b == A(m + 1)
           first == B(1)
           last == B(N)
<1>12. L.next[list] = first /\ L.prev[list] = last
  <2>1. 0 \in 0..N /\ N \in 0..N /\ 0 + 1 = 1
    BY <1>2
  <2> HIDE DEF A, B, r, s, P, N
  <2> QED BY <1>5, <1>10, <2>1
<1>13. M = [next |-> [L.next EXCEPT ![a] = first, ![last] = b], prev |-> [L.prev EXCEPT ![first] = a, ![b] = last]]
  BY <1>12 DEF __list_splice
<1> HIDE DEF A, B, r, s, P, N, M
<1>14. \A i \in 0..P + 1, j \in 0..N : A(i) # B(j)
  <2>1. \A i \in 0..P + 1 : i \in 0..P \/ i = P + 1
    BY <1>2
  <2>2. 0 \in 0..P /\ A(P + 1) = A(0)
    BY <1>2, <1>5
  <2> QED BY <1>6, <2>1, <2>2
<1>15. /\ a \in Cell /\ b \in Cell /\ first \in Cell /\ last \in Cell
       /\ \A j \in 0..N : a # B(j) /\ b # B(j)
       /\ \A i \in 0..P + 1 : A(i) # first /\ A(i) # last
  <2>1. m \in Int /\ m + 1 \in Int /\ 1 \in Int /\ N \in Int /\ m \in 0..P + 1 /\ m + 1 \in 0..P + 1 /\ 1 \in 0..N /\ N \in 0..N
    BY <1>2
  <2> QED BY <1>5, <1>14, <2>1
<1> HIDE DEF a, b, first, last
<1>16. M \in Links
  <2>1. L.next \in [Cell -> Cell \cup {Poison}] /\ L.prev \in [Cell -> Cell \cup {Poison}]
    BY <1>1 DEF Links
  <2>2. [L.next EXCEPT ![a] = first, ![last] = b] \in [Cell -> Cell \cup {Poison}]
    BY <1>15, <2>1
  <2>3. [L.prev EXCEPT ![first] = a, ![b] = last] \in [Cell -> Cell \cup {Poison}]
    BY <1>15, <2>1
  <2> QED BY <1>13, <2>2, <2>3 DEF Links
<1>17. \A z \in Cell : M.next[z] = IF z = last THEN b ELSE IF z = a THEN first ELSE L.next[z]
  BY <1>1, <1>13, <1>15 DEF Links
<1>18. \A z \in Cell : M.prev[z] = IF z = b THEN last ELSE IF z = first THEN a ELSE L.prev[z]
  BY <1>1, <1>13, <1>15 DEF Links
<1>19. ASSUME NEW i \in 0..P, i # m PROVE M.next[A(i)] = A(i + 1) /\ M.prev[A(i + 1)] = A(i)
  <2>1. i \in Int /\ i + 1 \in Int /\ i \in 0..P + 1 /\ i + 1 \in 0..P + 1 /\ m \in 0..P
    BY <1>2
  <2>2. A(i) \in Cell /\ A(i + 1) \in Cell /\ A(i) # last /\ A(i + 1) # first
    BY <1>5, <1>15, <2>1
  <2>3. A(i) # a /\ A(i + 1) # b
    BY <1>6, <1>7, <1>19, <2>1 DEF a, b
  <2> QED BY <1>9, <1>17, <1>18, <2>2, <2>3
<1>20. ASSUME NEW i \in 1..N, i # N PROVE M.next[B(i)] = B(i + 1) /\ M.prev[B(i + 1)] = B(i)
  <2>1. i \in Int /\ i + 1 \in Int /\ i \in 0..N /\ i + 1 \in 0..N /\ N \in 0..N /\ 0 \in 0..N /\ 0 + 1 = 1 /\ i # 0
    BY <1>2, <1>20
  <2>2. B(i) \in Cell /\ B(i + 1) \in Cell /\ B(i) # a /\ B(i + 1) # b
    BY <1>5, <1>15, <2>1
  <2>3. B(i) # last /\ B(i + 1) # B(0 + 1)
    BY <1>6, <1>8, <1>20, <2>1 DEF last
  <2>4. B(i + 1) # first
    BY <2>1, <2>3 DEF first
  <2> QED BY <1>10, <1>17, <1>18, <2>1, <2>2, <2>3, <2>4
<1>21. M.next[a] = first /\ M.prev[first] = a /\ M.next[last] = b /\ M.prev[b] = last
  <2>1. 1 \in 0..N /\ N \in 0..N
    BY <1>2
  <2>2. a # last /\ b # first
    BY <1>15, <2>1 DEF first, last
  <2> QED BY <1>15, <1>17, <1>18, <2>2
<1>22. Circle(M, t, head)
  <2> SUFFICES ASSUME NEW j \in 0..P + N
               PROVE  M.next[Ring(t, head, j)] = Ring(t, head, j + 1) /\ M.prev[Ring(t, head, j + 1)] = Ring(t, head, j)
    BY <1>2 DEF Circle
  <2>0. j \in 0..P + N + 1 /\ j + 1 \in 0..P + N + 1
    BY <1>2
  <2>1. CASE j < m
    <3>1. j \in 0..P /\ j # m /\ j <= m /\ j + 1 <= m
      BY <1>2, <2>1
    <3>2. Ring(t, head, j) = A(j) /\ Ring(t, head, j + 1) = A(j + 1)
      BY <1>11, <2>0, <3>1
    <3> QED BY <1>19, <3>1, <3>2
  <2>2. CASE j = m
    <3>1. j <= m /\ ~(j + 1 <= m) /\ j + 1 <= m + N /\ (j + 1) - m = 1
      BY <1>2, <2>2
    <3>2. Ring(t, head, j) = a /\ Ring(t, head, j + 1) = first
      BY <1>11, <2>0, <2>2, <3>1 DEF a, first
    <3> QED BY <1>21, <3>2
  <2>3. CASE j > m /\ j < m + N
    <3>1. ~(j <= m) /\ j <= m + N /\ ~(j + 1 <= m) /\ j + 1 <= m + N /\ j - m \in 1..N /\ j - m # N /\ (j + 1) - m = (j - m) + 1
      BY <1>2, <2>3
    <3>2. Ring(t, head, j) = B(j - m) /\ Ring(t, head, j + 1) = B((j - m) + 1)
      BY <1>11, <2>0, <3>1
    <3> QED BY <1>20, <3>1, <3>2
  <2>4. CASE j = m + N
    <3>1. ~(j <= m) /\ j <= m + N /\ ~(j + 1 <= m) /\ ~(j + 1 <= m + N) /\ j - m = N /\ (j + 1) - N = m + 1
      BY <1>2, <2>4
    <3>2. Ring(t, head, j) = last /\ Ring(t, head, j + 1) = b
      BY <1>11, <2>0, <3>1 DEF last, b
    <3> QED BY <1>21, <3>2
  <2>5. CASE j > m + N
    <3>1. ~(j <= m) /\ ~(j <= m + N) /\ ~(j + 1 <= m) /\ ~(j + 1 <= m + N) /\ j - N \in 0..P /\ j - N # m /\ (j + 1) - N = (j - N) + 1
      BY <1>2, <2>5
    <3>2. Ring(t, head, j) = A(j - N) /\ Ring(t, head, j + 1) = A((j - N) + 1)
      BY <1>11, <2>0, <3>1
    <3> QED BY <1>19, <3>1, <3>2
  <2> QED BY <1>2, <2>1, <2>2, <2>3, <2>4, <2>5
<1> HIDE DEF ms
<1>23. Apart(ms)
  <2> DEFINE from(h, j) == IF h = head /\ j > m /\ j <= m + N THEN list ELSE h
             at_(h, j) == IF h = head /\ j > m THEN (IF j <= m + N THEN j - m ELSE j - N) ELSE j
  <2>1. ASSUME NEW h \in LHead, NEW j \in 1..Len(ms[h])
        PROVE  /\ h # list /\ from(h, j) \in LHead /\ at_(h, j) \in 1..Len(ls[from(h, j)])
               /\ ms[h][j] = ls[from(h, j)][at_(h, j)]
    <3>1. h # list
      BY <1>4
    <3>2. CASE h = head
      <4>1. j \in 1..P + N /\ ms[h] = t
        BY <1>2, <1>4, <3>2
      <4>2. CASE j <= m
        <5>1. j \in 1..m /\ j \in 1..P /\ ~(j > m)
          BY <1>2, <4>1, <4>2
        <5>2. from(h, j) = head /\ at_(h, j) = j
          BY <3>2, <5>1
        <5> HIDE DEF from, at_
        <5> QED BY <1>3, <3>1, <4>1, <5>1, <5>2 DEF r, P
      <4>3. CASE j > m /\ j <= m + N
        <5>1. j - m \in 1..N /\ m + (j - m) = j
          BY <1>2, <4>1, <4>3
        <5>2. from(h, j) = list /\ at_(h, j) = j - m
          BY <3>2, <4>3
        <5>3. t[j] = s[j - m]
          BY <1>3, <5>1
        <5> HIDE DEF from, at_
        <5> QED BY <3>1, <4>1, <5>1, <5>2, <5>3 DEF s, N
      <4>4. CASE j > m + N
        <5>1. j - N \in m + 1..P /\ j - N \in 1..P /\ N + (j - N) = j /\ j > m /\ ~(j <= m + N)
          BY <1>2, <4>1, <4>4
        <5>2. from(h, j) = head /\ at_(h, j) = j - N
          BY <3>2, <5>1
        <5>3. t[j] = r[j - N]
          BY <1>3, <5>1
        <5> HIDE DEF from, at_
        <5> QED BY <3>1, <4>1, <5>1, <5>2, <5>3 DEF r, P
      <4> QED BY <1>2, <4>1, <4>2, <4>3, <4>4
    <3>3. CASE h # head
      <4>1. from(h, j) = h /\ at_(h, j) = j /\ ms[h] = ls[h]
        BY <1>4, <3>1, <3>3
      <4> HIDE DEF from, at_
      <4> QED BY <3>1, <4>1
    <3> QED BY <3>2, <3>3
  <2>2. ASSUME NEW g \in LHead, NEW h \in LHead, NEW i \in 1..Len(ms[g]), NEW j \in 1..Len(ms[h]),
               g # list, h # list, from(g, i) = from(h, j), at_(g, i) = at_(h, j)
        PROVE  g = h /\ i = j
    <3>1. i \in Nat /\ j \in Nat
      BY <1>4
    <3>2. g = h
      BY <2>2
    <3> QED BY <1>2, <2>2, <3>1, <3>2
  <2> HIDE DEF from, at_
  <2>3. ASSUME NEW g \in LHead, NEW h \in LHead, NEW i \in 1..Len(ms[g]), NEW j \in 1..Len(ms[h]), ms[g][i] = ms[h][j]
        PROVE  g = h /\ i = j
    <3>1. /\ from(g, i) \in LHead /\ at_(g, i) \in 1..Len(ls[from(g, i)]) /\ g # list
          /\ from(h, j) \in LHead /\ at_(h, j) \in 1..Len(ls[from(h, j)]) /\ h # list
          /\ ls[from(g, i)][at_(g, i)] = ls[from(h, j)][at_(h, j)]
      BY <2>1, <2>3
    <3>2. from(g, i) = from(h, j) /\ at_(g, i) = at_(h, j)
      BY <1>1, <3>1 DEF Apart
    <3> QED BY <2>2, <3>1, <3>2
  <2> QED BY <2>3 DEF Apart
<1>24. Within(L, M, ls, head, list)
  <2>1. ASSUME NEW z \in Cell, \A i \in 0..P : z # A(i), \A i \in 0..N : z # B(i)
        PROVE  M.next[z] = L.next[z] /\ M.prev[z] = L.prev[z]
    <3>1. m \in 0..P /\ (m + 1 \in 0..P \/ m + 1 = P + 1) /\ 0 \in 0..P /\ 1 \in 0..N /\ N \in 0..N /\ A(P + 1) = A(0)
      BY <1>2, <1>5
    <3>2. z # a /\ z # first /\ z # last
      BY <2>1, <3>1 DEF a, first, last
    <3>3. z # b
      BY <2>1, <3>1 DEF b
    <3> QED BY <1>17, <1>18, <2>1, <3>2, <3>3
  <2> QED BY <2>1 DEF Within, A, B, r, s, P, N
<1>25. Reshaped(M, ls, st, ms, st \cup {list}, head, list)
  <2>1. \A h \in st \cup {list} : ms[h] = <<>>
    BY <1>1, <1>4
  <2>2. \A h \in LHead : h # head /\ h # list => ms[h] = ls[h] /\ (h \in st \cup {list} <=> h \in st)
    BY <1>4
  <2>3. Circle(M, ms[head], head)
    BY <1>4, <1>22
  <2> QED BY <1>1, <1>4, <1>23, <2>1, <2>2, <2>3 DEF Reshaped
<1>26. Sound(M, ms, st \cup {list})
  BY <1>16, <1>24, <1>25, TwoChanged
<1> QED BY <1>26 DEF M, ms, A, r

\* Where an entry is.
LEMMA Whereabouts ==
    ASSUME Sound(links, lists, stale)
    PROVE  /\ \A e \in Linked : \E h \in LHead \ stale : \E k \in 1..Len(lists[h]) : e = lists[h][k]
           /\ \A e : e \notin Linked => Free(lists, e)
           /\ \A h \in LHead : \A k \in 1..Len(lists[h]) : lists[h][k] \in On(h) /\ lists[h][k] \in Linked
           /\ \A h \in LHead : \A e \in On(h) : \E k \in 1..Len(lists[h]) : e = lists[h][k]
<1>1. \A h \in LHead : lists[h] \in Seq(Entry) /\ DOMAIN lists[h] = 1..Len(lists[h])
  BY DEF Sound, Shape
<1>2. \A h \in LHead : \A e : e \in On(h) <=> \E k \in 1..Len(lists[h]) : e = lists[h][k]
  BY <1>1 DEF On, Range
<1>3. \A h \in LHead : \A k \in 1..Len(lists[h]) : h \notin stale
  BY DEF Sound, Shape
<1>4. \A e : e \in Linked <=> \E h \in LHead : e \in On(h)
  BY DEF Linked
<1>5. \A e : e \notin Linked => Free(lists, e)
  BY <1>2, <1>4 DEF Free
<1> QED BY <1>2, <1>3, <1>4, <1>5

\* Where an entry is found.
LEMMA IndexIs ==
    ASSUME Sound(links, lists, stale), NEW h \in LHead, NEW k \in 1..Len(lists[h])
    PROVE  IndexOf(lists[h], lists[h][k]) = k
<1>1. lists[h] \in Seq(Entry) /\ DOMAIN lists[h] = 1..Len(lists[h]) /\ Apart(lists)
  BY DEF Sound, Shape
<1>2. \A i \in DOMAIN lists[h] : lists[h][i] = lists[h][k] => i = k
  BY <1>1 DEF Apart
<1> QED BY <1>1, <1>2 DEF IndexOf

\* The lists without an entry.
LEMMA WithoutIs ==
    ASSUME Sound(links, lists, stale)
    PROVE  /\ \A h \in LHead : \A k \in 1..Len(lists[h]) :
                  Without(lists[h][k]) = [lists EXCEPT ![h] = RemoveAt(lists[h], k)]
           /\ \A e : e \notin Linked => Without(e) = lists
<1>1. lists \in [LHead -> Seq(Entry)] /\ Apart(lists)
  BY DEF Sound, Shape
<1>2. ASSUME NEW h \in LHead, NEW k \in 1..Len(lists[h])
      PROVE  Without(lists[h][k]) = [lists EXCEPT ![h] = RemoveAt(lists[h], k)]
  <2> DEFINE e == lists[h][k]
  <2>1. e \in On(h) /\ IndexOf(lists[h], e) = k
    BY Whereabouts, IndexIs
  <2>2. \A g \in LHead : g # h => e \notin On(g)
    <3> SUFFICES ASSUME NEW g \in LHead, g # h, e \in On(g) PROVE FALSE
      OBVIOUS
    <3>1. PICK j \in 1..Len(lists[g]) : e = lists[g][j]
      BY Whereabouts
    <3> QED BY <1>1, <3>1 DEF Apart
  <2> HIDE DEF e
  <2>3. Without(e) = [lists EXCEPT ![h] = RemoveAt(lists[h], k)]
    BY <1>1, <2>1, <2>2 DEF Without
  <2> QED BY <2>3 DEF e
<1>3. ASSUME NEW e, e \notin Linked PROVE Without(e) = lists
  <2>1. \A h \in LHead : e \notin On(h)
    BY <1>3 DEF Linked
  <2> QED BY <1>1, <2>1 DEF Without
<1> QED BY <1>2, <1>3

\* The neighbours an entry points to.
LEMMA Neighbours ==
    ASSUME NEW L, NEW ls, NEW st, Sound(L, ls, st), NEW h \in LHead \ st, NEW k \in 0..Len(ls[h])
    PROVE  /\ L.next[Ring(ls[h], h, k)] = Ring(ls[h], h, k + 1)
           /\ k > 0 => L.prev[Ring(ls[h], h, k)] = Ring(ls[h], h, k - 1)
           /\ L.next[h] = Ring(ls[h], h, 1) /\ L.prev[h] = Ring(ls[h], h, Len(ls[h]))
<1> DEFINE s == ls[h]
           N == Len(s)
<1>1. N \in Nat /\ ls \in [LHead -> Seq(Entry)] /\ Apart(ls)
  BY DEF Sound, Shape
<1>2. Ring(s, h, 0) = h /\ Ring(s, h, N + 1) = h
  BY <1>1, RingIs
<1>3. \A i \in 0..N : L.next[Ring(s, h, i)] = Ring(s, h, i + 1) /\ L.prev[Ring(s, h, i + 1)] = Ring(s, h, i)
  BY DEF Sound, Circle
<1> HIDE DEF s, N
<1>4. k \in 0..N /\ 0 \in 0..N /\ N \in 0..N /\ 0 + 1 = 1
  BY <1>1 DEF s, N
<1>5. L.next[h] = Ring(s, h, 1) /\ L.prev[h] = Ring(s, h, N)
  BY <1>2, <1>3, <1>4
<1>6. ASSUME k > 0 PROVE L.prev[Ring(s, h, k)] = Ring(s, h, k - 1)
  <2>1. k - 1 \in 0..N /\ (k - 1) + 1 = k
    BY <1>1, <1>4, <1>6
  <2> QED BY <1>3, <2>1
<1> QED BY <1>3, <1>4, <1>5, <1>6 DEF s, N

\* An entry off its list, with its own pointers as they were.
LEMMA Taken ==
    ASSUME Sound(links, lists, stale), NEW e \in Entry, e \in Linked \/ Alone(links, e)
    PROVE  /\ Sound(__list_del(links, links.prev[e], links.next[e]), Without(e), stale)
           /\ Free(Without(e), e)
<1>1. CASE e \in Linked
  <2>1. PICK h \in LHead \ stale : \E k \in 1..Len(lists[h]) : e = lists[h][k]
    BY <1>1, Whereabouts
  <2>2. PICK k \in 1..Len(lists[h]) : e = lists[h][k]
    BY <2>1
  <2>3. lists \in [LHead -> Seq(Entry)] /\ Apart(lists)
    BY DEF Sound, Shape
  <2>4. k \in 0..Len(lists[h]) /\ k > 0 /\ Ring(lists[h], h, k) = e
    BY <2>2, <2>3, RingIs
  <2>5. links.next[e] = Ring(lists[h], h, k + 1) /\ links.prev[e] = Ring(lists[h], h, k - 1)
    BY <2>4, Neighbours
  <2>6. Without(e) = [lists EXCEPT ![h] = RemoveAt(lists[h], k)]
    BY <2>2, WithoutIs
  <2>7. /\ Sound(__list_del(links, Ring(lists[h], h, k - 1), Ring(lists[h], h, k + 1)), [lists EXCEPT ![h] = RemoveAt(lists[h], k)], stale)
        /\ Free([lists EXCEPT ![h] = RemoveAt(lists[h], k)], lists[h][k])
    BY Deleted
  <2> QED BY <2>2, <2>5, <2>6, <2>7
<1>2. CASE e \notin Linked
  <2>1. Without(e) = lists /\ Free(lists, e)
    BY <1>2, WithoutIs, Whereabouts
  <2>2. links.next[e] = e /\ links.prev[e] = e /\ e \in Cell \cup {Poison}
    BY <1>2 DEF Alone, Cell
  <2>3. __list_del(links, links.prev[e], links.next[e]) = [next |-> [links.next EXCEPT ![e] = e], prev |-> [links.prev EXCEPT ![e] = e]]
    BY <2>2 DEF __list_del
  <2>4. Sound(__list_del(links, links.prev[e], links.next[e]), lists, stale)
    BY <2>1, <2>2, <2>3, FreeSet
  <2> QED BY <2>1, <2>4
<1> QED BY <1>1, <1>2

\* INIT_LIST_HEAD() of an entry that is on no list.
LEMMA EntryInitialised ==
    ASSUME NEW L, NEW ls, NEW st, Sound(L, ls, st), NEW e \in Entry, Free(ls, e)
    PROVE  Sound(INIT_LIST_HEAD(L, e), ls, st)
<1>1. e \in Cell \cup {Poison}
  BY DEF Cell
<1>2. INIT_LIST_HEAD(L, e) = [next |-> [L.next EXCEPT ![e] = e], prev |-> [L.prev EXCEPT ![e] = e]]
  BY DEF INIT_LIST_HEAD
<1> QED BY <1>1, <1>2, FreeSet

\* list_del() and list_del_init().
LEMMA DeletedAll ==
    ASSUME Sound(links, lists, stale), NEW e \in Entry, e \in Linked \/ Alone(links, e)
    PROVE  Sound(list_del(links, e), Without(e), stale) /\ Sound(list_del_init(links, e), Without(e), stale)
<1> DEFINE D == __list_del(links, links.prev[e], links.next[e])
<1>1. Sound(D, Without(e), stale) /\ Free(Without(e), e)
  BY Taken
<1> HIDE DEF D
<1>2. Poison \in Cell \cup {Poison}
  OBVIOUS
<1>3. list_del(links, e) = [next |-> [D.next EXCEPT ![e] = Poison], prev |-> [D.prev EXCEPT ![e] = Poison]]
  BY DEF list_del, D
<1>4. Sound(list_del(links, e), Without(e), stale)
  BY <1>1, <1>2, <1>3, FreeSet
<1>5. list_del_init(links, e) = INIT_LIST_HEAD(D, e)
  BY DEF list_del_init, D
<1>6. Sound(INIT_LIST_HEAD(D, e), Without(e), stale)
  BY <1>1, EntryInitialised
<1> QED BY <1>4, <1>5, <1>6

\* list_move() and list_move_tail().
LEMMA Moved ==
    ASSUME Sound(links, lists, stale), NEW e \in Entry, e \in Linked \/ Alone(links, e), NEW h \in LHead \ stale
    PROVE  /\ Sound(list_move(links, e, h), [Without(e) EXCEPT ![h] = <<e>> \o @], stale)
           /\ Sound(list_move_tail(links, e, h), [Without(e) EXCEPT ![h] = Append(@, e)], stale)
<1> DEFINE D == __list_del(links, links.prev[e], links.next[e])
           W == Without(e)
<1>1. Sound(D, W, stale) /\ Free(W, e)
  BY Taken
<1>2. list_move(links, e, h) = list_add(D, e, h) /\ list_move_tail(links, e, h) = list_add_tail(D, e, h)
  BY DEF list_move, list_move_tail
<1> HIDE DEF D, W
<1>3. Sound(list_add(D, e, h), [W EXCEPT ![h] = <<e>> \o W[h]], stale)
  BY <1>1, AddedFirst
<1>4. Sound(list_add_tail(D, e, h), [W EXCEPT ![h] = Append(W[h], e)], stale)
  BY <1>1, AddedLast
<1> QED BY <1>2, <1>3, <1>4 DEF W

\* list_replace() and list_replace_init() of an entry,
LEMMA EntryReplaces ==
    ASSUME Sound(links, lists, stale), NEW old \in Linked, NEW new \in Entry \ Linked, NEW ms,
           ms = [h \in LHead |-> [i \in DOMAIN lists[h] |-> IF lists[h][i] = old THEN new ELSE lists[h][i]]]
    PROVE  Sound(list_replace(links, old, new), ms, stale) /\ Sound(list_replace_init(links, old, new), ms, stale)
<1>1. PICK h \in LHead \ stale : \E k \in 1..Len(lists[h]) : old = lists[h][k]
  BY Whereabouts
<1>2. PICK k \in 1..Len(lists[h]) : old = lists[h][k]
  BY <1>1
<1>3. lists \in [LHead -> Seq(Entry)] /\ Apart(lists) /\ old \in Entry
  BY <1>2 DEF Sound, Shape
<1>4. Free(lists, new)
  BY Whereabouts
<1> DEFINE ns == [lists EXCEPT ![h] = [lists[h] EXCEPT ![k] = new]]
<1>5. \A g \in LHead : \A j \in 1..Len(lists[g]) : lists[g][j] = old <=> g = h /\ j = k
  BY <1>2, <1>3 DEF Apart
<1>6. ASSUME NEW g \in LHead PROVE [i \in DOMAIN lists[g] |-> IF lists[g][i] = old THEN new ELSE lists[g][i]] = ns[g]
  <2>1. lists[g] \in Seq(Entry) /\ DOMAIN lists[g] = 1..Len(lists[g])
    BY <1>3
  <2>2. CASE g = h
    <3>1. ns[g] = [lists[g] EXCEPT ![k] = new]
      BY <1>3, <2>2
    <3>2. [lists[g] EXCEPT ![k] = new] = [i \in DOMAIN lists[g] |-> IF i = k THEN new ELSE lists[g][i]]
      BY <2>1, <2>2
    <3> QED BY <1>5, <2>1, <2>2, <3>1, <3>2
  <2>3. CASE g # h
    <3>1. ns[g] = lists[g]
      BY <1>3, <2>3
    <3>2. lists[g] \in [1..Len(lists[g]) -> Entry]
      BY <2>1, LenProperties
    <3>3. lists[g] = [i \in DOMAIN lists[g] |-> lists[g][i]]
      BY <3>2
    <3> QED BY <1>5, <2>1, <2>3, <3>1, <3>3
  <2> QED BY <2>2, <2>3
<1>7. ms = ns
  <2>1. ns = [g \in LHead |-> ns[g]]
    BY <1>3
  <2> HIDE DEF ns
  <2> QED BY <1>6, <2>1
<1>8. Sound(list_replace(links, old, new), ns, stale) /\ Free(ns, old)
  BY <1>2, <1>4, Replaced
<1>9. Sound(INIT_LIST_HEAD(list_replace(links, old, new), old), ns, stale)
  BY <1>3, <1>8, EntryInitialised
<1> QED BY <1>7, <1>8, <1>9 DEF list_replace_init

\* and of a head.
LEMMA HeadReplaces ==
    ASSUME Sound(links, lists, stale), NEW old \in LHead \ stale, NEW new \in LHead, old # new, lists[new] = <<>>, NEW ms,
           ms = [lists EXCEPT ![new] = lists[old], ![old] = <<>>]
    PROVE  /\ Sound(list_replace(links, old, new), ms, (stale \ {new}) \cup {old})
           /\ Sound(list_replace_init(links, old, new), ms, stale \ {new})
<1>1. Sound(list_replace(links, old, new), ms, (stale \ {new}) \cup {old})
  BY HeadReplaced
<1>2. ms[old] = <<>>
  BY DEF Sound, Shape
<1>3. Sound(INIT_LIST_HEAD(list_replace(links, old, new), old), ms, ((stale \ {new}) \cup {old}) \ {old})
  BY <1>1, <1>2, HeadInitialised
<1>4. ((stale \ {new}) \cup {old}) \ {old} = stale \ {new}
  OBVIOUS
<1> QED BY <1>1, <1>3, <1>4 DEF list_replace_init

\* The tests of a list.
LEMMA Tests ==
    ASSUME NEW L, NEW ls, NEW st, Sound(L, ls, st), NEW h \in LHead \ st
    PROVE  /\ list_empty(L, h) <=> ls[h] = <<>>
           /\ list_empty_careful(L, h) <=> ls[h] = <<>>
           /\ list_is_singular(L, h) <=> Len(ls[h]) = 1
<1> DEFINE s == ls[h]
           N == Len(s)
<1>1. N \in Nat /\ ls \in [LHead -> Seq(Entry)] /\ Apart(ls) /\ 0 \in 0..Len(ls[h])
  BY DEF Sound, Shape
<1>2. L.next[h] = Ring(s, h, 1) /\ L.prev[h] = Ring(s, h, N) /\ Ring(s, h, 0) = h /\ Ring(s, h, N + 1) = h
  BY <1>1, Neighbours, RingIs
<1>3. \A i, j \in 0..N : Ring(s, h, i) = Ring(s, h, j) => i = j
  BY <1>1, RingIs
<1>4. s = <<>> <=> N = 0
  BY <1>1
<1> HIDE DEF s, N
<1>5. CASE N = 0
  <2>1. L.next[h] = h /\ L.prev[h] = h
    BY <1>2, <1>5
  <2> QED BY <1>4, <1>5, <2>1 DEF s, N, list_empty, list_empty_careful, list_is_singular
<1>6. CASE N # 0
  <2>1. 0 \in 0..N /\ 1 \in 0..N /\ N \in 0..N
    BY <1>1, <1>6
  <2>2. L.next[h] # h
    BY <1>2, <1>3, <2>1
  <2>3. L.next[h] = L.prev[h] <=> N = 1
    BY <1>2, <1>3, <2>1
  <2> QED BY <1>4, <1>6, <2>2, <2>3 DEF s, N, list_empty, list_empty_careful, list_is_singular
<1> QED BY <1>5, <1>6

\* list_cut_position(): the entries list had are given up first, then it gets the part.
LEMMA CutSound ==
    ASSUME Sound(links, lists, stale), NEW list \in LHead, NEW head \in LHead, NEW e, Cut(list, head, e)
    PROVE  Sound(links', lists', stale')
<1>0. list # head /\ head \notin stale /\ e \in On(head) \cup {head} /\ links' = list_cut_position(links, list, head, e)
  BY DEF Cut, Known
<1>1. lists \in [LHead -> Seq(Entry)] /\ Apart(lists) /\ stale \subseteq LHead
  BY DEF Sound, Shape
<1> DEFINE s == lists[head]
           N == Len(s)
<1>2. s \in Seq(Entry) /\ N \in Nat /\ (s = <<>> <=> N = 0)
  BY <1>1
<1>3. /\ list_empty(links, head) <=> s = <<>>
      /\ list_is_singular(links, head) <=> N = 1
  BY <1>0, Tests
<1>4. CASE s = <<>>
  BY <1>0, <1>3, <1>4 DEF Cut, list_cut_position
<1>5. CASE s # <<>>
  <2> DEFINE i == IF e = head THEN 0 ELSE IndexOf(s, e)
             gs == [lists EXCEPT ![list] = <<>>]
             gt == stale \cup {list}
  <2>1. /\ lists' = [lists EXCEPT ![list] = SubSeq(s, 1, i), ![head] = SubSeq(s, i + 1, N)]
        /\ stale' = stale \ {list}
    BY <1>0, <1>5 DEF Cut
  <2>2. Sound(links, gs, gt)
    BY GivenUp
  <2>3. gs \in [LHead -> Seq(Entry)] /\ gs[head] = s /\ gs[list] = <<>> /\ \A h \in LHead : h # list => gs[h] = lists[h]
    BY <1>0, <1>1
  <2>4. gt \ {list} = stale \ {list} /\ head \notin gt
    BY <1>0
  <2> HIDE DEF gs, gt
  <2>5. CASE e = head
    <3>1. links' = INIT_LIST_HEAD(links, list)
      BY <1>0, <1>3, <1>5, <2>5 DEF list_cut_position
    <3>2. Sound(INIT_LIST_HEAD(links, list), gs, gt \ {list})
      BY <2>2, <2>3, HeadInitialised
    <3>3. SubSeq(s, 1, 0) = <<>> /\ SubSeq(s, 1, N) = s
      <4> HIDE DEF s
      <4>1. SubSeq(s, 1, N) = s
        BY <1>2, SubSeqFull
      <4>2. SubSeq(s, 1, 0) = <<>>
        BY SubSeqEmpty
      <4> QED BY <4>1, <4>2
    <3>4. lists' = [lists EXCEPT ![list] = <<>>, ![head] = s]
      <4>1. i = 0 /\ 0 + 1 = 1
        BY <2>5
      <4> HIDE DEF i, s, N
      <4> QED BY <2>1, <3>3, <4>1
    <3>5. lists' = gs
      BY <1>0, <1>1, <3>4 DEF gs
    <3> QED BY <2>1, <2>4, <3>1, <3>2, <3>5
  <2>6. CASE e # head
    <3>1. PICK k \in 1..Len(lists[head]) : e = lists[head][k]
      BY <1>0, <2>6, Whereabouts
    <3>2. IndexOf(lists[head], lists[head][k]) = k
      BY IndexIs
    <3>3. i = k
      BY <2>6, <3>1, <3>2
    <3>4. ~(list_is_singular(links, head) /\ links.next[head] # e /\ head # e)
      <4> SUFFICES ASSUME N = 1 PROVE links.next[head] = e
        BY <1>3
      <4>1. k = 1 /\ 0 \in 0..Len(lists[head])
        BY <1>2
      <4>2. links.next[head] = Ring(s, head, 1)
        BY <1>0, <4>1, Neighbours
      <4> QED BY <3>1, <4>1, <4>2 DEF Ring
    <3>5. links' = __list_cut_position(links, list, head, e)
      BY <1>0, <1>3, <1>5, <2>6, <3>4 DEF list_cut_position
    <3>6. k \in 1..Len(gs[head]) /\ gs[head][k] = e /\ head \in LHead \ gt
      BY <2>3, <2>4, <3>1
    <3>7. Sound(__list_cut_position(links, list, head, gs[head][k]),
                [gs EXCEPT ![list] = SubSeq(gs[head], 1, k), ![head] = SubSeq(gs[head], k + 1, Len(gs[head]))], gt \ {list})
      BY <1>0, <2>2, <2>3, <3>6, CutOff
    <3>8. lists' = [lists EXCEPT ![list] = SubSeq(s, 1, k), ![head] = SubSeq(s, k + 1, N)]
      <4> HIDE DEF i, s, N
      <4> QED BY <2>1, <3>3
    <3>9. [gs EXCEPT ![list] = SubSeq(s, 1, k), ![head] = SubSeq(s, k + 1, N)] = lists'
      <4> DEFINE p == SubSeq(s, 1, k)
                 q == SubSeq(s, k + 1, N)
      <4> HIDE DEF p, q
      <4>1. lists' = [lists EXCEPT ![list] = p, ![head] = q]
        BY <3>8 DEF p, q
      <4>2. [gs EXCEPT ![list] = p, ![head] = q] = lists'
        BY <1>1, <4>1 DEF gs
      <4> QED BY <4>2 DEF p, q
    <3> QED BY <2>1, <2>3, <2>4, <3>5, <3>6, <3>7, <3>9
  <2> QED BY <2>5, <2>6
<1> QED BY <1>4, <1>5

LEMMA Joins ==
    ASSUME NEW r \in Seq(Entry), NEW s \in Seq(Entry)
    PROVE  /\ s \o r \in Seq(Entry) /\ Joined(s \o r, r, s, 0)
           /\ r \o s \in Seq(Entry) /\ Joined(r \o s, r, s, Len(r))
<1>1. Len(r) \in Nat /\ Len(s) \in Nat
  OBVIOUS
<1> DEFINE t == s \o r
           u == r \o s
<1>2. t \in Seq(Entry) /\ Len(t) = Len(s) + Len(r) /\ \A i \in 1..Len(s) + Len(r) : t[i] = IF i <= Len(s) THEN s[i] ELSE r[i - Len(s)]
  BY ConcatProperties
<1>3. u \in Seq(Entry) /\ Len(u) = Len(r) + Len(s) /\ \A i \in 1..Len(r) + Len(s) : u[i] = IF i <= Len(r) THEN r[i] ELSE s[i - Len(r)]
  BY ConcatProperties
<1> HIDE DEF t, u
<1>4. Joined(t, r, s, 0)
  <2>1. ASSUME NEW j \in 1..Len(s) PROVE t[0 + j] = s[j]
    <3>1. j \in 1..Len(s) + Len(r) /\ j <= Len(s) /\ 0 + j = j
      BY <1>1
    <3> QED BY <1>2, <3>1
  <2>2. ASSUME NEW j \in 0 + 1..Len(r) PROVE t[Len(s) + j] = r[j]
    <3>1. Len(s) + j \in 1..Len(s) + Len(r) /\ ~(Len(s) + j <= Len(s)) /\ (Len(s) + j) - Len(s) = j
      BY <1>1
    <3> QED BY <1>2, <3>1
  <2>3. Len(t) = Len(r) + Len(s) /\ \A j \in 1..0 : t[j] = r[j]
    BY <1>1, <1>2
  <2> QED BY <2>1, <2>2, <2>3 DEF Joined
<1>5. Joined(u, r, s, Len(r))
  <2>1. ASSUME NEW j \in 1..Len(r) PROVE u[j] = r[j]
    BY <1>1, <1>3
  <2>2. ASSUME NEW j \in 1..Len(s) PROVE u[Len(r) + j] = s[j]
    <3>1. Len(r) + j \in 1..Len(r) + Len(s) /\ ~(Len(r) + j <= Len(r)) /\ (Len(r) + j) - Len(r) = j
      BY <1>1
    <3> QED BY <1>3, <3>1
  <2>3. \A j \in Len(r) + 1..Len(r) : u[Len(s) + j] = r[j]
    BY <1>1
  <2> QED BY <1>3, <2>1, <2>2, <2>3 DEF Joined
<1> QED BY <1>2, <1>3, <1>4, <1>5 DEF t, u

\* The four variants of list_splice().
LEMMA SpliceSound ==
    ASSUME Sound(links, lists, stale), NEW list \in LHead, NEW head \in LHead, Splice(list, head)
    PROVE  Sound(links', lists', stale')
<1> DEFINE r == lists[head]
           s == lists[list]
           front == [lists EXCEPT ![head] = s \o r, ![list] = <<>>]
           back == [lists EXCEPT ![head] = r \o s, ![list] = <<>>]
<1>1. list # head /\ list \notin stale /\ head \notin stale
  BY DEF Splice, Known
<1>2. lists \in [LHead -> Seq(Entry)] /\ Apart(lists) /\ stale \subseteq LHead
  BY DEF Sound, Shape
<1>3. r \in Seq(Entry) /\ s \in Seq(Entry)
  BY <1>2
<1>4. list_empty(links, list) <=> s = <<>>
  BY <1>1, Tests
<1>5. LET left == IF s = <<>> THEN stale ELSE stale \cup {list}
      IN  \/ links' = list_splice(links, list, head) /\ lists' = front /\ stale' = left
          \/ links' = list_splice_tail(links, list, head) /\ lists' = back /\ stale' = left
          \/ links' = list_splice_init(links, list, head) /\ lists' = front /\ UNCHANGED stale
          \/ links' = list_splice_tail_init(links, list, head) /\ lists' = back /\ UNCHANGED stale
  BY <1>1, <1>2 DEF Splice
<1>6. CASE s = <<>>
  <2>1. s \o r = r /\ r \o s = r
    BY <1>3, <1>6, ConcatEmptySeq
  <2>2. front = lists /\ back = lists
    BY <1>1, <1>2, <1>6, <2>1
  <2> HIDE DEF front, back
  <2>3. links' = links /\ lists' = lists /\ stale' = stale
    BY <1>4, <1>5, <1>6, <2>2 DEF list_splice, list_splice_tail, list_splice_init, list_splice_tail_init
  <2> QED BY <2>3
<1>7. CASE s # <<>>
  <2> DEFINE F == __list_splice(links, list, head, links.next[head])
             B == __list_splice(links, list, links.prev[head], head)
  <2>1. 0 \in 0..Len(r) /\ Len(r) \in 0..Len(r) /\ 0 + 1 = 1 /\ Ring(r, head, 0) = head /\ Ring(r, head, Len(r) + 1) = head
    BY <1>2, <1>3, RingIs
  <2>2. links.next[head] = Ring(r, head, 1) /\ links.prev[head] = Ring(r, head, Len(r))
    BY <1>1, <2>1, Neighbours
  <2>3. Sound(F, front, stale \cup {list})
    <3> DEFINE t == s \o r
    <3>1. t \in Seq(Entry) /\ Joined(t, r, s, 0)
      BY <1>3, Joins
    <3> HIDE DEF t
    <3>2. Sound(__list_splice(links, list, Ring(r, head, 0), Ring(r, head, 0 + 1)), [lists EXCEPT ![head] = t, ![list] = <<>>], stale \cup {list})
      BY <1>1, <1>7, <2>1, <3>1, SplicedIn
    <3> QED BY <2>1, <2>2, <3>2 DEF t
  <2>4. Sound(B, back, stale \cup {list})
    <3> DEFINE t == r \o s
               m == Len(r)
    <3>1. t \in Seq(Entry) /\ Joined(t, r, s, m) /\ m \in 0..Len(r)
      BY <1>3, <2>1, Joins
    <3>3. Ring(r, head, m + 1) = head /\ Ring(r, head, m) = links.prev[head]
      BY <2>1, <2>2
    <3> HIDE DEF t, m
    <3>2. Sound(__list_splice(links, list, Ring(r, head, m), Ring(r, head, m + 1)), [lists EXCEPT ![head] = t, ![list] = <<>>], stale \cup {list})
      BY <1>1, <1>7, <3>1, SplicedIn
    <3> QED BY <3>2, <3>3 DEF t
  <2>5. front[list] = <<>> /\ back[list] = <<>> /\ (stale \cup {list}) \ {list} = stale
    BY <1>1, <1>2
  <2> HIDE DEF F, B, front, back
  <2>6. Sound(INIT_LIST_HEAD(F, list), front, stale)
    <3>1. Sound(INIT_LIST_HEAD(F, list), front, (stale \cup {list}) \ {list})
      BY <2>3, <2>5, HeadInitialised
    <3> QED BY <2>5, <3>1
  <2>7. Sound(INIT_LIST_HEAD(B, list), back, stale)
    <3>1. Sound(INIT_LIST_HEAD(B, list), back, (stale \cup {list}) \ {list})
      BY <2>4, <2>5, HeadInitialised
    <3> QED BY <2>5, <3>1
  <2>8. /\ list_splice(links, list, head) = F /\ list_splice_init(links, list, head) = INIT_LIST_HEAD(F, list)
        /\ list_splice_tail(links, list, head) = B /\ list_splice_tail_init(links, list, head) = INIT_LIST_HEAD(B, list)
    BY <1>4, <1>7 DEF list_splice, list_splice_tail, list_splice_init, list_splice_tail_init, F, B
  <2>9. stale' = stale \/ stale' = stale \cup {list}
    BY <1>5
  <2> QED BY <1>5, <1>7, <2>3, <2>4, <2>6, <2>7, <2>8
<1> QED BY <1>6, <1>7

\* The calls a program makes outside of a loop.
Call ==
    \/ \E h \in LHead : InitHead(h)
    \/ \E e \in Entry : InitEntry(e) \/ Del(e) \/ \E h \in LHead : Add(e, h) \/ MoveTo(e, h)
    \/ \E old, new \in LHead \cup Entry : Replace(old, new)
    \/ \E g, h \in LHead : Splice(g, h) \/ \E e \in LHead \cup Entry : Cut(g, h, e)

\* Every call outside of a loop leaves circles.
LEMMA CallSound ==
    ASSUME Sound(links, lists, stale), Call
    PROVE  Sound(links', lists', stale')
<1>0. stale \subseteq LHead /\ lists \in [LHead -> Seq(Entry)] /\ \A h \in stale : lists[h] = <<>>
  BY DEF Sound, Shape
<1>1. ASSUME NEW h \in LHead, InitHead(h) PROVE Sound(links', lists', stale')
  <2>1. lists[h] = <<>> /\ links' = INIT_LIST_HEAD(links, h) /\ stale' = stale \ {h} /\ lists' = lists
    BY <1>0, <1>1 DEF InitHead, Known
  <2> QED BY <2>1, HeadInitialised
<1>2. ASSUME NEW e \in Entry, InitEntry(e) PROVE Sound(links', lists', stale')
  <2>1. Free(lists, e) /\ links' = INIT_LIST_HEAD(links, e) /\ stale' = stale /\ lists' = lists
    BY <1>2, Whereabouts DEF InitEntry
  <2> QED BY <2>1, EntryInitialised
<1>3. ASSUME NEW e \in Entry, Del(e) PROVE Sound(links', lists', stale')
  BY <1>3, DeletedAll DEF Del
<1>4. ASSUME NEW e \in Entry, NEW h \in LHead, Add(e, h) PROVE Sound(links', lists', stale')
  <2>1. /\ Free(lists, e) /\ h \in LHead \ stale /\ stale' = stale
        /\ \/ links' = list_add(links, e, h) /\ lists' = [lists EXCEPT ![h] = <<e>> \o lists[h]]
           \/ links' = list_add_tail(links, e, h) /\ lists' = [lists EXCEPT ![h] = Append(lists[h], e)]
    BY <1>0, <1>4, Whereabouts DEF Add, Known
  <2>2. Sound(list_add(links, e, h), [lists EXCEPT ![h] = <<e>> \o lists[h]], stale)
    BY <2>1, AddedFirst
  <2>3. Sound(list_add_tail(links, e, h), [lists EXCEPT ![h] = Append(lists[h], e)], stale)
    BY <2>1, AddedLast
  <2> QED BY <2>1, <2>2, <2>3
<1>5. ASSUME NEW e \in Entry, NEW h \in LHead, MoveTo(e, h) PROVE Sound(links', lists', stale')
  <2>1. h \in LHead \ stale /\ (e \in Linked \/ Alone(links, e))
    BY <1>5 DEF MoveTo, Known
  <2>2. /\ Sound(list_move(links, e, h), [Without(e) EXCEPT ![h] = <<e>> \o @], stale)
        /\ Sound(list_move_tail(links, e, h), [Without(e) EXCEPT ![h] = Append(@, e)], stale)
    BY <2>1, Moved
  <2> QED BY <1>5, <2>2 DEF MoveTo
<1>6. ASSUME NEW old \in LHead \cup Entry, NEW new \in LHead \cup Entry, Replace(old, new) PROVE Sound(links', lists', stale')
  <2>1. CASE /\ old \in Linked /\ new \in Entry \ Linked
             /\ links' \in {list_replace(links, old, new), list_replace_init(links, old, new)}
             /\ lists' = [h \in LHead |-> [i \in DOMAIN lists[h] |-> IF lists[h][i] = old THEN new ELSE lists[h][i]]]
             /\ UNCHANGED stale
    <3>1. Sound(list_replace(links, old, new), lists', stale) /\ Sound(list_replace_init(links, old, new), lists', stale)
      BY <2>1, EntryReplaces
    <3> QED BY <2>1, <3>1
  <2>2. CASE /\ old \in LHead /\ new \in LHead /\ old # new /\ Known(old) /\ lists[new] = <<>>
             /\ lists' = [lists EXCEPT ![new] = lists[old], ![old] = <<>>]
             /\ \/ links' = list_replace(links, old, new) /\ stale' = (stale \ {new}) \cup {old}
                \/ links' = list_replace_init(links, old, new) /\ stale' = stale \ {new}
    <3>1. old \in LHead \ stale
      BY <2>2 DEF Known
    <3>2. /\ Sound(list_replace(links, old, new), lists', (stale \ {new}) \cup {old})
          /\ Sound(list_replace_init(links, old, new), lists', stale \ {new})
      BY <2>2, <3>1, HeadReplaces
    <3> QED BY <2>2, <3>2
  <2> QED BY <1>6, <2>1, <2>2 DEF Replace
<1>7. ASSUME NEW g \in LHead, NEW h \in LHead, Splice(g, h) PROVE Sound(links', lists', stale')
  BY <1>7, SpliceSound
<1>8. ASSUME NEW g \in LHead, NEW h \in LHead, NEW e \in LHead \cup Entry, Cut(g, h, e) PROVE Sound(links', lists', stale')
  BY <1>8, CutSound
<1> QED BY <1>1, <1>2, <1>3, <1>4, <1>5, <1>6, <1>7, <1>8 DEF Call

\* The circle of a list in the direction of a loop.
Turn(s, h, dir, m) == IF dir = "next" THEN Ring(s, h, m) ELSE Ring(s, h, Len(s) + 1 - m)

LoopType == [on : {TRUE}, head : LHead, dir : {"next", "prev"}, safe : BOOLEAN,
             pos : Cell, n : Cell, seen : Seq(Entry), todo : Seq(Entry)]

\* A loop at the m-th spot: the entries it has seen, and the ones from there on, are
\* the ones it began with.
LoopAt(m) ==
    LET s == lists[loop.head]
        k == Len(loop.seen)
    IN  /\ loop.pos = Turn(s, loop.head, loop.dir, m)
        /\ Len(loop.todo) = k + Len(s) + 1 - m
        /\ \A i \in 1..k : loop.seen[i] = loop.todo[i]
        /\ \A i \in m..Len(s) : loop.todo[k + 1 + i - m] = Turn(s, loop.head, loop.dir, i)

Looping ==
    /\ loop \in LoopType /\ loop.head \notin stale
    /\ loop.safe => loop.n = Follow(loop.dir, loop.pos)
    /\ \E m \in 1..Len(lists[loop.head]) + 1 : LoopAt(m)

\* The inductive invariant.
LInv == Sound(links, lists, stale) /\ (loop = NoLoop \/ Looping)

\* The circle in either direction: Follow() leads from each spot to the one behind it.
LEMMA Turning ==
    ASSUME NEW L, NEW ls, NEW st, Sound(L, ls, st), NEW h \in LHead \ st, NEW dir \in {"next", "prev"}
    PROVE  /\ Turn(ls[h], h, dir, 0) = h /\ Turn(ls[h], h, dir, Len(ls[h]) + 1) = h
           /\ \A m \in 1..Len(ls[h]) : /\ Turn(ls[h], h, dir, m) \in Entry
                                       /\ Turn(ls[h], h, dir, m) = ls[h][IF dir = "next" THEN m ELSE Len(ls[h]) + 1 - m]
           /\ \A m \in 0..Len(ls[h]) : (IF dir = "next" THEN L.next[Turn(ls[h], h, dir, m)] ELSE L.prev[Turn(ls[h], h, dir, m)])
                                           = Turn(ls[h], h, dir, m + 1)
           /\ \A i, j \in 0..Len(ls[h]) : Turn(ls[h], h, dir, i) = Turn(ls[h], h, dir, j) => i = j
<1> DEFINE s == ls[h]
           N == Len(s)
           R(i) == Ring(s, h, i)
           T(m) == Turn(s, h, dir, m)
<1>1. N \in Nat /\ ls \in [LHead -> Seq(Entry)] /\ Apart(ls)
  BY DEF Sound, Shape
<1>2. R(0) = h /\ R(N + 1) = h /\ \A i \in 1..N : R(i) = s[i] /\ R(i) \in Entry
  <2>1. R(0) = h /\ R(N + 1) = h
    BY <1>1, RingIs
  <2>2. \A i \in 1..N : R(i) = s[i] /\ s[i] \in Entry
    BY <1>1, RingIs
  <2> QED BY <2>1, <2>2
<1>3. \A i, j \in 0..N : R(i) = R(j) => i = j
  BY <1>1, RingIs
<1>4. \A i, j \in 0..N : R(i + 1) = R(j + 1) => i = j
  BY <1>1, RingTurns
<1>5. \A i \in 0..N : L.next[R(i)] = R(i + 1) /\ L.prev[R(i + 1)] = R(i)
  BY DEF Sound, Circle
<1>6. \A m : T(m) = IF dir = "next" THEN R(m) ELSE R(N + 1 - m)
  BY DEF Turn
<1> HIDE DEF s, N, R, T
<1>7. CASE dir = "next"
  <2>1. \A m : T(m) = R(m)
    BY <1>6, <1>7
  <2>2. \A m \in 1..N : T(m) \in Entry /\ T(m) = s[IF dir = "next" THEN m ELSE N + 1 - m]
    BY <1>2, <1>7, <2>1
  <2>3. \A m \in 0..N : (IF dir = "next" THEN L.next[T(m)] ELSE L.prev[T(m)]) = T(m + 1)
    BY <1>5, <1>7, <2>1
  <2>4. \A i, j \in 0..N : T(i) = T(j) => i = j
    BY <1>3, <2>1
  <2>5. T(0) = h /\ T(N + 1) = h
    BY <1>2, <2>1
  <2> QED BY <2>2, <2>3, <2>4, <2>5 DEF T, N, s
<1>8. CASE dir # "next"
  <2>1. \A m : T(m) = R(N + 1 - m)
    BY <1>6, <1>8
  <2>2. ASSUME NEW m \in 1..N PROVE T(m) \in Entry /\ T(m) = s[IF dir = "next" THEN m ELSE N + 1 - m]
    <3>1. N + 1 - m \in 1..N
      BY <1>1
    <3> QED BY <1>2, <1>8, <2>1, <3>1
  <2>3. ASSUME NEW m \in 0..N PROVE (IF dir = "next" THEN L.next[T(m)] ELSE L.prev[T(m)]) = T(m + 1)
    <3> DEFINE i == N - m
    <3>1. i \in 0..N /\ N + 1 - m = i + 1 /\ N + 1 - (m + 1) = i
      BY <1>1
    <3> HIDE DEF i
    <3> QED BY <1>5, <1>8, <2>1, <3>1
  <2>4. ASSUME NEW i \in 0..N, NEW j \in 0..N, T(i) = T(j) PROVE i = j
    <3> DEFINE x == N - i
               y == N - j
    <3>1. x \in 0..N /\ y \in 0..N /\ N + 1 - i = x + 1 /\ N + 1 - j = y + 1 /\ (x = y => i = j)
      BY <1>1
    <3> HIDE DEF x, y
    <3>2. R(x + 1) = R(y + 1)
      BY <2>1, <2>4, <3>1
    <3> QED BY <1>4, <3>1, <3>2
  <2>5. T(0) = h /\ T(N + 1) = h
    <3>1. N + 1 - 0 = N + 1 /\ N + 1 - (N + 1) = 0
      BY <1>1
    <3> QED BY <1>2, <2>1, <3>1
  <2> QED BY <2>2, <2>3, <2>4, <2>5 DEF T, N, s
<1> QED BY <1>7, <1>8

\* Which entry of the list is the m-th one of the direction.
EntryAt(s, dir, m) == IF dir = "next" THEN m ELSE Len(s) + 1 - m

\* The circle that is left when its m-th entry is gone.
Shortened(t, s, h, dir, m) ==
    /\ Len(t) = Len(s) - 1
    /\ \A i \in 0..Len(s) : Turn(t, h, dir, i) = IF i < m THEN Turn(s, h, dir, i) ELSE Turn(s, h, dir, i + 1)

LEMMA TurnRemoved ==
    ASSUME NEW s \in Seq(Entry), NEW h, NEW dir \in {"next", "prev"}, NEW m \in 1..Len(s), NEW t,
           t = RemoveAt(s, EntryAt(s, dir, m))
    PROVE  Shortened(t, s, h, dir, m)
<1> DEFINE N == Len(s)
           k == EntryAt(s, dir, m)
<1>1. N \in Nat /\ m \in Nat /\ k \in 1..Len(s) /\ k = IF dir = "next" THEN m ELSE Len(s) + 1 - m
  BY DEF EntryAt
<1> HIDE DEF k
<1>0. t = RemoveAt(s, k)
  BY DEF k
<1>2. Len(t) = N - 1
  BY <1>0, <1>1, Removing
<1>3. \A j \in 0..Len(s) : Ring(t, h, j) = IF j < k THEN Ring(s, h, j) ELSE Ring(s, h, j + 1)
  BY <1>0, <1>1, RingRemoved
<1> HIDE DEF N
<1>4. ASSUME NEW i \in 0..N PROVE Turn(t, h, dir, i) = IF i < m THEN Turn(s, h, dir, i) ELSE Turn(s, h, dir, i + 1)
  <2>1. CASE dir = "next"
    BY <1>1, <1>3, <2>1 DEF Turn, N
  <2>2. CASE dir # "next"
    <3> DEFINE j == N - i
    <3>1. Len(t) + 1 - i = j /\ j \in 0..N /\ N + 1 - i = j + 1 /\ N + 1 - (i + 1) = j /\ (j < k <=> ~(i < m))
      BY <1>1, <1>2, <2>2 DEF N
    <3> HIDE DEF j
    <3>2. Turn(t, h, dir, i) = Ring(t, h, j)
      BY <2>2, <3>1 DEF Turn
    <3>3. Turn(s, h, dir, i) = Ring(s, h, j + 1) /\ Turn(s, h, dir, i + 1) = Ring(s, h, j)
      BY <2>2, <3>1 DEF Turn, N
    <3> QED BY <1>3, <3>1, <3>2, <3>3 DEF N
  <2> QED BY <2>1, <2>2
<1> QED BY <1>2, <1>4 DEF N, Shortened

\* An entry is at the j-th spot, and the rest of its list is what comes from there on.
RestAt(h, dir, i, j) ==
    LET m == IF i = h THEN 1 ELSE j
    IN  /\ i = Turn(lists[h], h, dir, j) /\ (i = h <=> j = 0)
        /\ Rest(h, dir, i) \in Seq(Entry) /\ Len(Rest(h, dir, i)) = Len(lists[h]) + 1 - m
        /\ \A q \in 1..Len(Rest(h, dir, i)) : Rest(h, dir, i)[q] = Turn(lists[h], h, dir, m - 1 + q)

LEMMA RestIs ==
    ASSUME Sound(links, lists, stale), NEW h \in LHead \ stale, NEW dir \in {"next", "prev"}, NEW i \in On(h) \cup {h}
    PROVE  \E j \in 0..Len(lists[h]) : RestAt(h, dir, i, j)
<1> DEFINE s == lists[h]
           N == Len(s)
           T(m) == Turn(s, h, dir, m)
           u == IF dir = "next" THEN s ELSE Reverse(s)
<1>1. lists \in [LHead -> Seq(Entry)] /\ s \in Seq(Entry) /\ N \in Nat /\ DOMAIN s = 1..N
  BY DEF Sound, Shape
<1>2. /\ T(0) = h
      /\ \A m \in 1..N : T(m) \in Entry /\ T(m) = s[IF dir = "next" THEN m ELSE N + 1 - m]
      /\ \A a, b \in 0..N : T(a) = T(b) => a = b
  BY Turning
<1> HIDE DEF T
<1>3. u \in Seq(Entry) /\ Len(u) = N /\ DOMAIN u = 1..N /\ \A q \in 1..N : u[q] = T(q)
  <2>1. CASE dir = "next"
    BY <1>1, <1>2, <2>1
  <2>2. CASE dir # "next"
    <3>1. u = [q \in 1..N |-> s[(N - q) + 1]]
      BY <2>2 DEF Reverse
    <3>2. \A q \in 1..N : N + 1 - q = (N - q) + 1 /\ s[(N - q) + 1] = T(q) /\ T(q) \in Entry
      BY <1>1, <1>2, <2>2
    <3> HIDE DEF u, s, N
    <3>3. u \in [1..N -> Entry]
      BY <3>1, <3>2
    <3>4. u \in Seq(Entry) /\ Len(u) = N
      BY <1>1, <3>3
    <3> QED BY <3>1, <3>2, <3>4
  <2> QED BY <2>1, <2>2
<1>4. Rest(h, dir, i) = IF i = h THEN u ELSE SubSeq(u, IndexOf(u, i), Len(u))
  BY DEF Rest
<1>5. h \notin Entry
  BY ListAssumption
<1>6. CASE i = h
  <2> HIDE DEF u, s, N
  <2>1. 0 \in 0..N /\ Rest(h, dir, i) = u /\ Len(u) = N + 1 - 1 /\ \A q \in 1..Len(u) : u[q] = T(1 - 1 + q)
    BY <1>1, <1>3, <1>4, <1>6
  <2> QED BY <1>2, <1>3, <1>6, <2>1 DEF T, N, s, RestAt
<1>7. CASE i # h
  <2>1. PICK k \in 1..Len(lists[h]) : i = lists[h][k]
    BY <1>7, Whereabouts
  <2>2. PICK j \in 1..N : i = T(j)
    <3>1. k \in 1..N /\ N + 1 - k \in 1..N /\ N + 1 - (N + 1 - k) = k
      BY <1>1, <2>1
    <3>2. CASE dir = "next"
      BY <1>2, <2>1, <3>1, <3>2
    <3>3. CASE dir # "next"
      <4>1. T(N + 1 - k) = s[k]
        <5> HIDE DEF s, N
        <5> QED BY <1>2, <3>1, <3>3
      <4> QED BY <2>1, <3>1, <4>1
    <3> QED BY <3>2, <3>3
  <2> HIDE DEF u, s, N
  <2>3. IndexOf(u, i) = j
    <3>1. \A q \in DOMAIN u : u[q] = i <=> q = j
      BY <1>1, <1>2, <1>3, <2>2
    <3>2. j \in DOMAIN u
      BY <1>3
    <3> QED BY <3>1, <3>2 DEF IndexOf
  <2> DEFINE t == SubSeq(u, j, N)
  <2>4. Rest(h, dir, i) = t
    BY <1>3, <1>4, <1>7, <2>3
  <2>5. t \in Seq(Entry) /\ Len(t) = N + 1 - j /\ \A q \in 1..N + 1 - j : t[q] = u[j + q - 1]
    <3>0. j \in Nat /\ j <= N /\ j >= 1
      BY <1>1
    <3>1. \A q \in j..N : u[q] \in Entry
      BY <1>1, <1>2, <1>3
    <3>2. t \in Seq(Entry) /\ Len(t) = (IF j <= N THEN N - j + 1 ELSE 0) /\ \A q \in 1..N - j + 1 : t[q] = u[j + q - 1]
      <4> HIDE DEF u
      <4>1. j \in Int /\ N \in Int
        BY <1>1
      <4> QED BY <1>3, <3>0, <3>1, <4>1, SubSeqProperties
    <3> HIDE DEF t
    <3>3. N - j + 1 = N + 1 - j
      BY <1>1
    <3> QED BY <3>0, <3>2, <3>3
  <2> HIDE DEF t
  <2>6. ASSUME NEW q \in 1..Len(t) PROVE t[q] = T(j - 1 + q)
    <3>1. q \in 1..N + 1 - j /\ j + q - 1 = j - 1 + q /\ j + q - 1 \in 1..N
      BY <1>1, <2>5
    <3> QED BY <1>3, <2>5, <3>1
  <2>7. j \in 0..N /\ j # 0
    BY <1>1
  <2> QED BY <1>7, <2>2, <2>4, <2>5, <2>6, <2>7 DEF T, N, s, RestAt
<1> QED BY <1>6, <1>7

\* Every loop begins at a spot of its list, with the entries from there on to visit.
LEMMA LoopStarts ==
    ASSUME Sound(links, lists, stale), NEW h \in LHead, NEW dir \in {"next", "prev"}, NEW safe \in BOOLEAN,
           NEW start, NEW i, list_for_each(h, dir, safe, start, i)
    PROVE  LInv'
<1> DEFINE s == lists[h]
           N == Len(s)
           T(m) == Turn(s, h, dir, m)
           rest == Rest(h, dir, i)
           todo == IF start = "continue" /\ i # h THEN Tail(rest) ELSE rest
           pos == IF start = "from" THEN i ELSE Follow(dir, i)
<1>1. /\ h \in LHead \ stale /\ i \in On(h) \cup {h} /\ start \in {"from", "continue"} /\ (start = "from" => i # h)
      /\ loop' = [on |-> TRUE, head |-> h, dir |-> dir, safe |-> safe, pos |-> pos, seen |-> <<>>,
                  n |-> IF safe THEN Follow(dir, pos) ELSE pos, todo |-> todo]
      /\ links' = links /\ lists' = lists /\ stale' = stale
  BY DEF list_for_each, Known, Ahead
<1>2. lists \in [LHead -> Seq(Entry)] /\ s \in Seq(Entry) /\ N \in Nat
  BY DEF Sound, Shape
<1>3. PICK j \in 0..N : RestAt(h, dir, i, j)
  BY <1>1, RestIs
<1>3a. /\ i = T(j) /\ (i = h <=> j = 0)
       /\ LET m == IF i = h THEN 1 ELSE j
          IN  /\ rest \in Seq(Entry) /\ Len(rest) = N + 1 - m
              /\ \A q \in 1..Len(rest) : rest[q] = T(m - 1 + q)
  BY <1>3 DEF RestAt
<1>4. /\ T(0) = h /\ T(N + 1) = h
      /\ \A m \in 1..N : T(m) \in Entry
      /\ \A m \in 0..N : Follow(dir, T(m)) = T(m + 1)
  <2>1. T(0) = h /\ T(N + 1) = h
    BY <1>1, Turning
  <2>2. \A m \in 1..N : T(m) \in Entry
    BY <1>1, Turning
  <2>3. \A m \in 0..N : (IF dir = "next" THEN links.next[T(m)] ELSE links.prev[T(m)]) = T(m + 1)
    BY <1>1, Turning
  <2> QED BY <2>1, <2>2, <2>3 DEF Follow
<1>5. \A m \in 0..N + 1 : T(m) \in Cell
  <2>1. \A m \in 0..N + 1 : m = 0 \/ m = N + 1 \/ m \in 1..N
    BY <1>2
  <2> HIDE DEF T
  <2> QED BY <1>4, <2>1 DEF Cell
<1> HIDE DEF T, rest
<1>6. PICK m \in 1..N + 1 : /\ pos = T(m) /\ todo \in Seq(Entry) /\ Len(todo) = N + 1 - m
                            /\ \A q \in 1..Len(todo) : todo[q] = T(m - 1 + q)
  <2> HIDE DEF N
  <2>1. CASE i = h
    <3>1. start = "continue" /\ j = 0 /\ pos = T(0 + 1) /\ todo = rest /\ 0 \in 0..N /\ 1 \in 1..N + 1 /\ 0 + 1 = 1
      BY <1>1, <1>2, <1>3a, <1>4, <2>1
    <3> HIDE DEF pos, todo
    <3> QED BY <1>3a, <2>1, <3>1
  <2>2. CASE i # h /\ start = "from"
    <3>1. pos = T(j) /\ todo = rest /\ j \in 1..N + 1
      BY <1>2, <1>3a, <2>2
    <3> HIDE DEF pos, todo
    <3> QED BY <1>3a, <2>2, <3>1
  <2>3. CASE i # h /\ start # "from"
    <3>1. pos = T(j + 1) /\ todo = Tail(rest) /\ j + 1 \in 1..N + 1 /\ j \in 1..N
      BY <1>1, <1>2, <1>3a, <1>4, <2>3
    <3>2. rest \in Seq(Entry) /\ Len(rest) = N + 1 - j /\ \A q \in 1..Len(rest) : rest[q] = T(j - 1 + q)
      BY <1>3a, <2>3
    <3>3. rest # <<>>
      <4>1. Len(rest) # 0
        BY <1>2, <3>1, <3>2
      <4> QED BY <4>1
    <3>4. Tail(rest) \in Seq(Entry) /\ Len(Tail(rest)) = Len(rest) - 1 /\ \A q \in 1..Len(Tail(rest)) : Tail(rest)[q] = rest[q + 1]
      BY <3>2, <3>3, HeadTailProperties
    <3>5. todo \in Seq(Entry) /\ Len(todo) = Len(rest) - 1 /\ \A q \in 1..Len(todo) : todo[q] = rest[q + 1]
      BY <3>1, <3>4
    <3> HIDE DEF pos, todo
    <3>6. Len(todo) = N + 1 - (j + 1)
      BY <1>2, <3>1, <3>2, <3>5
    <3>7. ASSUME NEW q \in 1..Len(todo) PROVE todo[q] = T((j + 1) - 1 + q)
      <4>1. q + 1 \in 1..Len(rest) /\ j - 1 + (q + 1) = (j + 1) - 1 + q
        BY <1>2, <3>2, <3>5
      <4> QED BY <3>2, <3>5, <4>1
    <3> QED BY <3>1, <3>5, <3>6, <3>7
  <2> QED BY <2>1, <2>2, <2>3
<1>7. pos \in Cell /\ Follow(dir, pos) \in Cell
  <2> HIDE DEF pos, N
  <2>1. m \in 0..N + 1 /\ (m \in 0..N \/ m = N + 1) /\ m + 1 \in 0..N + 2 /\ 0 \in 0..N /\ 1 \in 0..N + 1 /\ 0 + 1 = 1
    BY <1>2
  <2>2. CASE m \in 0..N
    <3>1. m + 1 \in 0..N + 1
      BY <1>2, <2>2
    <3> QED BY <1>4, <1>5, <1>6, <2>1, <2>2, <3>1
  <2>3. CASE m = N + 1
    <3>1. T(m) = T(0) /\ Follow(dir, T(0)) = T(0 + 1)
      BY <1>4, <2>1, <2>3
    <3> QED BY <1>5, <1>6, <2>1, <3>1
  <2> QED BY <2>1, <2>2, <2>3
<1> HIDE DEF pos, todo, N
<1>8. loop' \in LoopType
  <2>1. <<>> \in Seq(Entry) /\ (IF safe THEN Follow(dir, pos) ELSE pos) \in Cell
    BY <1>7
  <2> QED BY <1>1, <1>6, <1>7, <2>1 DEF LoopType
<1>9. /\ loop'.head = h /\ loop'.dir = dir /\ loop'.pos = pos /\ loop'.seen = <<>> /\ loop'.todo = todo /\ loop'.safe = safe
      /\ (safe => loop'.n = Follow(dir, pos))
  BY <1>1
<1>10. LoopAt(m)'
  <2>0. lists'[h] = s /\ Len(lists'[h]) = N /\ Len(loop'.seen) = 0 /\ m \in Nat
    BY <1>1, <1>2, <1>9 DEF N
  <2>1. loop'.pos = Turn(lists'[loop'.head], loop'.head, loop'.dir, m)
    BY <1>1, <1>6, <1>9 DEF T
  <2>2. Len(loop'.todo) = Len(loop'.seen) + Len(lists'[loop'.head]) + 1 - m
    BY <1>2, <1>6, <1>9, <2>0
  <2>3. \A q \in 1..Len(loop'.seen) : loop'.seen[q] = loop'.todo[q]
    BY <2>0
  <2>4. ASSUME NEW q \in m..Len(lists'[loop'.head])
        PROVE  loop'.todo[Len(loop'.seen) + 1 + q - m] = Turn(lists'[loop'.head], loop'.head, loop'.dir, q)
    <3>1. q \in m..N /\ Len(loop'.seen) + 1 + q - m = q + 1 - m /\ q + 1 - m \in 1..Len(todo) /\ m - 1 + (q + 1 - m) = q
      BY <1>2, <1>6, <1>9, <2>0
    <3>2. todo[q + 1 - m] = T(q)
      BY <1>6, <3>1
    <3> QED BY <1>1, <1>9, <3>1, <3>2 DEF T
  <2> QED BY <2>1, <2>2, <2>3, <2>4 DEF LoopAt
<1>11. loop'.safe => loop'.n = Follow(loop.dir, loop.pos)'
  BY <1>1, <1>9 DEF Follow
<1>12. Looping'
  <2>1. m \in 1..Len(lists'[loop'.head]) + 1 /\ loop'.head \notin stale'
    BY <1>1, <1>9 DEF N
  <2> QED BY <1>8, <1>10, <1>11, <2>1 DEF Looping
<1>13. Sound(links, lists, stale)'
  BY <1>1
<1> QED BY <1>12, <1>13 DEF LInv

\* A spot of the circle, and the one it leads to.
LEMMA TurnCells ==
    ASSUME NEW L, NEW ls, NEW st, Sound(L, ls, st), NEW h \in LHead \ st, NEW dir \in {"next", "prev"},
           NEW m \in 0..Len(ls[h]) + 1, NEW x, x = Turn(ls[h], h, dir, m)
    PROVE  x \in Cell /\ (IF dir = "next" THEN L.next[x] ELSE L.prev[x]) \in Cell
<1> DEFINE N == Len(ls[h])
           T(i) == Turn(ls[h], h, dir, i)
           F(y) == IF dir = "next" THEN L.next[y] ELSE L.prev[y]
<1>1. N \in Nat
  BY DEF Sound, Shape
<1>2. T(0) = h /\ T(N + 1) = h /\ (\A i \in 1..N : T(i) \in Entry) /\ \A i \in 0..N : F(T(i)) = T(i + 1)
  BY Turning
<1> HIDE DEF T, F, N
<1>3. \A i \in 0..N + 1 : T(i) \in Cell
  <2>1. \A i \in 0..N + 1 : i = 0 \/ i = N + 1 \/ i \in 1..N
    BY <1>1
  <2> QED BY <1>2, <2>1 DEF Cell
<1>4. PICK i \in 0..N : T(m) = T(i)
  <2>1. m \in 0..N + 1
    BY DEF N
  <2>2. (m \in 0..N \/ m = N + 1) /\ 0 \in 0..N
    BY <1>1, <2>1
  <2> QED BY <1>2, <2>2
<1>5. i \in 0..N + 1 /\ i + 1 \in 0..N + 1
  BY <1>1
<1>6. T(m) \in Cell /\ F(T(m)) \in Cell
  BY <1>2, <1>3, <1>4, <1>5
<1> QED BY <1>6 DEF T, F

\* The body: a safe loop has read where to go on before the entry may leave the list.
LEMMA LoopTurns ==
    ASSUME LInv, Body
    PROVE  LInv'
<1> DEFINE h == loop.head
           dir == loop.dir
           s == lists[h]
           N == Len(s)
           e == loop.pos
           k == Len(loop.seen)
           T(i) == Turn(s, h, dir, i)
           to == IF loop.safe THEN loop.n ELSE Follow(loop.dir, e)
           after == IF loop.dir = "next" THEN links'.next ELSE links'.prev
           r == lists'[h]
           U(i) == Turn(r, h, dir, i)
<1>1. /\ loop.on /\ e # h /\ stale' = stale
      /\ loop' = [loop EXCEPT !.seen = Append(@, e), !.pos = to, !.n = IF loop.safe /\ to # Poison THEN after[to] ELSE to]
  BY DEF Body
<1>2. Sound(links, lists, stale) /\ Looping
  BY <1>1 DEF LInv, NoLoop
<1>3. /\ loop \in LoopType /\ h \in LHead \ stale /\ dir \in {"next", "prev"}
      /\ loop.seen \in Seq(Entry) /\ loop.todo \in Seq(Entry) /\ k \in Nat
  <2>1. loop \in LoopType /\ h \notin stale
    BY <1>2 DEF Looping
  <2>2. h \in LHead /\ dir \in {"next", "prev"} /\ loop.seen \in Seq(Entry) /\ loop.todo \in Seq(Entry)
    BY <2>1 DEF LoopType
  <2> QED BY <2>1, <2>2
<1>4. lists \in [LHead -> Seq(Entry)] /\ s \in Seq(Entry) /\ N \in Nat
  BY <1>2, <1>3 DEF Sound, Shape
<1>5. PICK m \in 1..N + 1 : LoopAt(m)
  BY <1>2 DEF Looping
<1>6. /\ e = T(m) /\ Len(loop.todo) = k + N + 1 - m
      /\ \A i \in 1..k : loop.seen[i] = loop.todo[i]
      /\ \A i \in m..N : loop.todo[k + 1 + i - m] = T(i)
  BY <1>5 DEF LoopAt
<1> DEFINE at_ == EntryAt(s, dir, m)
<1>7. m \in 1..N
  <2>1. T(N + 1) = h
    BY <1>2, <1>3, Turning
  <2>2. m # N + 1
    BY <1>1, <1>6, <2>1
  <2> QED BY <1>4, <2>2
<1>8. at_ \in 1..N /\ e = s[at_] /\ e \in Entry /\ e \in Linked /\ Follow(dir, e) = T(m + 1)
  <2>1. at_ \in 1..N
    BY <1>3, <1>4, <1>7 DEF EntryAt
  <2>2. T(m) \in Entry /\ T(m) = s[at_]
    BY <1>2, <1>3, <1>7, Turning DEF EntryAt
  <2>3. m \in 0..N
    BY <1>4, <1>7
  <2>4. Follow(dir, T(m)) = T(m + 1)
    BY <1>2, <1>3, <2>3, Turning DEF Follow
  <2>5. s[at_] \in Linked
    BY <1>2, <1>3, <2>1, Whereabouts
  <2> HIDE DEF at_, T, e
  <2> QED BY <1>6, <2>1, <2>2, <2>4, <2>5
<1>9. to = T(m + 1)
  BY <1>2, <1>3, <1>8 DEF Looping
<1> HIDE DEF at_
<1>10. Sound(links', lists', stale') /\ (r = s \/ r = RemoveAt(s, at_))
  <2>0. Without(e) = [lists EXCEPT ![h] = RemoveAt(s, at_)]
    <3>1. Without(lists[h][at_]) = [lists EXCEPT ![h] = RemoveAt(lists[h], at_)]
      BY <1>2, <1>3, <1>8, WithoutIs
    <3> QED BY <1>8, <3>1
  <2>1. Without(e)[h] = RemoveAt(s, at_)
    BY <1>3, <1>4, <2>0
  <2>2. CASE UNCHANGED <<links, lists>>
    BY <1>1, <1>2, <2>2
  <2>3. CASE links' = list_del(links, e) /\ lists' = Without(e)
    <3>1. Sound(list_del(links, e), Without(e), stale)
      BY <1>2, <1>8, DeletedAll
    <3> QED BY <1>1, <2>1, <2>3, <3>1
  <2>4. ASSUME NEW g \in LHead \ {h}, Known(g), links' = list_move(links, e, g), lists' = [Without(e) EXCEPT ![g] = <<e>> \o @]
        PROVE  Sound(links', lists', stale') /\ r = RemoveAt(s, at_)
    <3>1. g \in LHead \ stale
      BY <2>4 DEF Known
    <3>2. Sound(list_move(links, e, g), [Without(e) EXCEPT ![g] = <<e>> \o @], stale)
      BY <1>2, <1>8, <3>1, Moved
    <3>3. r = Without(e)[h]
      <4>1. Without(e) \in [LHead -> Seq(Entry)]
        <5>1. Free(Without(e), e) /\ Sound(__list_del(links, links.prev[e], links.next[e]), Without(e), stale)
          BY <1>2, <1>8, Taken
        <5> QED BY <5>1 DEF Sound, Shape
      <4> QED BY <1>3, <2>4, <4>1
    <3> QED BY <1>1, <2>1, <2>4, <3>2, <3>3
  <2>5. \/ UNCHANGED <<links, lists>>
        \/ links' = list_del(links, e) /\ lists' = Without(e)
        \/ \E g \in LHead \ {h} : Known(g) /\ links' = list_move(links, e, g) /\ lists' = [Without(e) EXCEPT ![g] = <<e>> \o @]
    BY DEF Body
  <2> QED BY <2>2, <2>3, <2>4, <2>5
<1>11. r \in Seq(Entry) /\ Len(r) \in Nat
  BY <1>3, <1>10 DEF Sound, Shape
<1>12. PICK M \in 1..Len(r) + 1 :
           /\ to = U(M) /\ Len(loop.todo) = k + 1 + Len(r) + 1 - M
           /\ \A i \in M..Len(r) : loop.todo[k + 2 + i - M] = U(i)
  <2>1. CASE r = s
    <3> DEFINE M == m + 1
    <3>1. M \in 1..N + 1 /\ k + N + 1 - m = k + 1 + N + 1 - M
      <4> HIDE DEF N, k
      <4> QED BY <1>3, <1>4, <1>7
    <3>2. \A i : U(i) = T(i)
      BY <2>1
    <3> HIDE DEF T, U
    <3>3. ASSUME NEW i \in M..N PROVE loop.todo[k + 2 + i - M] = U(i)
      <4>1. i \in m..N /\ k + 2 + i - M = k + 1 + i - m
        BY <1>3, <1>4, <1>7
      <4> QED BY <1>6, <3>2, <4>1
    <3>4. to = U(M) /\ Len(loop.todo) = k + 1 + N + 1 - M
      BY <1>6, <1>9, <3>1, <3>2
    <3> HIDE DEF M
    <3> QED BY <2>1, <3>1, <3>3, <3>4
  <2>2. CASE r = RemoveAt(s, at_)
    <3>1. Len(r) = N - 1 /\ \A i \in 0..N : U(i) = IF i < m THEN T(i) ELSE T(i + 1)
      <4>1. s \in Seq(Entry) /\ dir \in {"next", "prev"} /\ m \in 1..Len(s)
        BY <1>3, <1>4, <1>7
      <4>2. r = RemoveAt(s, EntryAt(s, dir, m))
        BY <2>2 DEF at_
      <4>3. Shortened(r, s, h, dir, m)
        <5> HIDE DEF s, dir, h, r
        <5> QED BY <4>1, <4>2, TurnRemoved
      <4> QED BY <4>3 DEF Shortened
    <3> HIDE DEF T, U
    <3>2. m \in 0..N /\ ~(m < m) /\ m \in 1..Len(r) + 1 /\ k + N + 1 - m = k + 1 + Len(r) + 1 - m
      <4> HIDE DEF N, k, r
      <4> QED BY <1>3, <1>4, <1>7, <3>1
    <3>3. to = U(m)
      BY <1>9, <3>1, <3>2
    <3>4. ASSUME NEW i \in m..Len(r) PROVE loop.todo[k + 2 + i - m] = U(i)
      <4>1. i + 1 \in m..N /\ k + 2 + i - m = k + 1 + (i + 1) - m /\ i \in 0..N /\ ~(i < m)
        <5> HIDE DEF N, k, r
        <5> QED BY <1>3, <1>4, <1>7, <3>1
      <4> QED BY <1>6, <3>1, <4>1
    <3> QED BY <1>6, <3>2, <3>3, <3>4
  <2> QED BY <1>10, <2>1, <2>2
<1>13. to \in Cell /\ after[to] \in Cell /\ to # Poison
  <2>1. M \in 0..Len(r) + 1 /\ h \in LHead \ stale'
    BY <1>1, <1>3, <1>11
  <2>2. to = Turn(lists'[h], h, dir, M)
    BY <1>12
  <2> HIDE DEF to, h, dir
  <2>3. to \in Cell /\ (IF dir = "next" THEN links'.next[to] ELSE links'.prev[to]) \in Cell
    BY <1>3, <1>10, <2>1, <2>2, TurnCells
  <2>4. to # Poison
    BY <2>3, ListAssumption DEF Cell, Poison
  <2> QED BY <2>3, <2>4 DEF dir
<1> DEFINE ahead == IF loop.safe THEN after[to] ELSE to
<1>14. loop' = [loop EXCEPT !.seen = Append(@, e), !.pos = to, !.n = ahead]
  BY <1>1, <1>13
<1>15. ahead \in Cell
  BY <1>13
<1> HIDE DEF to, ahead, e
<1>16. loop' \in LoopType /\ loop'.head = h /\ loop'.dir = dir /\ loop'.safe = loop.safe /\ loop'.pos = to /\ loop'.n = ahead
       /\ loop'.seen = Append(loop.seen, e) /\ loop'.todo = loop.todo
  <2>1. Append(loop.seen, e) \in Seq(Entry)
    BY <1>3, <1>8
  <2> QED BY <1>3, <1>13, <1>14, <1>15, <2>1 DEF LoopType
<1>17. Len(loop'.seen) = k + 1 /\ loop'.seen[k + 1] = e /\ \A i \in 1..k : loop'.seen[i] = loop.seen[i]
  BY <1>3, <1>8, <1>16
<1>18. loop.todo[k + 1] = e
  <2>1. m \in m..N /\ k + 1 + m - m = k + 1
    BY <1>3, <1>4, <1>7
  <2> HIDE DEF T
  <2> QED BY <1>6, <2>1
<1>19. LoopAt(M)'
  <2>1. lists'[loop'.head] = r /\ loop'.head = h /\ loop'.dir = dir
    BY <1>16
  <2>2. loop'.pos = Turn(lists'[loop'.head], loop'.head, loop'.dir, M)
    BY <1>12, <1>16
  <2>3. Len(loop'.todo) = Len(loop'.seen) + Len(lists'[loop'.head]) + 1 - M
    BY <1>12, <1>16, <1>17
  <2>4. \A i \in 1..Len(loop'.seen) : loop'.seen[i] = loop'.todo[i]
    <3>1. \A i \in 1..k + 1 : i \in 1..k \/ i = k + 1
      BY <1>3
    <3> QED BY <1>6, <1>16, <1>17, <1>18, <3>1
  <2>5. ASSUME NEW i \in M..Len(lists'[loop'.head])
        PROVE  loop'.todo[Len(loop'.seen) + 1 + i - M] = Turn(lists'[loop'.head], loop'.head, loop'.dir, i)
    <3>1. i \in M..Len(r) /\ Len(loop'.seen) + 1 + i - M = k + 2 + i - M
      BY <1>3, <1>11, <1>17, <2>1
    <3>2. loop.todo[k + 2 + i - M] = U(i)
      BY <1>12, <3>1
    <3> QED BY <1>16, <2>1, <3>1, <3>2
  <2> QED BY <2>2, <2>3, <2>4, <2>5 DEF LoopAt
<1>20. loop'.safe => loop'.n = Follow(loop.dir, loop.pos)'
  BY <1>16 DEF Follow, ahead
<1>21. M \in 1..Len(lists'[loop'.head]) + 1 /\ loop'.head \notin stale'
  BY <1>1, <1>3, <1>16
<1>22. Looping'
  BY <1>16, <1>19, <1>20, <1>21 DEF Looping
<1>23. Sound(links, lists, stale)'
  BY <1>10
<1> QED BY <1>22, <1>23 DEF LInv

LEMMA LInitially == ListInit => LInv
<1> SUFFICES ASSUME ListInit PROVE LInv
  OBVIOUS
<1>1. links \in Links
  BY DEF ListInit, Links, Cell
<1>2. lists \in [LHead -> Seq(Entry)] /\ \A h \in LHead : lists[h] = <<>> /\ Len(lists[h]) = 0
  BY DEF ListInit
<1>3. Shape(links, lists, stale)
  BY <1>1, <1>2 DEF Shape, Apart, ListInit
<1>4. ASSUME NEW h \in LHead PROVE Circle(links, lists[h], h)
  <2>1. \A i : Ring(lists[h], h, i) = h
    BY <1>2 DEF Ring
  <2>2. links.next[h] = h /\ links.prev[h] = h
    BY DEF ListInit
  <2> QED BY <1>2, <2>1, <2>2 DEF Circle
<1>5. loop = NoLoop
  BY DEF ListInit
<1> QED BY <1>3, <1>4, <1>5 DEF LInv, Sound

LEMMA LKeeps == LInv /\ [ListNext]_listVars => LInv'
<1> SUFFICES ASSUME LInv, [ListNext]_listVars PROVE LInv'
  OBVIOUS
<1>0. Sound(links, lists, stale)
  BY DEF LInv
<1>1. CASE ~loop.on /\ UNCHANGED loop /\ Call
  <2>1. Sound(links', lists', stale')
    BY <1>0, <1>1, CallSound
  <2>2. loop = NoLoop
    BY <1>1 DEF LInv, Looping, LoopType
  <2>3. Sound(links, lists, stale)' /\ loop' = NoLoop
    BY <1>1, <2>1, <2>2
  <2> QED BY <2>3 DEF LInv, NoLoop
<1>2. ASSUME NEW h \in LHead, NEW dir \in {"next", "prev"}, NEW safe \in BOOLEAN, NEW start, NEW i, list_for_each(h, dir, safe, start, i)
      PROVE  LInv'
  BY <1>0, <1>2, LoopStarts
<1>3. CASE Body
  BY <1>3, LoopTurns
<1>4. CASE LoopDone
  <2>1. Sound(links, lists, stale)' /\ loop' = NoLoop
    BY <1>0, <1>4 DEF LoopDone
  <2> QED BY <2>1 DEF LInv, NoLoop
<1>5. CASE UNCHANGED listVars
  <2>1. links' = links /\ lists' = lists /\ stale' = stale /\ loop' = loop
    BY <1>5 DEF listVars
  <2>2. Sound(links, lists, stale)'
    BY <1>0, <2>1
  <2>3. \A m : LoopAt(m) => LoopAt(m)'
    BY <2>1 DEF LoopAt
  <2>4. Looping => Looping'
    BY <2>1, <2>3 DEF Looping, Follow
  <2> QED BY <2>1, <2>2, <2>4 DEF LInv, NoLoop
<1>6. ListNext => \/ ~loop.on /\ UNCHANGED loop /\ Call
                  \/ \E h \in LHead, dir \in {"next", "prev"}, safe \in BOOLEAN, start \in {"from", "continue"},
                        i \in LHead \cup Entry : list_for_each(h, dir, safe, start, i)
                  \/ Body \/ LoopDone
  BY DEF ListNext, Idle, Call
<1> QED BY <1>1, <1>2, <1>3, <1>4, <1>5, <1>6

LEMMA LoopVisitsAll == LInv => LoopVisits
<1> SUFFICES ASSUME LInv, loop.on
             PROVE  /\ loop.pos # Poison
                    /\ loop.seen = SubSeq(loop.todo, 1, Len(loop.seen))
                    /\ loop.pos = loop.head => loop.seen = loop.todo
  BY DEF LoopVisits
<1> DEFINE h == loop.head
           s == lists[h]
           N == Len(s)
           k == Len(loop.seen)
           T(i) == Turn(s, h, loop.dir, i)
<1>1. Sound(links, lists, stale) /\ Looping
  BY DEF LInv, NoLoop
<1>2. /\ loop.pos \in Cell /\ h \in LHead \ stale /\ loop.dir \in {"next", "prev"}
      /\ loop.seen \in Seq(Entry) /\ loop.todo \in Seq(Entry) /\ k \in Nat
  BY <1>1 DEF Looping, LoopType
<1>3. N \in Nat
  BY <1>1, <1>2 DEF Sound, Shape
<1>4. PICK m \in 1..N + 1 : LoopAt(m)
  BY <1>1 DEF Looping
<1>5. /\ loop.pos = T(m) /\ Len(loop.todo) = k + N + 1 - m
      /\ \A i \in 1..k : loop.seen[i] = loop.todo[i]
  BY <1>4 DEF LoopAt
<1>6. loop.pos # Poison
  BY <1>2, ListAssumption DEF Cell, Poison
<1>7. loop.seen = SubSeq(loop.todo, 1, k)
  <2> DEFINE p == SubSeq(loop.todo, 1, k)
  <2>1. k <= Len(loop.todo) /\ Len(loop.todo) \in Nat
    <3> HIDE DEF N, k, T
    <3> QED BY <1>2, <1>3, <1>5
  <2>2. \A i \in 1..k : loop.todo[i] \in Entry
    BY <1>2, <2>1
  <2>3. p \in Seq(Entry) /\ Len(p) = (IF 1 <= k THEN k - 1 + 1 ELSE 0) /\ \A i \in 1..k - 1 + 1 : p[i] = loop.todo[1 + i - 1]
    <3> HIDE DEF k
    <3> QED BY <1>2, <2>1, <2>2, SubSeqProperties
  <2> HIDE DEF p
  <2>4. Len(p) = k /\ \A i \in 1..k : p[i] = loop.todo[i]
    BY <1>2, <2>3
  <2>5. loop.seen = p
    BY <1>2, <1>5, <2>3, <2>4, SeqEqual
  <2> QED BY <2>5 DEF p
<1>8. ASSUME loop.pos = h PROVE loop.seen = loop.todo
  <2>1. (\A i \in 1..N : T(i) \in Entry) /\ h \notin Entry
    BY <1>1, <1>2, Turning, ListAssumption
  <2> HIDE DEF T
  <2>2. m \notin 1..N
    BY <1>5, <1>8, <2>1
  <2>3. Len(loop.todo) = k
    <3> HIDE DEF N, k
    <3>1. m = N + 1
      BY <1>3, <2>2
    <3> QED BY <1>2, <1>3, <1>5, <3>1
  <2> QED BY <1>2, <1>5, <2>3, SeqEqual
<1> QED BY <1>6, <1>7, <1>8

LEMMA ListsAgreeAll == LInv => ListsAgree
<1> SUFFICES ASSUME LInv, NEW h \in LHead, Known(h)
             PROVE  LET s == <<h>> \o lists[h] \o <<h>>
                    IN  /\ \A i \in 1..Len(s) - 1 : links.next[s[i]] = s[i + 1] /\ links.prev[s[i + 1]] = s[i]
                        /\ list_empty(links, h) <=> lists[h] = <<>>
                        /\ list_empty_careful(links, h) <=> lists[h] = <<>>
                        /\ list_is_singular(links, h) <=> Len(lists[h]) = 1
                        /\ \A e \in On(h) : list_is_last(links, e, h) <=> e = Last(lists[h])
  BY DEF ListsAgree
<1> DEFINE s == lists[h]
           N == Len(s)
           c == <<h>> \o s \o <<h>>
           R(i) == Ring(s, h, i)
<1>1. Sound(links, lists, stale) /\ h \in LHead \ stale
  BY DEF LInv, Known
<1>2. lists \in [LHead -> Seq(Entry)] /\ Apart(lists) /\ s \in Seq(Entry) /\ N \in Nat
  BY <1>1 DEF Sound, Shape
<1>3. Len(c) = N + 2 /\ \A i \in 1..N + 2 : c[i] = R(i - 1)
  <2>1. s \in Seq(Cell) /\ h \in Cell
    BY <1>2 DEF Cell
  <2> DEFINE d == <<h>> \o s
             f == <<h>>
  <2>2. d \in Seq(Cell) /\ Len(d) = N + 1 /\ d[1] = h /\ \A i \in 1..N : d[i + 1] = s[i]
    BY <2>1, Prepending
  <2>3. f \in Seq(Cell) /\ Len(f) = 1 /\ f[1] = h
    BY <2>1
  <2> HIDE DEF d, f
  <2>4. Len(d \o f) = Len(d) + Len(f) /\ \A i \in 1..Len(d) + Len(f) : (d \o f)[i] = IF i <= Len(d) THEN d[i] ELSE f[i - Len(d)]
    BY <2>2, <2>3, ConcatProperties
  <2>5. c = d \o f
    BY DEF d, f
  <2> HIDE DEF c
  <2>6. Len(c) = N + 2 /\ \A i \in 1..N + 2 : c[i] = IF i <= N + 1 THEN d[i] ELSE f[i - (N + 1)]
    BY <1>2, <2>2, <2>3, <2>4, <2>5
  <2>7. R(0) = h /\ R(N + 1) = h /\ \A i \in 1..N : R(i) = s[i]
    BY <1>2, RingIs
  <2> HIDE DEF R, s, N
  <2>8. ASSUME NEW i \in 1..N + 2 PROVE c[i] = R(i - 1)
    <3>1. CASE i = 1
      <4>1. i <= N + 1 /\ i - 1 = 0
        BY <1>2, <3>1
      <4> QED BY <2>2, <2>6, <2>7, <3>1, <4>1
    <3>2. CASE i = N + 2
      <4>1. ~(i <= N + 1) /\ i - 1 = N + 1 /\ i - (N + 1) = 1
        BY <1>2, <3>2
      <4> QED BY <2>3, <2>6, <2>7, <4>1
    <3>3. CASE i # 1 /\ i # N + 2
      <4>1. i <= N + 1 /\ i - 1 \in 1..N /\ (i - 1) + 1 = i
        BY <1>2, <3>3
      <4>2. d[i] = s[i - 1]
        BY <2>2, <4>1
      <4> QED BY <2>6, <2>7, <4>1, <4>2
    <3> QED BY <3>1, <3>2, <3>3
  <2> QED BY <2>6, <2>8
<1>4. \A i \in 0..N : links.next[R(i)] = R(i + 1) /\ links.prev[R(i + 1)] = R(i)
  BY <1>1 DEF Sound, Circle
<1>5. ASSUME NEW i \in 1..Len(c) - 1 PROVE links.next[c[i]] = c[i + 1] /\ links.prev[c[i + 1]] = c[i]
  <2> HIDE DEF c, R, N
  <2>1. i - 1 \in 0..N /\ i \in 1..N + 2 /\ i + 1 \in 1..N + 2 /\ (i + 1) - 1 = (i - 1) + 1
    BY <1>2, <1>3
  <2>2. c[i] = R(i - 1) /\ c[i + 1] = R((i - 1) + 1)
    BY <1>3, <2>1
  <2> QED BY <1>4, <2>1, <2>2
<1>6. /\ list_empty(links, h) <=> lists[h] = <<>>
      /\ list_empty_careful(links, h) <=> lists[h] = <<>>
      /\ list_is_singular(links, h) <=> Len(lists[h]) = 1
  BY <1>1, Tests
<1>7. ASSUME NEW e \in On(h) PROVE list_is_last(links, e, h) <=> e = Last(lists[h])
  <2>1. PICK k \in 1..Len(lists[h]) : e = lists[h][k]
    BY <1>1, Whereabouts
  <2>2. k \in 0..N /\ k \in 1..N /\ N \in 1..N /\ N \in 0..N
    BY <1>2, <2>1
  <2>3. R(N + 1) = h /\ (\A i \in 1..N : R(i) = s[i]) /\ \A i, j \in 0..N : R(i) = R(j) => i = j
    BY <1>2, RingIs
  <2>4. \A i, j \in 0..N : R(i + 1) = R(j + 1) => i = j
    BY <1>2, RingTurns
  <2>5. e = R(k) /\ Last(lists[h]) = R(N)
    BY <2>1, <2>2, <2>3 DEF Last
  <2> HIDE DEF R, N
  <2>6. links.next[e] = R(k + 1)
    BY <1>4, <2>2, <2>5
  <2>7. links.next[e] = h <=> k = N
    BY <2>2, <2>3, <2>4, <2>6
  <2>8. e = Last(lists[h]) <=> k = N
    BY <2>2, <2>3, <2>5
  <2> QED BY <2>7, <2>8 DEF list_is_last
<1> QED BY <1>5, <1>6, <1>7

\* The doubly linked list of list/mylist.h, for any number of lists and entries: whatever
\* sequence of calls and loops a program makes, every list that may be used is one circle
\* with its entries in order, next and prev of each other, the tests say what it holds, and
\* a loop visits the entries it began with, each once and in order.
THEOREM ListsAlwaysHold == ListSpec => []ListsHold
<1>1. LInv => ListsHold
  BY LoopVisitsAll, ListsAgreeAll DEF ListsHold
<1> QED BY <1>1, LInitially, LKeeps, PTL DEF ListSpec

-------------------------------------------------------------------------------
(* The rows of sfghash.c.  The nodes of a row are in the order in which they    *)
(* were added, the last one first: with the place of each node in that order,   *)
(* what the pointers have to be is said without following them.                 *)

SfgTypes ==
    /\ table \in [0..nrows - 1 -> Key \cup {NoNode}]
    /\ DOMAIN nodes \subseteq Key /\ IsFiniteSet(DOMAIN nodes)
    /\ nodes \in [DOMAIN nodes -> [data : Data, next : Key \cup {NoNode}, prev : Key \cup {NoNode}]]
    /\ splayed = FALSE
    /\ crow \in Nat
    /\ cnode \in DOMAIN nodes \cup {NoNode, Freed}
    /\ iter \in [on : BOOLEAN, from : SUBSET Key, seen : Seq(Key)]

\* The nodes of the row of j.
Mates(j) == {k \in DOMAIN nodes : hash_fcn[k] = hash_fcn[j]}

\* age[k] is the time at which node k was added, clock the time now.
Aged(age, clock) ==
    /\ clock \in Nat /\ age \in [DOMAIN nodes -> Nat]
    /\ \A k \in DOMAIN nodes : age[k] < clock
    /\ \A j, k \in DOMAIN nodes : age[j] = age[k] => j = k
Headed(age) ==
    \A r \in 0..nrows - 1 :
        IF table[r] = NoNode THEN \A k \in DOMAIN nodes : hash_fcn[k] # r
        ELSE /\ table[r] \in DOMAIN nodes /\ hash_fcn[table[r]] = r
             /\ \A k \in DOMAIN nodes : hash_fcn[k] = r => age[k] <= age[table[r]]
Forward(age) ==
    \A j \in DOMAIN nodes :
        IF nodes[j].next = NoNode THEN \A k \in Mates(j) : age[j] <= age[k]
        ELSE /\ nodes[j].next \in Mates(j) /\ age[nodes[j].next] < age[j]
             /\ \A k \in Mates(j) : age[k] < age[j] => age[k] <= age[nodes[j].next]
Backward(age) ==
    \A j \in DOMAIN nodes :
        IF nodes[j].prev = NoNode THEN \A k \in Mates(j) : age[k] <= age[j]
        ELSE /\ nodes[j].prev \in Mates(j) /\ age[j] < age[nodes[j].prev]
             /\ \A k \in Mates(j) : age[j] < age[k] => age[nodes[j].prev] <= age[k]
Rows(age, clock) == Aged(age, clock) /\ Headed(age) /\ Forward(age) /\ Backward(age)

\* What the table is to hold.
Held ==
    /\ DOMAIN map = DOMAIN nodes
    /\ \A k \in DOMAIN nodes : nodes[k].data = map[k]
    /\ count = Cardinality(DOMAIN nodes)

\* The nodes that an iteration has still to return.
Pending(age) ==
    IF cnode = NoNode THEN {}
    ELSE {k \in DOMAIN nodes : hash_fcn[k] > crow \/ (hash_fcn[k] = crow /\ age[k] <= age[cnode])}
Going(age) ==
    iter.on =>
        /\ cnode # Freed /\ (cnode # NoNode => hash_fcn[cnode] = crow)
        /\ IsInjective(iter.seen) /\ Range(iter.seen) \subseteq iter.from
        /\ iter.from \ Range(iter.seen) = Pending(age)

\* The invariant, until movetofront() has moved a node.
SfgInv ==
    \/ splayed = TRUE /\ iter = NoIter
    \/ SfgTypes /\ Held /\ \E age, clock : Rows(age, clock) /\ Going(age)

LEMMA SfgConst ==
    /\ nrows \in Nat /\ nrows >= 1
    /\ NoNode \notin Key /\ Freed \notin Key /\ NoNode # Freed
    /\ \A k \in Key : hash_fcn[k] \in 0..nrows - 1 /\ hash_fcn[k] \in Nat /\ hash_fcn[k] < nrows
<1>1. NoNode # Freed
  BY DEF NoNode, Freed
<1> QED BY <1>1, SfgAssumption DEF NoNode, Freed

\* The walk along a row ends: its function is defined.
LEMMA ChainDefined ==
    ASSUME SfgTypes, NEW age, NEW clock, Rows(age, clock)
    PROVE  Chain = [i \in Key \cup {NoNode} |->
                      IF i \notin DOMAIN nodes THEN <<>> ELSE <<i>> \o Chain[nodes[i].next]]
<1> DEFINE S == Key \cup {NoNode}
           Fits(g, n) == /\ g = [i \in S |-> g[i]]
                         /\ \A i \in S : i \notin DOMAIN nodes => g[i] = <<>>
                         /\ \A i \in DOMAIN nodes : age[i] < n => g[i] = <<i>> \o g[nodes[i].next]
           Bad == {n \in Nat : ~\E g : Fits(g, n)}
<1>1. DOMAIN nodes \subseteq Key /\ age \in [DOMAIN nodes -> Nat] /\ clock \in Nat
  BY DEF SfgTypes, Rows, Aged
<1>2. \A j \in DOMAIN nodes : /\ nodes[j].next \in S
                              /\ nodes[j].next \in DOMAIN nodes => age[nodes[j].next] < age[j]
  BY <1>1, SfgConst DEF Rows, Forward, Mates
<1>3. Bad = {}
  <2> SUFFICES ASSUME Bad # {} PROVE FALSE
    OBVIOUS
  <2>1. PICK m \in Bad : \A n \in Bad : m <= n
    <3>1. Bad \in SUBSET Nat
      OBVIOUS
    <3> HIDE DEF Bad
    <3> QED BY <3>1, LeastOf
  <2>2. m # 0
    <3> DEFINE e == [i \in S |-> <<>>]
    <3>1. Fits(e, 0)
      BY <1>1
    <3> QED BY <3>1
  <2>3. m \in Nat /\ m - 1 \in Nat /\ m - 1 \notin Bad
    <3>1. m \in Nat
      BY <2>1
    <3> HIDE DEF Bad
    <3> QED BY <2>1, <2>2, <3>1
  <2>4. PICK g : Fits(g, m - 1)
    BY <2>3
  <2> DEFINE h == [i \in S |-> IF i \in DOMAIN nodes /\ age[i] = m - 1 THEN <<i>> \o g[nodes[i].next] ELSE g[i]]
  <2>5. h = [i \in S |-> h[i]] /\ \A i \in S : i \notin DOMAIN nodes => h[i] = <<>>
    BY <2>4
  <2>6. ASSUME NEW i \in DOMAIN nodes, age[i] < m PROVE h[i] = <<i>> \o h[nodes[i].next]
    <3>1. h[nodes[i].next] = g[nodes[i].next]
      <4>1. nodes[i].next \in S
        BY <1>2
      <4>2. ~(nodes[i].next \in DOMAIN nodes /\ age[nodes[i].next] = m - 1)
        BY <1>1, <1>2, <2>3, <2>6
      <4> QED BY <4>1, <4>2
    <3>2. h[i] = <<i>> \o g[nodes[i].next]
      <4>1. CASE age[i] = m - 1
        BY <1>1, <4>1
      <4>2. CASE age[i] # m - 1
        <5>1. age[i] < m - 1
          BY <1>1, <2>3, <2>6, <4>2
        <5>2. g[i] = <<i>> \o g[nodes[i].next]
          BY <2>4, <5>1
        <5>3. h[i] = g[i]
          BY <1>1, <4>2
        <5> QED BY <5>2, <5>3
      <4> QED BY <4>1, <4>2
    <3> QED BY <3>1, <3>2
  <2> HIDE DEF h
  <2>7. Fits(h, m)
    BY <2>5, <2>6
  <2> QED BY <2>1, <2>7
<1>4. PICK g : Fits(g, clock)
  BY <1>1, <1>3
<1>5. \A i \in S : g[i] = IF i \notin DOMAIN nodes THEN <<>> ELSE <<i>> \o g[nodes[i].next]
  <2>1. \A i \in DOMAIN nodes : age[i] < clock
    BY DEF Rows, Aged
  <2> QED BY <1>4, <2>1
<1>6. g = [i \in S |-> IF i \notin DOMAIN nodes THEN <<>> ELSE <<i>> \o g[nodes[i].next]]
  <2>1. g = [i \in S |-> g[i]]
    BY <1>4
  <2> HIDE DEF Fits
  <2> QED BY <1>5, <2>1
<1> QED BY <1>6 DEF Chain

\* From node j on, a row has the nodes that were added before it.
LEMMA ChainIs ==
    ASSUME SfgTypes, NEW age, NEW clock, Rows(age, clock), NEW j \in DOMAIN nodes
    PROVE  Chain[j] \in Seq(Key) /\ Range(Chain[j]) = {k \in Mates(j) : age[k] <= age[j]}
<1> DEFINE Good(i) == Chain[i] \in Seq(Key) /\ Range(Chain[i]) = {k \in Mates(i) : age[k] <= age[i]}
           Bad == {age[i] : i \in {i \in DOMAIN nodes : ~Good(i)}}
<1>1. DOMAIN nodes \subseteq Key /\ age \in [DOMAIN nodes -> Nat]
  BY DEF SfgTypes, Rows, Aged
<1>2. \A i \in Key \cup {NoNode} :
        Chain[i] = IF i \notin DOMAIN nodes THEN <<>> ELSE <<i>> \o Chain[nodes[i].next]
  <2> DEFINE F(g, i) == IF i \notin DOMAIN nodes THEN <<>> ELSE <<i>> \o g[nodes[i].next]
  <2>1. Chain = [i \in Key \cup {NoNode} |-> F(Chain, i)]
    BY ChainDefined
  <2> HIDE DEF F
  <2>2. \A i \in Key \cup {NoNode} : Chain[i] = F(Chain, i)
    BY <2>1
  <2> QED BY <2>2 DEF F
<1>3. Bad = {}
  <2> SUFFICES ASSUME Bad # {} PROVE FALSE
    OBVIOUS
  <2>1. PICK m \in Bad : \A n \in Bad : m <= n
    <3>1. Bad \in SUBSET Nat
      BY <1>1
    <3> HIDE DEF Bad
    <3> QED BY <3>1, LeastOf
  <2>2. PICK i \in DOMAIN nodes : ~Good(i) /\ m = age[i]
    BY <2>1
  <2>3. \A l \in DOMAIN nodes : age[l] < age[i] => Good(l)
    <3> HIDE DEF Good
    <3> SUFFICES ASSUME NEW l \in DOMAIN nodes, age[l] < age[i], ~Good(l) PROVE FALSE
      OBVIOUS
    <3>1. age[l] \in Bad
      OBVIOUS
    <3> HIDE DEF Bad
    <3>2. age[i] <= age[l] /\ age[i] \in Nat /\ age[l] \in Nat
      BY <1>1, <2>1, <2>2, <3>1
    <3> QED BY <3>2
  <2> HIDE DEF Good
  <2> DEFINE x == nodes[i].next
  <2>4. Chain[i] = <<i>> \o Chain[x] /\ i \in Key
    BY <1>1, <1>2
  <2>5. Chain[x] \in Seq(Key) /\ Range(Chain[x]) = {k \in Mates(i) : age[k] < age[i]}
    <3>1. CASE x = NoNode
      <4>1. Chain[x] = <<>>
        BY <1>1, <1>2, <3>1, SfgConst
      <4>2. {k \in Mates(i) : age[k] < age[i]} = {}
        BY <1>1, <3>1 DEF Rows, Forward, Mates
      <4>3. <<>> \in Seq(Key) /\ Range(<<>>) = {}
        BY DEF Range
      <4> QED BY <4>1, <4>2, <4>3
    <3>2. CASE x # NoNode
      <4>1. x \in Mates(i) /\ age[x] < age[i] /\ \A k \in Mates(i) : age[k] < age[i] => age[k] <= age[x]
        BY <3>2 DEF Rows, Forward
      <4>2. Good(x) /\ Mates(x) = Mates(i)
        BY <2>3, <4>1 DEF Mates
      <4>3. {k \in Mates(i) : age[k] < age[i]} = {k \in Mates(i) : age[k] <= age[x]}
        <5>1. \A k \in Mates(i) : age[k] \in Nat
          BY <1>1 DEF Mates
        <5>2. age[x] \in Nat /\ age[i] \in Nat
          BY <1>1, <4>1 DEF Mates
        <5> HIDE DEF x
        <5> QED BY <4>1, <5>1, <5>2
      <4> QED BY <4>2, <4>3 DEF Good
    <3> QED BY <3>1, <3>2
  <2> HIDE DEF x
  <2> DEFINE s == Chain[x]
  <2>6. <<i>> \o s \in Seq(Key) /\ Range(<<i>> \o s) = {i} \cup Range(s)
    <3>1. s \in Seq(Key) /\ i \in Key
      BY <2>4, <2>5
    <3> HIDE DEF s
    <3>2. \A t \in Seq(Key) : Range(<<i>> \o t) = {i} \cup Range(t)
      <4> SUFFICES ASSUME NEW t \in Seq(Key) PROVE Range(<<i>> \o t) = {i} \cup Range(t)
        OBVIOUS
      <4> DEFINE u == <<i>> \o t
      <4>1. u \in Seq(Key) /\ Len(u) = Len(t) + 1 /\ u[1] = i /\ \A n \in 1..Len(t) : u[n + 1] = t[n]
        BY <3>1
      <4>2. DOMAIN u = 1..Len(t) + 1 /\ DOMAIN t = 1..Len(t) /\ Len(t) \in Nat
        BY <4>1
      <4> HIDE DEF u
      <4>3. Range(u) \subseteq {i} \cup Range(t)
        <5> SUFFICES ASSUME NEW n \in 1..Len(t) + 1 PROVE u[n] \in {i} \cup Range(t)
          BY <4>2 DEF Range
        <5>1. CASE n = 1
          BY <4>1, <5>1
        <5>2. CASE n # 1
          <6>1. n - 1 \in 1..Len(t) /\ n - 1 + 1 = n
            BY <4>2, <5>2
          <6>2. u[n] = t[n - 1]
            BY <4>1, <6>1
          <6> QED BY <4>2, <6>1, <6>2 DEF Range
        <5> QED BY <5>1, <5>2
      <4>4. {i} \cup Range(t) \subseteq Range(u)
        <5>1. i \in Range(u)
          BY <4>1, <4>2 DEF Range
        <5>2. ASSUME NEW n \in 1..Len(t) PROVE t[n] \in Range(u)
          <6>1. n + 1 \in DOMAIN u /\ u[n + 1] = t[n]
            BY <4>1, <4>2
          <6> QED BY <6>1 DEF Range
        <5> QED BY <4>2, <5>1, <5>2 DEF Range
      <4> QED BY <4>3, <4>4 DEF u
    <3> QED BY <3>1, <3>2
  <2>7. {k \in Mates(i) : age[k] <= age[i]} = {i} \cup {k \in Mates(i) : age[k] < age[i]}
    <3>1. \A k \in Mates(i) : age[k] = age[i] => k = i
      BY DEF Rows, Aged, Mates
    <3>2. i \in Mates(i) /\ age[i] \in Nat /\ \A k \in Mates(i) : age[k] \in Nat
      BY <1>1 DEF Mates
    <3> QED BY <3>1, <3>2
  <2>8. Good(i)
    BY <2>4, <2>5, <2>6, <2>7 DEF Good
  <2> QED BY <2>2, <2>8
<1> QED BY <1>3

\* A row has the nodes whose key belongs to it, and a search finds what has a node.
LEMMA RowIs ==
    ASSUME SfgTypes, NEW age, NEW clock, Rows(age, clock), NEW r \in 0..nrows - 1
    PROVE  Range(Chain[table[r]]) = {k \in DOMAIN nodes : hash_fcn[k] = r}
<1>1. DOMAIN nodes \subseteq Key
  BY DEF SfgTypes
<1>2. CASE table[r] = NoNode
  <2> DEFINE F(g, i) == IF i \notin DOMAIN nodes THEN <<>> ELSE <<i>> \o g[nodes[i].next]
  <2>1. Chain = [i \in Key \cup {NoNode} |-> F(Chain, i)]
    BY ChainDefined
  <2> HIDE DEF F
  <2>2. Chain[NoNode] = F(Chain, NoNode)
    BY <2>1
  <2>3. Chain[NoNode] = <<>>
    BY <1>1, <2>2, SfgConst DEF F
  <2>4. Range(<<>>) = {}
    BY DEF Range
  <2>5. {k \in DOMAIN nodes : hash_fcn[k] = r} = {}
    BY <1>2 DEF Rows, Headed
  <2> QED BY <1>2, <2>3, <2>4, <2>5
<1>3. CASE table[r] # NoNode
  <2>1. /\ table[r] \in DOMAIN nodes /\ hash_fcn[table[r]] = r
        /\ \A k \in DOMAIN nodes : hash_fcn[k] = r => age[k] <= age[table[r]]
    BY <1>3 DEF Rows, Headed
  <2>2. Range(Chain[table[r]]) = {k \in Mates(table[r]) : age[k] <= age[table[r]]}
    BY <2>1, ChainIs
  <2> QED BY <2>1, <2>2 DEF Mates
<1> QED BY <1>2, <1>3

LEMMA LookupIs ==
    ASSUME SfgTypes, NEW age, NEW clock, Rows(age, clock), NEW k \in Key
    PROVE  Lookup(k) = (IF k \in DOMAIN nodes THEN k ELSE NoNode)
<1>1. hash_fcn[k] \in 0..nrows - 1
  BY SfgConst
<1>2. k \in Range(Chain[table[hash_fcn[k]]]) <=> k \in DOMAIN nodes
  BY <1>1, RowIs
<1> QED BY <1>2 DEF Lookup

\* sfghash_delete() comes to every node.
LEMMA AllRows ==
    ASSUME SfgTypes, NEW age, NEW clock, Rows(age, clock)
    PROVE  UNION {Range(Chain[table[r]]) : r \in DOMAIN table} = DOMAIN nodes
<1>1. DOMAIN table = 0..nrows - 1 /\ DOMAIN nodes \subseteq Key
  BY DEF SfgTypes
<1>2. \A r \in 0..nrows - 1 : Range(Chain[table[r]]) = {k \in DOMAIN nodes : hash_fcn[k] = r}
  BY RowIs
<1>3. \A k \in DOMAIN nodes : hash_fcn[k] \in 0..nrows - 1
  BY <1>1, SfgConst
<1> DEFINE U == UNION {Range(Chain[table[r]]) : r \in DOMAIN table}
<1>4. \A k : k \in U <=> \E r \in 0..nrows - 1 : k \in Range(Chain[table[r]])
  BY <1>1
<1> HIDE DEF U
<1>5. \A k : k \in U <=> k \in DOMAIN nodes
  BY <1>2, <1>3, <1>4
<1>6. U = DOMAIN nodes
  BY <1>5
<1> QED BY <1>6 DEF U

\* The invariant says what the table promises.
LEMMA SfgHolds == SfgInv => HoldsKeys
<1>1. CASE splayed = TRUE /\ iter = NoIter
  BY <1>1 DEF HoldsKeys, MapsKeys, VisitsAll, NoIter
<1>2. ASSUME SfgTypes, Held, NEW age, NEW clock, Rows(age, clock), Going(age) PROVE HoldsKeys
  <2>1. DOMAIN nodes \subseteq Key /\ DOMAIN table = 0..nrows - 1
    BY <1>2 DEF SfgTypes
  <2>2. \A k \in Key : IF k \in DOMAIN map THEN Lookup(k) # NoNode /\ nodes[Lookup(k)].data = map[k]
                       ELSE Lookup(k) = NoNode
    <3>1. \A k \in Key : Lookup(k) = (IF k \in DOMAIN nodes THEN k ELSE NoNode)
      BY <1>2, LookupIs
    <3> QED BY <1>2, <3>1, SfgConst DEF Held
  <2>3. DOMAIN nodes = UNION {Range(Chain[table[r]]) : r \in DOMAIN table}
    BY <1>2, AllRows
  <2>4. {table[r] : r \in DOMAIN table} \subseteq DOMAIN nodes \cup {NoNode}
    BY <1>2, <2>1 DEF Rows, Headed
  <2>5. ASSUME NEW i \in DOMAIN nodes PROVE {nodes[i].next, nodes[i].prev} \subseteq DOMAIN nodes \cup {NoNode}
    <3>1. nodes[i].next = NoNode \/ nodes[i].next \in Mates(i)
      BY <1>2 DEF Rows, Forward
    <3>2. nodes[i].prev = NoNode \/ nodes[i].prev \in Mates(i)
      BY <1>2 DEF Rows, Backward
    <3> QED BY <3>1, <3>2 DEF Mates
  <2>6. Maps
    BY <1>2, <2>2, <2>3, <2>4, <2>5 DEF Maps, Held
  <2>7. VisitsAll
    BY <1>2 DEF VisitsAll, Going, Pending
  <2> QED BY <2>6, <2>7 DEF HoldsKeys, MapsKeys
<1> QED BY <1>1, <1>2 DEF SfgInv

LEMMA SfgInitially == SfgInit => SfgInv
<1> SUFFICES ASSUME SfgInit PROVE SfgInv
  OBVIOUS
<1> DEFINE age == [k \in {} |-> 0]
<1>1. DOMAIN nodes = {} /\ DOMAIN map = {} /\ \A r \in 0..nrows - 1 : table[r] = NoNode
  BY DEF SfgInit
<1>2. SfgTypes
  <2>1. iter \in [on : BOOLEAN, from : SUBSET Key, seen : Seq(Key)]
    BY DEF SfgInit, NoIter
  <2>2. nodes \in [DOMAIN nodes -> [data : Data, next : Key \cup {NoNode}, prev : Key \cup {NoNode}]]
    BY <1>1 DEF SfgInit
  <2> QED BY <1>1, <2>1, <2>2, FS_EmptySet DEF SfgInit, SfgTypes
<1>3. Held
  BY <1>1, FS_EmptySet DEF SfgInit, Held
<1>4. Rows(age, 0) /\ Going(age)
  BY <1>1 DEF SfgInit, Rows, Aged, Headed, Forward, Backward, Going, NoIter
<1> QED BY <1>2, <1>3, <1>4 DEF SfgInv

\* A step that leaves the nodes alone.
LEMMA SfgKeeps ==
    ASSUME SfgTypes, Held, NEW age, NEW clock, Rows(age, clock),
           UNCHANGED <<table, nodes, count, map, splayed>>,
           crow' \in Nat, cnode' \in DOMAIN nodes \cup {NoNode, Freed},
           iter' \in [on : BOOLEAN, from : SUBSET Key, seen : Seq(Key)], Going(age)'
    PROVE  SfgInv'
<1>1. SfgTypes'
  BY DEF SfgTypes
<1>2. Held'
  BY DEF Held
<1>3. Rows(age, clock)'
  BY DEF Rows, Aged, Headed, Forward, Backward, Mates
<1> QED BY <1>1, <1>2, <1>3 DEF SfgInv

LEMMA NoIterIs == NoIter \in [on : BOOLEAN, from : SUBSET Key, seen : Seq(Key)] /\ NoIter.on = FALSE
BY DEF NoIter

LEMMA KeepSplaymode ==
    ASSUME SfgTypes, Held, NEW age, NEW clock, Rows(age, clock), Going(age), NEW n, sfghash_splaymode(n)
    PROVE  SfgInv'
<1>1. UNCHANGED <<table, nodes, count, crow, cnode, map, splayed, iter>>
  BY DEF sfghash_splaymode
<1>2. Going(age)'
  BY <1>1 DEF Going, Pending
<1>3. crow' \in Nat /\ cnode' \in DOMAIN nodes \cup {NoNode, Freed}
      /\ iter' \in [on : BOOLEAN, from : SUBSET Key, seen : Seq(Key)]
  BY <1>1 DEF SfgTypes
<1> QED BY <1>1, <1>2, <1>3, SfgKeeps

LEMMA KeepAddPresent ==
    ASSUME SfgTypes, Held, NEW age, NEW clock, Rows(age, clock), NEW k \in Key, AddPresent(k)
    PROVE  SfgInv'
<1>1. Lookup(k) = k /\ k \in DOMAIN nodes
  BY LookupIs DEF AddPresent
<1>2. UNCHANGED <<table, nodes, count, map, splayed>> /\ crow' = crow /\ cnode' = k /\ iter' = NoIter
  BY <1>1 DEF AddPresent
<1>3. Going(age)'
  BY <1>2, NoIterIs DEF Going
<1>4. crow' \in Nat
  BY <1>2 DEF SfgTypes
<1> QED BY <1>1, <1>2, <1>3, <1>4, NoIterIs, SfgKeeps

LEMMA KeepFind ==
    ASSUME SfgTypes, Held, NEW age, NEW clock, Rows(age, clock), NEW k \in Key, sfghash_find_node(k)
    PROVE  SfgInv'
<1>1. UNCHANGED <<table, count, crow, cnode, map>> /\ iter' = NoIter
  BY DEF sfghash_find_node
<1>2. CASE UNCHANGED <<nodes, splayed>>
  <2>1. Going(age)'
    BY <1>1, NoIterIs DEF Going
  <2>2. crow' \in Nat /\ cnode' \in DOMAIN nodes \cup {NoNode, Freed}
    BY <1>1 DEF SfgTypes
  <2> QED BY <1>1, <1>2, <2>1, <2>2, NoIterIs, SfgKeeps
<1>3. CASE splayed' = TRUE
  BY <1>1, <1>3 DEF SfgInv
<1> QED BY <1>2, <1>3 DEF sfghash_find_node, movetofront

LEMMA KeepEnds ==
    ASSUME SfgTypes, Held, NEW age, NEW clock, Rows(age, clock), FindnextEnds
    PROVE  SfgInv'
<1>1. UNCHANGED <<table, nodes, count, crow, cnode, map, splayed>> /\ iter' = NoIter
  BY DEF FindnextEnds
<1>2. Going(age)'
  BY <1>1, NoIterIs DEF Going
<1>3. crow' \in Nat /\ cnode' \in DOMAIN nodes \cup {NoNode, Freed}
  BY <1>1 DEF SfgTypes
<1> QED BY <1>1, <1>2, <1>3, NoIterIs, SfgKeeps

\* Every node is freed: a table that is deleted leaves no memory behind.
LEMMA KeepDelete ==
    ASSUME SfgTypes, Held, NEW age, NEW clock, Rows(age, clock), sfghash_delete
    PROVE  SfgInv'
<1> DEFINE none == [k \in {} |-> 0]
<1>1. DOMAIN nodes' = {}
  <2> DEFINE linked == UNION {Range(Chain[table[r]]) : r \in DOMAIN table}
  <2>1. linked = DOMAIN nodes
    BY AllRows
  <2>2. nodes' = [j \in DOMAIN nodes \ linked |-> nodes[j]]
    BY DEF sfghash_delete
  <2> HIDE DEF linked
  <2> QED BY <2>1, <2>2
<1>2. nodes' \in [DOMAIN nodes' -> [data : Data, next : Key \cup {NoNode}, prev : Key \cup {NoNode}]]
  <2> DEFINE linked == UNION {Range(Chain[table[r]]) : r \in DOMAIN table}
  <2>1. nodes' = [j \in DOMAIN nodes \ linked |-> nodes[j]]
    BY DEF sfghash_delete
  <2> HIDE DEF linked
  <2>2. nodes' = [j \in DOMAIN nodes' |-> nodes'[j]]
    BY <2>1
  <2> QED BY <1>1, <2>2
<1>3. /\ \A r \in 0..nrows - 1 : table'[r] = NoNode
      /\ table' \in [0..nrows - 1 -> Key \cup {NoNode}]
      /\ count' = 0 /\ crow' = 0 /\ cnode' = NoNode /\ splayed' = FALSE /\ iter' = NoIter
      /\ DOMAIN map' = {}
  BY DEF sfghash_delete
<1>4. SfgTypes'
  BY <1>1, <1>2, <1>3, NoIterIs, FS_EmptySet DEF SfgTypes
<1>5. Held'
  BY <1>1, <1>3, FS_EmptySet DEF Held
<1>6. Rows(none, 0)' /\ Going(none)'
  BY <1>1, <1>3, NoIterIs DEF Rows, Aged, Headed, Forward, Backward, Going
<1> QED BY <1>4, <1>5, <1>6 DEF SfgInv

\* The nodes of the rows from q on: the first of them is where an iteration begins.
LEMMA FirstFromIs ==
    ASSUME SfgTypes, NEW age, NEW clock, Rows(age, clock), NEW q \in Nat, NEW f, f = FirstFrom(q)
    PROVE  /\ f.row \in Nat /\ f.node \in DOMAIN nodes \cup {NoNode}
           /\ f.node # NoNode => hash_fcn[f.node] = f.row
           /\ {m \in DOMAIN nodes : hash_fcn[m] >= q} =
                IF f.node = NoNode THEN {}
                ELSE {m \in DOMAIN nodes : hash_fcn[m] > f.row \/ (hash_fcn[m] = f.row /\ age[m] <= age[f.node])}
<1> DEFINE R == {c \in q..nrows - 1 : table[c] # NoNode}
<1>1. DOMAIN nodes \subseteq Key /\ nrows \in Nat
  BY SfgConst DEF SfgTypes
<1>2. \A m \in DOMAIN nodes : hash_fcn[m] \in 0..nrows - 1 /\ hash_fcn[m] \in Nat /\ table[hash_fcn[m]] # NoNode
  <2>1. \A m \in DOMAIN nodes : hash_fcn[m] \in 0..nrows - 1 /\ hash_fcn[m] \in Nat
    BY <1>1, SfgConst
  <2> QED BY <2>1 DEF Rows, Headed
<1>3. CASE R = {}
  <2>1. f = [row |-> nrows, node |-> NoNode]
    BY <1>3 DEF FirstFrom
  <2>2. {m \in DOMAIN nodes : hash_fcn[m] >= q} = {}
    BY <1>1, <1>2, <1>3
  <2> QED BY <1>1, <2>1, <2>2
<1>4. CASE R # {}
  <2> DEFINE c == CHOOSE c \in R : \A p \in R : c <= p
  <2>1. f = [row |-> c, node |-> table[c]]
    BY <1>4 DEF FirstFrom
  <2>2. R \in SUBSET Nat
    BY <1>1
  <2>3. c \in R /\ \A p \in R : c <= p
    <3> HIDE DEF R
    <3>1. \E m \in R : \A p \in R : m <= p
      BY <1>4, <2>2, LeastOf
    <3> QED BY <3>1
  <2> HIDE DEF c
  <2>4. c \in 0..nrows - 1 /\ c \in Nat /\ c >= q /\ table[c] # NoNode
    BY <1>1, <2>3
  <2>5. /\ table[c] \in DOMAIN nodes /\ hash_fcn[table[c]] = c
        /\ \A k \in DOMAIN nodes : hash_fcn[k] = c => age[k] <= age[table[c]]
    BY <2>4 DEF Rows, Headed
  <2>6. \A m \in DOMAIN nodes : hash_fcn[m] >= q <=> (hash_fcn[m] > c \/ hash_fcn[m] = c)
    <3> SUFFICES ASSUME NEW m \in DOMAIN nodes PROVE hash_fcn[m] >= q <=> (hash_fcn[m] > c \/ hash_fcn[m] = c)
      OBVIOUS
    <3>1. hash_fcn[m] >= q => hash_fcn[m] \in R
      BY <1>1, <1>2
    <3> HIDE DEF R
    <3> QED BY <1>2, <2>3, <2>4, <3>1
  <2> QED BY <2>1, <2>4, <2>5, <2>6
<1> QED BY <1>3, <1>4

\* sfghash_next() goes to the first of the nodes that come after node j.
LEMMA SfgNextIs ==
    ASSUME SfgTypes, NEW age, NEW clock, Rows(age, clock), NEW j \in DOMAIN nodes,
           NEW n, n = sfghash_next(hash_fcn[j], j)
    PROVE  /\ n.row \in Nat /\ n.node \in DOMAIN nodes \cup {NoNode}
           /\ n.node # NoNode => hash_fcn[n.node] = n.row
           /\ {m \in DOMAIN nodes : hash_fcn[m] > hash_fcn[j] \/ (hash_fcn[m] = hash_fcn[j] /\ age[m] < age[j])} =
                IF n.node = NoNode THEN {}
                ELSE {m \in DOMAIN nodes : hash_fcn[m] > n.row \/ (hash_fcn[m] = n.row /\ age[m] <= age[n.node])}
<1>1. DOMAIN nodes \subseteq Key /\ age \in [DOMAIN nodes -> Nat]
  BY DEF SfgTypes, Rows, Aged
<1>2. \A m \in DOMAIN nodes : hash_fcn[m] \in Nat
  BY <1>1, SfgConst
<1> DEFINE r == hash_fcn[j]
           x == nodes[j].next
<1>3. CASE x # NoNode
  <2>1. n = [row |-> r, node |-> x]
    BY <1>3 DEF sfghash_next
  <2>2. x \in Mates(j) /\ age[x] < age[j] /\ \A k \in Mates(j) : age[k] < age[j] => age[k] <= age[x]
    BY <1>3 DEF Rows, Forward
  <2>3. x \in DOMAIN nodes /\ hash_fcn[x] = r
    BY <2>2 DEF Mates
  <2>4. \A m \in DOMAIN nodes : hash_fcn[m] = r => (age[m] < age[j] <=> age[m] <= age[x])
    <3> SUFFICES ASSUME NEW m \in DOMAIN nodes, hash_fcn[m] = r PROVE age[m] < age[j] <=> age[m] <= age[x]
      OBVIOUS
    <3>1. m \in Mates(j)
      BY DEF Mates
    <3>2. age[m] \in Nat /\ age[j] \in Nat /\ age[x] \in Nat
      BY <1>1, <2>3
    <3> QED BY <2>2, <3>1, <3>2
  <2> HIDE DEF x, r
  <2>5. n.row = r /\ n.node = x /\ r \in Nat
    BY <1>2, <2>1 DEF r
  <2> QED BY <1>3, <2>3, <2>4, <2>5 DEF r
<1>4. CASE x = NoNode
  <2>1. n = FirstFrom(r + 1)
    BY <1>4 DEF sfghash_next
  <2>2. \A m \in DOMAIN nodes : hash_fcn[m] = r => ~(age[m] < age[j])
    <3> SUFFICES ASSUME NEW m \in DOMAIN nodes, hash_fcn[m] = r PROVE ~(age[m] < age[j])
      OBVIOUS
    <3>1. age[j] <= age[m]
      BY <1>4 DEF Rows, Forward, Mates
    <3> QED BY <1>1, <3>1
  <2>3. \A m \in DOMAIN nodes : hash_fcn[m] > r <=> hash_fcn[m] >= r + 1
    BY <1>2
  <2>4. {m \in DOMAIN nodes : hash_fcn[m] > r \/ (hash_fcn[m] = r /\ age[m] < age[j])}
          = {m \in DOMAIN nodes : hash_fcn[m] >= r + 1}
    <3> HIDE DEF r
    <3> QED BY <2>2, <2>3
  <2>5. r + 1 \in Nat
    BY <1>2
  <2> HIDE DEF r, x
  <2>6. /\ n.row \in Nat /\ n.node \in DOMAIN nodes \cup {NoNode}
        /\ n.node # NoNode => hash_fcn[n.node] = n.row
        /\ {m \in DOMAIN nodes : hash_fcn[m] >= r + 1} =
                IF n.node = NoNode THEN {}
                ELSE {m \in DOMAIN nodes : hash_fcn[m] > n.row \/ (hash_fcn[m] = n.row /\ age[m] <= age[n.node])}
    BY <2>1, <2>5, FirstFromIs
  <2> QED BY <2>4, <2>6 DEF r
<1> QED BY <1>3, <1>4

\* The first node is returned, and all others are to come.
LEMMA KeepFindfirst ==
    ASSUME SfgTypes, Held, NEW age, NEW clock, Rows(age, clock), sfghash_findfirst
    PROVE  SfgInv'
<1> DEFINE f == FirstFrom(0)
           D == DOMAIN nodes
<1>1. D \subseteq Key /\ (\A m \in D : hash_fcn[m] \in Nat) /\ D = DOMAIN map /\ age \in [D -> Nat]
  BY SfgConst DEF SfgTypes, Held, Rows, Aged
<1>2. /\ f.row \in Nat /\ f.node \in D \cup {NoNode}
      /\ f.node # NoNode => hash_fcn[f.node] = f.row
      /\ {m \in D : hash_fcn[m] >= 0} =
           IF f.node = NoNode THEN {}
           ELSE {m \in D : hash_fcn[m] > f.row \/ (hash_fcn[m] = f.row /\ age[m] <= age[f.node])}
  <2>1. 0 \in Nat
    OBVIOUS
  <2> QED BY <2>1, FirstFromIs
<1>3. {m \in D : hash_fcn[m] >= 0} = D
  BY <1>1
<1>4. /\ IF f.node = NoNode THEN crow' = f.row /\ cnode' = NoNode ELSE Returns(f.row, f.node)
      /\ iter' = [on |-> TRUE, from |-> D, seen |-> IF f.node = NoNode THEN <<>> ELSE <<f.node>>]
      /\ UNCHANGED <<table, nodes, count, splay, map, splayed>>
  BY <1>1 DEF sfghash_findfirst
<1> HIDE DEF f
<1>5. CASE f.node = NoNode
  <2>1. crow' \in Nat /\ cnode' = NoNode /\ D = {} /\ iter' = [on |-> TRUE, from |-> {}, seen |-> <<>>]
    BY <1>2, <1>3, <1>4, <1>5
  <2>2. iter' \in [on : BOOLEAN, from : SUBSET Key, seen : Seq(Key)]
    BY <2>1
  <2>3. Going(age)'
    BY <2>1, SfgConst DEF Going, Pending, Range, IsInjective
  <2> QED BY <1>4, <2>1, <2>2, <2>3, SfgKeeps
<1>6. CASE f.node # NoNode
  <2> DEFINE j == f.node
             n == sfghash_next(f.row, j)
  <2>1. j \in D /\ hash_fcn[j] = f.row
    BY <1>2, <1>6
  <2>2. crow' = n.row /\ cnode' = n.node /\ iter' = [on |-> TRUE, from |-> D, seen |-> <<j>>]
    BY <1>4, <1>6 DEF Returns
  <2> HIDE DEF n
  <2>3. /\ n.row \in Nat /\ n.node \in D \cup {NoNode}
        /\ n.node # NoNode => hash_fcn[n.node] = n.row
        /\ {m \in D : hash_fcn[m] > hash_fcn[j] \/ (hash_fcn[m] = hash_fcn[j] /\ age[m] < age[j])} =
             IF n.node = NoNode THEN {}
             ELSE {m \in D : hash_fcn[m] > n.row \/ (hash_fcn[m] = n.row /\ age[m] <= age[n.node])}
    BY <2>1, SfgNextIs DEF n
  <2>4. {m \in D : hash_fcn[m] > hash_fcn[j] \/ (hash_fcn[m] = hash_fcn[j] /\ age[m] < age[j])} = D \ {j}
    <3> HIDE DEF j
    <3>1. \A m \in D : hash_fcn[m] > f.row \/ (hash_fcn[m] = f.row /\ age[m] <= age[j])
      BY <1>2, <1>3, <1>6 DEF j
    <3>2. \A m \in D : age[m] = age[j] => m = j
      BY <2>1 DEF Rows, Aged
    <3>3. \A m \in D : age[m] \in Nat
      BY <1>1
    <3> QED BY <1>1, <2>1, <3>1, <3>2, <3>3
  <2> HIDE DEF j
  <2>5. iter' \in [on : BOOLEAN, from : SUBSET Key, seen : Seq(Key)]
    BY <1>1, <2>1, <2>2
  <2>6. iter.seen' = <<j>> /\ iter.from' = D /\ iter.on'
    BY <2>2
  <2>7. Range(<<j>>) = {j} /\ IsInjective(<<j>>)
    BY DEF Range, IsInjective
  <2>8. Pending(age)' = D \ {j}
    BY <1>4, <2>2, <2>3, <2>4 DEF Pending
  <2>9. Going(age)'
    BY <1>1, <2>1, <2>2, <2>3, <2>6, <2>7, <2>8, SfgConst DEF Going
  <2> QED BY <1>4, <2>2, <2>3, <2>5, <2>9, SfgKeeps
<1> QED BY <1>5, <1>6

\* The node at the cursor is returned; it is none that was returned before.
LEMMA KeepFindnext ==
    ASSUME SfgTypes, Held, NEW age, NEW clock, Rows(age, clock), Going(age), sfghash_findnext
    PROVE  SfgInv'
<1> DEFINE D == DOMAIN nodes
           n == sfghash_next(crow, cnode)
<1>1. D \subseteq Key /\ (\A m \in D : hash_fcn[m] \in Nat) /\ age \in [D -> Nat]
  BY SfgConst DEF SfgTypes, Rows, Aged
<1>2. cnode \in D /\ cnode # NoNode /\ crow' = n.row /\ cnode' = n.node
      /\ UNCHANGED <<table, nodes, count, splay, map, splayed>>
  BY DEF sfghash_findnext, Returns, SfgTypes
<1>3. iter' = IF iter.on THEN [iter EXCEPT !.seen = Append(@, cnode)] ELSE iter
  BY DEF sfghash_findnext
<1>4. iter \in [on : BOOLEAN, from : SUBSET Key, seen : Seq(Key)]
  BY DEF SfgTypes
<1>5. CASE ~iter.on
  <2>1. n.row \in Nat /\ n.node \in D \cup {NoNode}
    <3>1. CASE nodes[cnode].next # NoNode
      <4>1. nodes[cnode].next \in D
        BY <1>2, <3>1 DEF Rows, Forward, Mates
      <4>2. n = [row |-> crow, node |-> nodes[cnode].next]
        BY <3>1 DEF sfghash_next
      <4>3. crow \in Nat
        BY DEF SfgTypes
      <4> QED BY <4>1, <4>2, <4>3
    <3>2. CASE nodes[cnode].next = NoNode
      <4>1. n = FirstFrom(crow + 1)
        BY <3>2 DEF sfghash_next
      <4>2. crow + 1 \in Nat
        BY DEF SfgTypes
      <4> HIDE DEF n
      <4> QED BY <4>1, <4>2, FirstFromIs
    <3> QED BY <3>1, <3>2
  <2> HIDE DEF n
  <2>2. iter' = iter
    BY <1>3, <1>5
  <2>3. Going(age)'
    BY <1>5, <2>2 DEF Going
  <2> QED BY <1>2, <1>4, <2>1, <2>2, <2>3, SfgKeeps
<1>6. CASE iter.on
  <2> DEFINE j == cnode
  <2>1. hash_fcn[j] = crow /\ IsInjective(iter.seen) /\ Range(iter.seen) \subseteq iter.from
        /\ iter.from \ Range(iter.seen) = Pending(age)
    BY <1>2, <1>6 DEF Going
  <2>2. /\ n.row \in Nat /\ n.node \in D \cup {NoNode}
        /\ n.node # NoNode => hash_fcn[n.node] = n.row
        /\ {m \in D : hash_fcn[m] > hash_fcn[j] \/ (hash_fcn[m] = hash_fcn[j] /\ age[m] < age[j])} =
             IF n.node = NoNode THEN {}
             ELSE {m \in D : hash_fcn[m] > n.row \/ (hash_fcn[m] = n.row /\ age[m] <= age[n.node])}
    <3>1. n = sfghash_next(hash_fcn[j], j)
      BY <2>1
    <3> HIDE DEF n
    <3> QED BY <1>2, <3>1, SfgNextIs
  <2> HIDE DEF n
  <2>3. Pending(age) = {m \in D : hash_fcn[m] > crow \/ (hash_fcn[m] = crow /\ age[m] <= age[j])}
    BY <1>2 DEF Pending
  <2>4. Pending(age)' = {m \in D : hash_fcn[m] > crow \/ (hash_fcn[m] = crow /\ age[m] < age[j])}
    BY <1>2, <2>1, <2>2 DEF Pending
  <2>5. j \in Pending(age) /\ Pending(age)' = Pending(age) \ {j}
    <3>1. j \in D /\ \A m \in D : age[m] = age[j] => m = j
      BY <1>2 DEF Rows, Aged
    <3>2. \A m \in D : age[m] \in Nat
      BY <1>1
    <3> HIDE DEF j
    <3> DEFINE P == Pending(age)
               Q == Pending(age)'
    <3>3. P = {m \in D : hash_fcn[m] > crow \/ (hash_fcn[m] = crow /\ age[m] <= age[j])}
      BY <2>3
    <3>4. Q = {m \in D : hash_fcn[m] > crow \/ (hash_fcn[m] = crow /\ age[m] < age[j])}
      BY <2>4
    <3> HIDE DEF P, Q
    <3>5. crow \in Nat
      BY DEF SfgTypes
    <3>6. j \in P
      BY <2>1, <3>1, <3>2, <3>3
    <3>7. \A m \in D : m # j => (age[m] < age[j] <=> age[m] <= age[j])
      BY <3>1, <3>2
    <3>8. j \notin Q
      BY <2>1, <3>1, <3>2, <3>4, <3>5
    <3>9. Q = P \ {j}
      BY <3>3, <3>4, <3>7, <3>8
    <3> QED BY <3>6, <3>9 DEF P, Q
  <2> DEFINE s == iter.seen
             t == Append(s, j)
  <2>6. s \in Seq(Key) /\ j \in Key /\ j \notin Range(s) /\ j \in iter.from
    BY <1>1, <1>2, <1>4, <2>1, <2>5
  <2>7. iter.seen' = t /\ iter.from' = iter.from /\ iter.on' = iter.on
    BY <1>3, <1>4, <1>6
  <2>8. t \in Seq(Key) /\ Range(t) = Range(s) \cup {j} /\ IsInjective(t)
    <3> HIDE DEF s, j
    <3>1. t \in Seq(Key) /\ DOMAIN t = 1..Len(s) + 1 /\ DOMAIN s = 1..Len(s) /\ Len(s) \in Nat
          /\ t[Len(s) + 1] = j /\ \A i \in 1..Len(s) : t[i] = s[i]
      BY <2>6
    <3>2. \A i \in 1..Len(s) : s[i] # j
      BY <2>6, <3>1 DEF Range
    <3>3. \A a, b \in 1..Len(s) : s[a] = s[b] => a = b
      BY <2>1, <3>1 DEF IsInjective, s
    <3> HIDE DEF t
    <3>4. 1..Len(s) + 1 = 1..Len(s) \cup {Len(s) + 1}
      BY <3>1
    <3>5. IsInjective(t)
      BY <3>1, <3>2, <3>3, <3>4 DEF IsInjective
    <3>6. Range(t) = Range(s) \cup {j}
      BY <3>1, <3>4 DEF Range
    <3> QED BY <3>1, <3>5, <3>6
  <2>9. iter' \in [on : BOOLEAN, from : SUBSET Key, seen : Seq(Key)]
    BY <1>3, <1>4, <1>6, <2>8
  <2>10. Going(age)'
    <3>1. iter.from' \ Range(iter.seen)' = Pending(age)'
      <4> HIDE DEF t, s
      <4>1. Range(iter.seen)' = Range(iter.seen) \cup {j}
        BY <2>7, <2>8 DEF s
      <4> QED BY <2>1, <2>5, <2>7, <4>1
    <3>2. IsInjective(iter.seen)' /\ (Range(iter.seen) \subseteq iter.from)'
      <4> HIDE DEF t
      <4> QED BY <2>1, <2>6, <2>7, <2>8
    <3>3. cnode' # Freed /\ (cnode' # NoNode => hash_fcn[cnode'] = crow')
      BY <1>1, <1>2, <2>2, SfgConst
    <3> QED BY <3>1, <3>2, <3>3 DEF Going
  <2> QED BY <1>2, <2>2, <2>9, <2>10, SfgKeeps
<1> QED BY <1>5, <1>6

\* A new node is the youngest of its row.
LEMMA KeepAdd ==
    ASSUME SfgTypes, Held, NEW age, NEW clock, Rows(age, clock), NEW k \in Key, NEW d \in Data, AddNew(k, d)
    PROVE  SfgInv'
<1> DEFINE D == DOMAIN nodes
           r == hash_fcn[k]
           h == table[r]
<1>1. /\ D \subseteq Key /\ IsFiniteSet(D) /\ k \notin D /\ k # NoNode /\ NoNode \notin D
      /\ r \in 0..nrows - 1 /\ h \in Key \cup {NoNode}
  BY LookupIs, SfgConst DEF AddNew, SfgTypes
<1>2. /\ clock \in Nat /\ age \in [D -> Nat]
      /\ (\A j \in D : age[j] < clock) /\ \A i, j \in D : age[i] = age[j] => i = j
  BY DEF Rows, Aged
<1>3. nodes' = [j \in D \cup {k} |-> IF j = k THEN [data |-> d, next |-> h, prev |-> NoNode]
                                     ELSE IF j = h THEN [nodes[j] EXCEPT !.prev = k] ELSE nodes[j]]
  BY DEF AddNew
<1>4. /\ DOMAIN nodes' = D \cup {k}
      /\ nodes' \in [D \cup {k} -> [data : Data, next : Key \cup {NoNode}, prev : Key \cup {NoNode}]]
      /\ nodes'[k] = [data |-> d, next |-> h, prev |-> NoNode]
      /\ \A j \in D : /\ nodes'[j].data = nodes[j].data /\ nodes'[j].next = nodes[j].next
                      /\ nodes'[j].prev = IF j = h THEN k ELSE nodes[j].prev
  <2>1. \A j \in D : nodes[j] \in [data : Data, next : Key \cup {NoNode}, prev : Key \cup {NoNode}]
    BY DEF SfgTypes
  <2> HIDE DEF h, D
  <2> QED BY <1>1, <1>3, <2>1
<1>5. table' = [table EXCEPT ![r] = k] /\ table' \in [0..nrows - 1 -> Key \cup {NoNode}]
      /\ table'[r] = k /\ \A q \in 0..nrows - 1 : q # r => table'[q] = table[q]
  BY <1>1 DEF AddNew, SfgTypes
<1>6. PICK a : /\ a \in [D \cup {k} -> Nat] /\ a[k] = clock
               /\ \A j \in D : a[j] = age[j] /\ a[j] \in Nat /\ a[j] < clock
  <2> DEFINE b == [j \in D \cup {k} |-> IF j = k THEN clock ELSE age[j]]
  <2>1. b \in [D \cup {k} -> Nat] /\ b[k] = clock /\ \A j \in D : b[j] = age[j] /\ b[j] \in Nat /\ b[j] < clock
    BY <1>1, <1>2
  <2> QED BY <2>1
<1> HIDE DEF D, h
<1>7. UNCHANGED <<crow, cnode, splayed>> /\ iter' = NoIter /\ count' = count + 1
      /\ map' = [j \in DOMAIN map \cup {k} |-> IF j = k THEN d ELSE map[j]]
  BY DEF AddNew
<1>8. SfgTypes'
  <2>1. IsFiniteSet(D \cup {k})
    BY <1>1, FS_AddElement
  <2>2. crow \in Nat /\ cnode \in D \cup {NoNode, Freed} /\ splayed = FALSE
    BY DEF SfgTypes, D
  <2> QED BY <1>1, <1>4, <1>5, <1>7, <2>1, <2>2, NoIterIs DEF SfgTypes
<1>9. Held'
  <2>1. DOMAIN map = D /\ (\A j \in D : nodes[j].data = map[j]) /\ count = Cardinality(D)
    BY DEF Held, D
  <2>2. Cardinality(D \cup {k}) = Cardinality(D) + 1
    BY <1>1, FS_AddElement
  <2>3. \A j \in D \cup {k} : nodes'[j].data = map'[j]
    BY <1>1, <1>4, <1>7, <2>1
  <2> QED BY <1>4, <1>7, <2>1, <2>2, <2>3 DEF Held
<1>10. /\ h = NoNode => \A j \in D : hash_fcn[j] # r
       /\ h # NoNode => h \in D /\ hash_fcn[h] = r /\ \A j \in D : hash_fcn[j] = r => age[j] <= age[h]
  BY <1>1 DEF Rows, Headed, D, h
<1>11. Aged(a, clock + 1)'
  <2>1. \A j \in D \cup {k} : a[j] < clock + 1
    BY <1>2, <1>6
  <2>2. \A i, j \in D \cup {k} : a[i] = a[j] => i = j
    BY <1>2, <1>6
  <2> QED BY <1>2, <1>4, <1>6, <2>1, <2>2 DEF Aged
<1>12. Headed(a)'
  <2> SUFFICES ASSUME NEW q \in 0..nrows - 1
               PROVE  IF table'[q] = NoNode THEN \A j \in D \cup {k} : hash_fcn[j] # q
                      ELSE /\ table'[q] \in D \cup {k} /\ hash_fcn[table'[q]] = q
                           /\ \A j \in D \cup {k} : hash_fcn[j] = q => a[j] <= a[table'[q]]
    BY <1>4 DEF Headed
  <2>1. CASE q = r
    BY <1>1, <1>2, <1>5, <1>6, <2>1
  <2>2. CASE q # r
    <3>1. IF table[q] = NoNode THEN \A j \in D : hash_fcn[j] # q
          ELSE /\ table[q] \in D /\ hash_fcn[table[q]] = q
               /\ \A j \in D : hash_fcn[j] = q => age[j] <= age[table[q]]
      BY DEF Rows, Headed, D
    <3> QED BY <1>5, <1>6, <2>2, <3>1
  <2> QED BY <2>1, <2>2
<1>13. Forward(a)'
  <2> DEFINE M(j) == {i \in D \cup {k} : hash_fcn[i] = hash_fcn[j]}
  <2> SUFFICES ASSUME NEW j \in D \cup {k}
               PROVE  IF nodes'[j].next = NoNode THEN \A i \in M(j) : a[j] <= a[i]
                      ELSE /\ nodes'[j].next \in M(j) /\ a[nodes'[j].next] < a[j]
                           /\ \A i \in M(j) : a[i] < a[j] => a[i] <= a[nodes'[j].next]
    BY <1>4 DEF Forward, Mates
  <2>1. CASE j = k
    <3>1. nodes'[j].next = h
      BY <1>4, <2>1
    <3>2. CASE h = NoNode
      BY <1>2, <1>6, <1>10, <2>1, <3>1, <3>2
    <3>3. CASE h # NoNode
      <4>1. h \in M(j) /\ a[h] < a[j]
        BY <1>6, <1>10, <2>1, <3>3
      <4>2. ASSUME NEW i \in M(j), a[i] < a[j] PROVE a[i] <= a[h]
        <5>1. i \in D /\ hash_fcn[i] = r
          BY <1>2, <1>6, <2>1, <4>2
        <5> QED BY <1>6, <1>10, <3>3, <5>1
      <4> QED BY <3>1, <3>3, <4>1, <4>2
    <3> QED BY <3>2, <3>3
  <2>2. CASE j \in D
    <3> DEFINE x == nodes[j].next
    <3>1. nodes'[j].next = x
      BY <1>4, <2>2
    <3>2. IF x = NoNode THEN \A i \in Mates(j) : age[j] <= age[i]
          ELSE /\ x \in Mates(j) /\ age[x] < age[j]
               /\ \A i \in Mates(j) : age[i] < age[j] => age[i] <= age[x]
      BY <2>2 DEF Rows, Forward, D
    <3> HIDE DEF x
    <3>3. \A i \in M(j) : i = k \/ (i \in Mates(j) /\ a[i] = age[i])
      BY <1>6 DEF Mates, D
    <3>4. \A i \in Mates(j) : i \in M(j) /\ a[i] = age[i] /\ a[i] \in Nat
      BY <1>6 DEF Mates, D
    <3>5. a[j] = age[j] /\ a[j] \in Nat /\ a[j] < clock /\ a[k] = clock
      BY <1>6, <2>2
    <3> HIDE DEF M
    <3>6. CASE x = NoNode
      BY <1>2, <3>1, <3>2, <3>3, <3>4, <3>5, <3>6
    <3>7. CASE x # NoNode
      BY <1>2, <3>1, <3>2, <3>3, <3>4, <3>5, <3>7
    <3> QED BY <3>6, <3>7
  <2> QED BY <2>1, <2>2
<1>14. Backward(a)'
  <2> DEFINE M(j) == {i \in D \cup {k} : hash_fcn[i] = hash_fcn[j]}
  <2> SUFFICES ASSUME NEW j \in D \cup {k}
               PROVE  IF nodes'[j].prev = NoNode THEN \A i \in M(j) : a[i] <= a[j]
                      ELSE /\ nodes'[j].prev \in M(j) /\ a[j] < a[nodes'[j].prev]
                           /\ \A i \in M(j) : a[j] < a[i] => a[nodes'[j].prev] <= a[i]
    BY <1>4 DEF Backward, Mates
  <2>1. CASE j = k
    BY <1>2, <1>4, <1>6, <2>1
  <2>2. CASE j \in D
    <3> DEFINE x == nodes[j].prev
    <3>2. IF x = NoNode THEN \A i \in Mates(j) : age[i] <= age[j]
          ELSE /\ x \in Mates(j) /\ age[j] < age[x]
               /\ \A i \in Mates(j) : age[j] < age[i] => age[x] <= age[i]
      BY <2>2 DEF Rows, Backward, D
    <3>3. \A i \in M(j) : (i = k /\ hash_fcn[j] = r) \/ (i \in Mates(j) /\ a[i] = age[i])
      BY <1>6 DEF Mates, D
    <3>4. \A i \in Mates(j) : i \in M(j) /\ a[i] = age[i] /\ a[i] \in Nat /\ a[i] < clock
      BY <1>6 DEF Mates, D
    <3>5. a[j] = age[j] /\ a[j] \in Nat /\ a[j] < clock /\ a[k] = clock
      BY <1>6, <2>2
    <3>6. CASE j = h
      <4>1. nodes'[j].prev = k /\ k # NoNode
        BY <1>1, <1>4, <2>2, <3>6
      <4>2. k \in M(j) /\ hash_fcn[j] = r
        BY <1>1, <1>10, <2>2, <3>6
      <4>3. \A i \in M(j) : a[j] < a[i] => i = k
        <5> SUFFICES ASSUME NEW i \in M(j), i # k PROVE a[i] <= a[j]
          BY <1>6, <3>5
        <5>1. i \in D /\ hash_fcn[i] = r
          BY <4>2
        <5> QED BY <1>1, <1>6, <1>10, <2>2, <3>6, <5>1
      <4> QED BY <1>2, <3>5, <4>1, <4>2, <4>3
    <3>7. CASE j # h
      <4>1. nodes'[j].prev = x
        BY <1>4, <2>2, <3>7
      <4>2. CASE x = NoNode
        <5>1. hash_fcn[j] # r
          <6> SUFFICES ASSUME hash_fcn[j] = r PROVE FALSE
            OBVIOUS
          <6>1. h \in D /\ hash_fcn[h] = r /\ age[j] <= age[h]
            BY <1>10, <2>2
          <6>2. age[h] <= age[j]
            BY <3>2, <4>2, <6>1 DEF Mates, D
          <6> QED BY <1>2, <2>2, <3>7, <6>1, <6>2
        <5> HIDE DEF M, x
        <5> QED BY <3>2, <3>3, <3>5, <4>1, <4>2, <5>1
      <4>3. CASE x # NoNode
        <5>1. a[x] <= clock /\ a[x] \in Nat
          BY <1>2, <3>2, <3>4, <4>3
        <5> HIDE DEF M, x
        <5> QED BY <3>2, <3>3, <3>4, <3>5, <4>1, <4>3, <5>1
      <4> QED BY <4>2, <4>3
    <3> QED BY <3>6, <3>7
  <2> QED BY <2>1, <2>2
<1>15. Going(a)'
  BY <1>7, NoIterIs DEF Going
<1>16. Rows(a, clock + 1)'
  BY <1>11, <1>12, <1>13, <1>14 DEF Rows
<1> QED BY <1>8, <1>9, <1>15, <1>16 DEF SfgInv

\* A node is taken out of its row: those on both sides of it become neighbours.
LEMMA KeepRemove ==
    ASSUME SfgTypes, Held, NEW age, NEW clock, Rows(age, clock), Going(age), NEW k \in Key, sfghash_remove(k)
    PROVE  SfgInv'
<1> DEFINE D == DOMAIN nodes
           r == hash_fcn[k]
           p == nodes[k].prev
           x == nodes[k].next
           E == D \ {k}
           Node == [data : Data, next : Key \cup {NoNode}, prev : Key \cup {NoNode}]
<1>1. Lookup(k) = k /\ k \in D
  BY LookupIs DEF sfghash_remove
<1>2. /\ D \subseteq Key /\ IsFiniteSet(D) /\ k # NoNode /\ NoNode \notin D /\ Freed \notin D
      /\ r \in 0..nrows - 1 /\ (\A j \in D : nodes[j] \in Node) /\ p \in Key \cup {NoNode} /\ x \in Key \cup {NoNode}
  BY <1>1, SfgConst DEF SfgTypes
<1>3. /\ clock \in Nat /\ age \in [D -> Nat] /\ (\A j \in D : age[j] \in Nat)
      /\ (\A j \in D : age[j] < clock) /\ \A i, j \in D : age[i] = age[j] => i = j
  BY DEF Rows, Aged
<1>4. \A j \in D :
        /\ nodes[j].next = NoNode => \A i \in D : hash_fcn[i] = hash_fcn[j] => age[j] <= age[i]
        /\ nodes[j].next # NoNode => /\ nodes[j].next \in D /\ hash_fcn[nodes[j].next] = hash_fcn[j]
                                     /\ age[nodes[j].next] < age[j]
                                     /\ \A i \in D : hash_fcn[i] = hash_fcn[j] /\ age[i] < age[j] => age[i] <= age[nodes[j].next]
  BY DEF Rows, Forward, Mates
<1>5. \A j \in D :
        /\ nodes[j].prev = NoNode => \A i \in D : hash_fcn[i] = hash_fcn[j] => age[i] <= age[j]
        /\ nodes[j].prev # NoNode => /\ nodes[j].prev \in D /\ hash_fcn[nodes[j].prev] = hash_fcn[j]
                                     /\ age[j] < age[nodes[j].prev]
                                     /\ \A i \in D : hash_fcn[i] = hash_fcn[j] /\ age[j] < age[i] => age[nodes[j].prev] <= age[i]
  BY DEF Rows, Backward, Mates
<1>6. \A q \in 0..nrows - 1 :
        /\ table[q] = NoNode => \A j \in D : hash_fcn[j] # q
        /\ table[q] # NoNode => /\ table[q] \in D /\ hash_fcn[table[q]] = q
                                /\ \A j \in D : hash_fcn[j] = q => age[j] <= age[table[q]]
  BY DEF Rows, Headed
<1>7. p = NoNode <=> table[r] = k
  <2>1. table[r] # NoNode /\ table[r] \in D /\ hash_fcn[table[r]] = r /\ age[k] <= age[table[r]]
    BY <1>1, <1>2, <1>6
  <2>2. ASSUME p = NoNode PROVE table[r] = k
    <3>1. age[table[r]] <= age[k]
      BY <1>1, <1>5, <2>1, <2>2
    <3> QED BY <1>1, <1>3, <2>1, <3>1
  <2>3. ASSUME p # NoNode, table[r] = k PROVE FALSE
    <3>1. p \in D /\ hash_fcn[p] = r /\ age[k] < age[p]
      BY <1>1, <1>5, <2>3
    <3>2. age[p] <= age[k]
      BY <1>2, <1>6, <2>1, <2>3, <3>1
    <3> QED BY <1>1, <1>3, <3>1, <3>2
  <2> QED BY <2>2, <2>3
<1>8. /\ DOMAIN nodes' = E /\ nodes' \in [E -> Node]
      /\ \A j \in E : /\ nodes'[j].data = nodes[j].data
                      /\ nodes'[j].next = IF j = p THEN x ELSE nodes[j].next
                      /\ nodes'[j].prev = IF j = x THEN p ELSE nodes[j].prev
  <2>1. CASE p # NoNode
    <3>1. nodes' = [j \in E |-> Unlink(k)[j]]
      BY <1>1, <2>1 DEF sfghash_remove
    <3>2. \A j \in E : Unlink(k)[j] = [nodes[j] EXCEPT !.next = IF j = p THEN x ELSE @, !.prev = IF j = x THEN p ELSE @]
      BY DEF Unlink
    <3>3. \A j \in E : /\ Unlink(k)[j] \in Node
                       /\ Unlink(k)[j].data = nodes[j].data
                       /\ Unlink(k)[j].next = IF j = p THEN x ELSE nodes[j].next
                       /\ Unlink(k)[j].prev = IF j = x THEN p ELSE nodes[j].prev
      <4> HIDE DEF p, x
      <4> SUFFICES ASSUME NEW j \in E
                   PROVE  /\ Unlink(k)[j] \in Node
                          /\ Unlink(k)[j].data = nodes[j].data
                          /\ Unlink(k)[j].next = IF j = p THEN x ELSE nodes[j].next
                          /\ Unlink(k)[j].prev = IF j = x THEN p ELSE nodes[j].prev
        OBVIOUS
      <4> DEFINE u == IF j = p THEN x ELSE nodes[j].next
                 v == IF j = x THEN p ELSE nodes[j].prev
      <4>1. nodes[j] \in Node /\ u \in Key \cup {NoNode} /\ v \in Key \cup {NoNode}
        BY <1>2
      <4>2. Unlink(k)[j] = [nodes[j] EXCEPT !.next = u, !.prev = v]
        BY <3>2
      <4> HIDE DEF u, v
      <4>3. /\ Unlink(k)[j] \in Node /\ Unlink(k)[j].data = nodes[j].data
            /\ Unlink(k)[j].next = u /\ Unlink(k)[j].prev = v
        BY <4>1, <4>2
      <4> QED BY <4>3 DEF u, v
    <3> HIDE DEF p, x, E, Node
    <3> QED BY <3>1, <3>3
  <2>2. CASE p = NoNode
    <3>1. nodes' = [j \in E |-> FirstOff(r)[j]]
      BY <1>1, <2>2 DEF sfghash_remove
    <3>2. \A j \in E : FirstOff(r)[j] = IF j = x THEN [nodes[j] EXCEPT !.prev = NoNode] ELSE nodes[j]
      BY <1>7, <2>2 DEF FirstOff
    <3>3. \A j \in E : /\ FirstOff(r)[j] \in Node
                       /\ FirstOff(r)[j].data = nodes[j].data
                       /\ FirstOff(r)[j].next = IF j = p THEN x ELSE nodes[j].next
                       /\ FirstOff(r)[j].prev = IF j = x THEN p ELSE nodes[j].prev
      <4> HIDE DEF p, x
      <4> SUFFICES ASSUME NEW j \in E
                   PROVE  /\ FirstOff(r)[j] \in Node
                          /\ FirstOff(r)[j].data = nodes[j].data
                          /\ FirstOff(r)[j].next = IF j = p THEN x ELSE nodes[j].next
                          /\ FirstOff(r)[j].prev = IF j = x THEN p ELSE nodes[j].prev
        OBVIOUS
      <4>1. nodes[j] \in Node /\ j # p
        BY <1>2, <2>2
      <4>2. CASE j = x
        <5>1. FirstOff(r)[j] = [nodes[j] EXCEPT !.prev = NoNode]
          BY <3>2, <4>2
        <5>2. /\ FirstOff(r)[j] \in Node /\ FirstOff(r)[j].data = nodes[j].data
              /\ FirstOff(r)[j].next = nodes[j].next /\ FirstOff(r)[j].prev = NoNode
          BY <4>1, <5>1
        <5> QED BY <2>2, <4>1, <4>2, <5>2
      <4>3. CASE j # x
        <5>1. FirstOff(r)[j] = nodes[j]
          BY <3>2, <4>3
        <5> QED BY <4>1, <4>3, <5>1
      <4> QED BY <4>2, <4>3
    <3> HIDE DEF p, x, E, Node
    <3> QED BY <3>1, <3>3
  <2> QED BY <2>1, <2>2
<1>9. /\ table' \in [0..nrows - 1 -> Key \cup {NoNode}]
      /\ table'[r] = IF p = NoNode THEN x ELSE table[r]
      /\ \A q \in 0..nrows - 1 : q # r => table'[q] = table[q]
  <2>1. table' = IF p # NoNode THEN table ELSE [table EXCEPT ![r] = nodes[table[r]].next]
    BY <1>1 DEF sfghash_remove
  <2>2. table \in [0..nrows - 1 -> Key \cup {NoNode}]
    BY DEF SfgTypes
  <2>3. p = NoNode => nodes[table[r]].next = x
    BY <1>7
  <2> HIDE DEF p, x
  <2> QED BY <1>2, <2>1, <2>2, <2>3
<1>10. PICK a : a \in [E -> Nat] /\ \A j \in E : a[j] = age[j]
  <2> DEFINE b == [j \in E |-> age[j]]
  <2>1. b \in [E -> Nat] /\ \A j \in E : b[j] = age[j]
    BY <1>3
  <2> QED BY <2>1
<1>11. /\ count' = count - 1 /\ map' = [j \in DOMAIN map \ {k} |-> map[j]]
       /\ iter' = IF k \in Range(iter.seen) THEN iter ELSE NoIter
       /\ cnode' = IF cnode = k THEN Freed ELSE cnode
       /\ UNCHANGED <<crow, splayed>>
  BY <1>1 DEF sfghash_remove
<1>12. SfgTypes'
  <2>1. IsFiniteSet(E)
    BY <1>2, FS_Subset
  <2>2. crow \in Nat /\ cnode \in D \cup {NoNode, Freed} /\ splayed = FALSE
        /\ iter \in [on : BOOLEAN, from : SUBSET Key, seen : Seq(Key)]
    BY DEF SfgTypes
  <2>3. iter' \in [on : BOOLEAN, from : SUBSET Key, seen : Seq(Key)]
    BY <1>11, <2>2, NoIterIs
  <2> QED BY <1>2, <1>8, <1>9, <1>11, <2>1, <2>2, <2>3 DEF SfgTypes
<1>13. Held'
  <2>1. DOMAIN map = D /\ (\A j \in D : nodes[j].data = map[j]) /\ count = Cardinality(D)
    BY DEF Held
  <2>2. Cardinality(E) = Cardinality(D) - 1
    BY <1>1, <1>2, FS_RemoveElement
  <2>3. \A j \in E : nodes'[j].data = map'[j]
    BY <1>8, <1>11, <2>1
  <2> QED BY <1>8, <1>11, <2>1, <2>2, <2>3 DEF Held
<1> HIDE DEF D, p, x
<1>14. Aged(a, clock)'
  BY <1>3, <1>8, <1>10 DEF Aged
<1>15. /\ x = NoNode => \A i \in D : hash_fcn[i] = r => age[k] <= age[i]
       /\ x # NoNode => /\ x \in D /\ hash_fcn[x] = r /\ age[x] < age[k]
                        /\ \A i \in D : hash_fcn[i] = r /\ age[i] < age[k] => age[i] <= age[x]
  BY <1>1, <1>4 DEF x
<1>16. /\ p = NoNode => \A i \in D : hash_fcn[i] = r => age[i] <= age[k]
       /\ p # NoNode => /\ p \in D /\ hash_fcn[p] = r /\ age[k] < age[p]
                        /\ \A i \in D : hash_fcn[i] = r /\ age[k] < age[i] => age[p] <= age[i]
  BY <1>1, <1>5 DEF p
<1>17. age[k] \in Nat /\ (x # NoNode => x \in E /\ age[x] \in Nat) /\ (p # NoNode => p \in E /\ age[p] \in Nat)
  BY <1>1, <1>3, <1>15, <1>16
<1>18. Headed(a)'
  <2> SUFFICES ASSUME NEW q \in 0..nrows - 1
               PROVE  IF table'[q] = NoNode THEN \A j \in E : hash_fcn[j] # q
                      ELSE /\ table'[q] \in E /\ hash_fcn[table'[q]] = q
                           /\ \A j \in E : hash_fcn[j] = q => a[j] <= a[table'[q]]
    BY <1>8 DEF Headed
  <2>1. CASE q = r /\ p = NoNode
    <3>1. table'[q] = x
      BY <1>9, <2>1
    <3>2. ASSUME NEW j \in E, hash_fcn[j] = r PROVE age[j] < age[k]
      <4>1. j \in D /\ j # k /\ age[j] <= age[k]
        BY <1>16, <2>1, <3>2
      <4> QED BY <1>1, <1>3, <4>1
    <3>3. CASE x = NoNode
      <4>1. \A j \in E : hash_fcn[j] # q
        BY <1>3, <1>15, <1>17, <2>1, <3>2, <3>3
      <4> QED BY <3>1, <3>3, <4>1
    <3>4. CASE x # NoNode
      <4>1. \A j \in E : hash_fcn[j] = r => age[j] <= age[x]
        BY <1>15, <3>2, <3>4
      <4> QED BY <1>10, <1>15, <1>17, <2>1, <3>1, <3>4, <4>1
    <3> QED BY <3>3, <3>4
  <2>2. CASE q # r \/ p # NoNode
    <3>1. table'[q] = table[q]
      BY <1>9, <2>2
    <3>2. table[q] # NoNode => table[q] \in E
      BY <1>6, <1>7, <2>2
    <3> QED BY <1>6, <1>10, <3>1, <3>2
  <2> QED BY <2>1, <2>2
<1>19. Forward(a)'
  <2> SUFFICES ASSUME NEW j \in E
               PROVE  IF nodes'[j].next = NoNode THEN \A i \in E : hash_fcn[i] = hash_fcn[j] => a[j] <= a[i]
                      ELSE /\ nodes'[j].next \in E /\ hash_fcn[nodes'[j].next] = hash_fcn[j]
                           /\ a[nodes'[j].next] < a[j]
                           /\ \A i \in E : hash_fcn[i] = hash_fcn[j] /\ a[i] < a[j] => a[i] <= a[nodes'[j].next]
    BY <1>8 DEF Forward, Mates
  <2>1. CASE j = p
    <3>1. nodes'[j].next = x /\ hash_fcn[j] = r /\ age[k] < age[j] /\ age[j] \in Nat
      BY <1>2, <1>3, <1>8, <1>16, <2>1
    <3>2. ASSUME NEW i \in E, hash_fcn[i] = r, age[i] < age[j] PROVE age[i] < age[k]
      <4>1. i \in D /\ i # k /\ age[i] \in Nat
        BY <1>3
      <4>2. ~(age[k] < age[i])
        BY <1>2, <1>16, <2>1, <3>1, <3>2, <4>1
      <4>3. age[i] # age[k]
        BY <1>1, <1>3, <4>1
      <4> QED BY <1>17, <4>1, <4>2, <4>3
    <3>3. CASE x = NoNode
      <4>1. ASSUME NEW i \in E, hash_fcn[i] = r PROVE age[j] <= age[i]
        <5>1. ~(age[i] < age[k]) /\ age[i] \in Nat
          BY <1>3, <1>15, <1>17, <3>3, <4>1
        <5> QED BY <3>1, <3>2, <4>1, <5>1
      <4> QED BY <1>10, <3>1, <3>3, <4>1
    <3>4. CASE x # NoNode
      <4>1. x \in E /\ hash_fcn[x] = r /\ age[x] < age[j]
        BY <1>15, <1>17, <3>1, <3>4
      <4>2. \A i \in E : hash_fcn[i] = r /\ age[i] < age[j] => age[i] <= age[x]
        BY <1>15, <3>2, <3>4
      <4> QED BY <1>10, <3>1, <3>4, <4>1, <4>2
    <3> QED BY <3>3, <3>4
  <2>2. CASE j # p
    <3> DEFINE y == nodes[j].next
    <3>1. nodes'[j].next = y
      BY <1>8, <2>2
    <3>2. /\ y = NoNode => \A i \in D : hash_fcn[i] = hash_fcn[j] => age[j] <= age[i]
          /\ y # NoNode => /\ y \in D /\ hash_fcn[y] = hash_fcn[j] /\ age[y] < age[j]
                           /\ \A i \in D : hash_fcn[i] = hash_fcn[j] /\ age[i] < age[j] => age[i] <= age[y]
      BY <1>4
    <3> HIDE DEF y
    <3>3. y # k
      <4> SUFFICES ASSUME y = k PROVE FALSE
        OBVIOUS
      <4>1. hash_fcn[j] = r /\ age[k] < age[j] /\ j \in D /\ age[j] \in Nat
        BY <1>2, <1>3, <3>2
      <4>2. p # NoNode /\ p \in D /\ hash_fcn[p] = r /\ age[k] < age[p] /\ age[p] <= age[j]
        BY <1>16, <1>17, <4>1
      <4>3. age[p] # age[j]
        BY <1>3, <2>2, <4>1, <4>2
      <4>4. age[p] <= age[k]
        BY <1>2, <1>17, <3>2, <4>1, <4>2, <4>3
      <4> QED BY <1>17, <4>2, <4>4
    <3>4. CASE y = NoNode
      BY <1>10, <3>1, <3>2, <3>4
    <3>5. CASE y # NoNode
      BY <1>10, <3>1, <3>2, <3>3, <3>5
    <3> QED BY <3>4, <3>5
  <2> QED BY <2>1, <2>2
<1>20. Backward(a)'
  <2> SUFFICES ASSUME NEW j \in E
               PROVE  IF nodes'[j].prev = NoNode THEN \A i \in E : hash_fcn[i] = hash_fcn[j] => a[i] <= a[j]
                      ELSE /\ nodes'[j].prev \in E /\ hash_fcn[nodes'[j].prev] = hash_fcn[j]
                           /\ a[j] < a[nodes'[j].prev]
                           /\ \A i \in E : hash_fcn[i] = hash_fcn[j] /\ a[j] < a[i] => a[nodes'[j].prev] <= a[i]
    BY <1>8 DEF Backward, Mates
  <2>1. CASE j = x
    <3>1. nodes'[j].prev = p /\ hash_fcn[j] = r /\ age[j] < age[k] /\ age[j] \in Nat
      BY <1>2, <1>3, <1>8, <1>15, <2>1
    <3>2. ASSUME NEW i \in E, hash_fcn[i] = r, age[j] < age[i] PROVE age[k] < age[i]
      <4>1. i \in D /\ i # k /\ age[i] \in Nat
        BY <1>3
      <4>2. ~(age[i] < age[k])
        BY <1>2, <1>15, <2>1, <3>1, <3>2, <4>1
      <4>3. age[i] # age[k]
        BY <1>1, <1>3, <4>1
      <4> QED BY <1>17, <4>1, <4>2, <4>3
    <3>3. CASE p = NoNode
      <4>1. ASSUME NEW i \in E, hash_fcn[i] = r PROVE age[i] <= age[j]
        <5>1. ~(age[k] < age[i]) /\ age[i] \in Nat
          BY <1>3, <1>16, <1>17, <3>3, <4>1
        <5> QED BY <3>1, <3>2, <4>1, <5>1
      <4> QED BY <1>10, <3>1, <3>3, <4>1
    <3>4. CASE p # NoNode
      <4>1. p \in E /\ hash_fcn[p] = r /\ age[j] < age[p]
        BY <1>16, <1>17, <3>1, <3>4
      <4>2. \A i \in E : hash_fcn[i] = r /\ age[j] < age[i] => age[p] <= age[i]
        BY <1>16, <3>2, <3>4
      <4> QED BY <1>10, <3>1, <3>4, <4>1, <4>2
    <3> QED BY <3>3, <3>4
  <2>2. CASE j # x
    <3> DEFINE y == nodes[j].prev
    <3>1. nodes'[j].prev = y
      BY <1>8, <2>2
    <3>2. /\ y = NoNode => \A i \in D : hash_fcn[i] = hash_fcn[j] => age[i] <= age[j]
          /\ y # NoNode => /\ y \in D /\ hash_fcn[y] = hash_fcn[j] /\ age[j] < age[y]
                           /\ \A i \in D : hash_fcn[i] = hash_fcn[j] /\ age[j] < age[i] => age[y] <= age[i]
      BY <1>5
    <3> HIDE DEF y
    <3>3. y # k
      <4> SUFFICES ASSUME y = k PROVE FALSE
        OBVIOUS
      <4>1. hash_fcn[j] = r /\ age[j] < age[k] /\ j \in D /\ age[j] \in Nat
        BY <1>2, <1>3, <3>2
      <4>2. x # NoNode /\ x \in D /\ hash_fcn[x] = r /\ age[x] < age[k] /\ age[j] <= age[x]
        BY <1>15, <1>17, <4>1
      <4>3. age[x] # age[j]
        BY <1>3, <2>2, <4>1, <4>2
      <4>4. age[k] <= age[x]
        BY <1>2, <1>17, <3>2, <4>1, <4>2, <4>3
      <4> QED BY <1>17, <4>2, <4>4
    <3>4. CASE y = NoNode
      BY <1>10, <3>1, <3>2, <3>4
    <3>5. CASE y # NoNode
      BY <1>10, <3>1, <3>2, <3>3, <3>5
    <3> QED BY <3>4, <3>5
  <2> QED BY <2>1, <2>2
<1>21. Going(a)'
  <2> SUFFICES ASSUME iter.on' PROVE Going(a)'
    BY DEF Going
  <2>1. k \in Range(iter.seen) /\ iter' = iter /\ iter.on
    BY <1>11, NoIterIs
  <2>2. /\ cnode # Freed /\ (cnode # NoNode => hash_fcn[cnode] = crow)
        /\ IsInjective(iter.seen) /\ Range(iter.seen) \subseteq iter.from
        /\ iter.from \ Range(iter.seen) = Pending(age)
    BY <2>1 DEF Going
  <2>3. k \notin Pending(age)
    BY <2>1, <2>2
  <2>4. cnode \in D \cup {NoNode, Freed}
    BY DEF SfgTypes, D
  <2>5. cnode # NoNode => cnode \in E
    <3> SUFFICES ASSUME cnode # NoNode, cnode = k PROVE FALSE
      BY <2>2, <2>4
    <3>1. k \in Pending(age)
      BY <1>1, <1>3, <2>2 DEF Pending, D
    <3> QED BY <2>3, <3>1
  <2>6. cnode' = cnode /\ crow' = crow
    BY <1>2, <1>11, <2>5
  <2>7. Pending(a)' = Pending(age)
    <3>1. CASE cnode = NoNode
      BY <2>6, <3>1 DEF Pending
    <3>2. CASE cnode # NoNode
      <4>1. Pending(a)' = {m \in E : hash_fcn[m] > crow \/ (hash_fcn[m] = crow /\ a[m] <= a[cnode])}
        BY <1>8, <2>6, <3>2 DEF Pending
      <4>2. Pending(age) = {m \in D : hash_fcn[m] > crow \/ (hash_fcn[m] = crow /\ age[m] <= age[cnode])}
        BY <3>2 DEF Pending, D
      <4>3. a[cnode] = age[cnode] /\ \A m \in E : a[m] = age[m]
        BY <1>10, <2>5, <3>2
      <4> QED BY <2>3, <4>1, <4>2, <4>3
    <3> QED BY <3>1, <3>2
  <2> QED BY <2>1, <2>2, <2>6, <2>7 DEF Going
<1>22. Rows(a, clock)'
  BY <1>14, <1>18, <1>19, <1>20 DEF Rows
<1> QED BY <1>12, <1>13, <1>21, <1>22 DEF SfgInv

\* The ages of the nodes explain the pointers of sfghash.c, and the cursor, in every
\* state before movetofront() has moved a node: SfgInv is inductive.
THEOREM SfgInductive == SfgSpec => []SfgInv
<1>1. SfgInit => SfgInv
  BY SfgInitially
<1>2. SfgInv /\ [SfgNext]_sfgVars => SfgInv'
  <2> SUFFICES ASSUME SfgInv, [SfgNext]_sfgVars PROVE SfgInv'
    OBVIOUS
  <2>1. CASE UNCHANGED sfgVars
    <3>1. UNCHANGED <<table, nodes, count, crow, cnode, splay, map, splayed, iter>>
      BY <2>1 DEF sfgVars
    <3>2. CASE splayed = TRUE /\ iter = NoIter
      BY <3>1, <3>2 DEF SfgInv
    <3>3. ASSUME SfgTypes, Held, NEW age, NEW clock, Rows(age, clock), Going(age) PROVE SfgInv'
      <4>1. Going(age)'
        BY <3>1, <3>3 DEF Going, Pending
      <4>2. crow' \in Nat /\ cnode' \in DOMAIN nodes \cup {NoNode, Freed}
            /\ iter' \in [on : BOOLEAN, from : SUBSET Key, seen : Seq(Key)]
        BY <3>1, <3>3 DEF SfgTypes
      <4> QED BY <3>1, <3>3, <4>1, <4>2, SfgKeeps
    <3> QED BY <3>2, <3>3 DEF SfgInv
  <2>2. CASE SfgNext
    <3>1. SfgTypes /\ Held /\ \E age, clock : Rows(age, clock) /\ Going(age)
      BY <2>2 DEF SfgNext, SfgInv
    <3>2. PICK age, clock : Rows(age, clock) /\ Going(age)
      BY <3>1
    <3>3. ASSUME NEW k \in Key, AddPresent(k) PROVE SfgInv'
      BY <3>1, <3>2, <3>3, KeepAddPresent
    <3>4. ASSUME NEW k \in Key, sfghash_find_node(k) PROVE SfgInv'
      BY <3>1, <3>2, <3>4, KeepFind
    <3>5. ASSUME NEW k \in Key, sfghash_remove(k) PROVE SfgInv'
      BY <3>1, <3>2, <3>5, KeepRemove
    <3>6. ASSUME NEW k \in Key, NEW d \in Data, AddNew(k, d) PROVE SfgInv'
      BY <3>1, <3>2, <3>6, KeepAdd
    <3>7. ASSUME NEW n \in BOOLEAN, sfghash_splaymode(n) PROVE SfgInv'
      BY <3>1, <3>2, <3>7, KeepSplaymode
    <3>8. CASE sfghash_findfirst
      BY <3>1, <3>2, <3>8, KeepFindfirst
    <3>9. CASE sfghash_findnext
      BY <3>1, <3>2, <3>9, KeepFindnext
    <3>10. CASE FindnextEnds
      BY <3>1, <3>2, <3>10, KeepEnds
    <3>11. CASE sfghash_delete
      BY <3>1, <3>2, <3>11, KeepDelete
    <3> QED BY <2>2, <3>3, <3>4, <3>5, <3>6, <3>7, <3>8, <3>9, <3>10, <3>11 DEF SfgNext
  <2> QED BY <2>1, <2>2
<1> QED BY <1>1, <1>2, PTL DEF SfgSpec

\* HoldsKeys, for any keys, data, rows and hash function: every key added and not
\* removed is found with its data, no other is, no node is lost, counted wrongly or
\* freed while something points to it, and an iteration with sfghash_findfirst() and
\* sfghash_findnext(), during which returned nodes may be removed, returns every key
\* once, through every sequence of calls up to the first node that is moved to the
\* front.
THEOREM TableHoldsKeys == SfgSpec => []HoldsKeys
BY SfgInductive, SfgHolds, PTL
===============================================================================
