------------------------------ MODULE WatchProofs ------------------------------
(****************************************************************************)
(* Proofs about DirWatch: the queue of event_queue.c is a list, hands the     *)
(* events on in order and leaks no entry, and the count of what is watched    *)
(* is right, for any command line, any sizes of the queues and any number of  *)
(* events.                                                                   *)
(****************************************************************************)
EXTENDS DirWatch, FiniteSetTheorems, SequenceTheorems, WellFoundedInduction, TLAPS

-------------------------------------------------------------------------------
(* Arithmetic of sequences.                                                  *)

\* A nonempty set of numbers has a least one.
LEMMA LeastNumber ==
    ASSUME NEW S \in SUBSET Nat, S # {}
    PROVE  \E m \in S : \A n \in S : m <= n
<1> DEFINE R == OpToRel(<, Nat)
<1>1. PICK m \in S : \A n \in S : ~(<<n, m>> \in R)
  BY NatLessThanWellFounded, WFMin
<1>2. ASSUME NEW n \in S, n < m PROVE FALSE
  <2>1. n \in Nat /\ m \in Nat
    OBVIOUS
  <2>2. <<n, m>> \in R
    BY <1>2, <2>1 DEF OpToRel
  <2> QED BY <1>1, <2>2
<1> QED BY <1>2

Marks(q) == {i \in 1..Len(q) : q[i].mask = "ignored"}
One(e) == IF e.mask = "ignored" THEN 1 ELSE 0

LEMMA IgnoredType ==
    ASSUME NEW q \in Seq(Event)
    PROVE  IsFiniteSet(Marks(q)) /\ Ignored(q) = Cardinality(Marks(q)) /\ Ignored(q) \in Nat
<1>1. IsFiniteSet(1..Len(q)) /\ Marks(q) \in SUBSET (1..Len(q))
  BY FS_Interval DEF Marks
<1>2. IsFiniteSet(Marks(q))
  BY <1>1, FS_Subset
<1> QED BY <1>2, FS_CardinalityType DEF Ignored, Marks

\* What two queues hold together.
LEMMA IgnoredConcat ==
    ASSUME NEW s \in Seq(Event), NEW t \in Seq(Event)
    PROVE  Ignored(s \o t) = Ignored(s) + Ignored(t)
<1> DEFINE n == Len(s)
           Moved == {n + j : j \in Marks(t)}
           f == [j \in Marks(t) |-> n + j]
<1>1. s \o t \in Seq(Event) /\ n \in Nat /\ Len(t) \in Nat /\ Len(s \o t) = n + Len(t)
  OBVIOUS
<1>2. \A i \in 1..n : (s \o t)[i] = s[i]
  BY <1>1
<1>3. \A j \in 1..Len(t) : (s \o t)[n + j] = t[j]
  BY <1>1
<1>4. \A j \in Marks(t) : j \in 1..Len(t)
  BY DEF Marks
<1>5. Marks(s \o t) = Marks(s) \cup Moved
  <2>1. ASSUME NEW i \in Marks(s \o t) PROVE i \in Marks(s) \cup Moved
    <3>1. CASE i <= n
      BY <1>1, <1>2, <3>1 DEF Marks
    <3>2. CASE i > n
      <4>1. i - n \in 1..Len(t) /\ i = n + (i - n)
        BY <1>1, <3>2 DEF Marks
      <4>2. i - n \in Marks(t)
        BY <1>3, <4>1 DEF Marks
      <4> QED BY <4>1, <4>2
    <3> QED BY <1>1, <3>1, <3>2 DEF Marks
  <2>2. ASSUME NEW i \in Marks(s) PROVE i \in Marks(s \o t)
    BY <1>1, <1>2 DEF Marks
  <2>3. ASSUME NEW i \in Moved PROVE i \in Marks(s \o t)
    BY <1>1, <1>3 DEF Marks
  <2> HIDE DEF Moved
  <2> QED BY <2>1, <2>2, <2>3
<1>6. Marks(s) \cap Moved = {}
  BY <1>1, <1>4 DEF Marks
<1>7. f \in Bijection(Marks(t), Moved)
  <2>1. f \in [Marks(t) -> Moved]
    OBVIOUS
  <2>2. \A i, j \in Marks(t) : f[i] = f[j] => i = j
    BY <1>1, <1>4
  <2>3. \A m \in Moved : \E j \in Marks(t) : f[j] = m
    OBVIOUS
  <2> HIDE DEF f, Moved
  <2> QED BY <2>1, <2>2, <2>3 DEF Bijection, Injection, Surjection, IsInjective
<1> HIDE DEF f, Moved
<1>8. IsFiniteSet(Moved) /\ Cardinality(Moved) = Cardinality(Marks(t))
  BY <1>7, IgnoredType, FS_Bijection DEF ExistsBijection
<1>9. Cardinality(Marks(s) \cup Moved) = Cardinality(Marks(s)) + Cardinality(Moved) - Cardinality(Marks(s) \cap Moved)
  BY <1>8, IgnoredType, FS_Union
<1>10. Ignored(s \o t) = Cardinality(Marks(s \o t)) /\ Ignored(s) = Cardinality(Marks(s))
       /\ Ignored(t) = Cardinality(Marks(t)) /\ Ignored(s) \in Nat /\ Ignored(t) \in Nat
  BY <1>1, IgnoredType
<1>11. Cardinality(Marks(s) \cap Moved) = 0
  BY <1>6, FS_EmptySet
<1>12. Ignored(s \o t) = Cardinality(Marks(s) \cup Moved)
  BY <1>5, <1>10
<1> QED BY <1>8, <1>9, <1>10, <1>11, <1>12

LEMMA IgnoredSingle == ASSUME NEW e \in Event PROVE Ignored(<<e>>) = One(e)
<1>1. <<e>> \in Seq(Event) /\ Len(<<e>>) = 1 /\ <<e>>[1] = e
  OBVIOUS
<1>2. Ignored(<<e>>) = Cardinality(Marks(<<e>>))
  BY <1>1, IgnoredType
<1>3. CASE e.mask = "ignored"
  <2>1. Marks(<<e>>) = {1}
    BY <1>1, <1>3 DEF Marks
  <2> QED BY <1>2, <1>3, <2>1, FS_Singleton DEF One
<1>4. CASE e.mask # "ignored"
  <2>1. Marks(<<e>>) = {}
    BY <1>1, <1>4 DEF Marks
  <2> QED BY <1>2, <1>4, <2>1, FS_EmptySet DEF One
<1> QED BY <1>3, <1>4

LEMMA IgnoredEmpty == Ignored(<<>>) = 0
<1>1. <<>> \in Seq(Event) /\ Marks(<<>>) = {}
  BY DEF Marks
<1> QED BY <1>1, IgnoredType, FS_EmptySet

LEMMA IgnoredAppend ==
    ASSUME NEW q \in Seq(Event), NEW e \in Event
    PROVE  Ignored(Append(q, e)) = Ignored(q) + One(e)
<1>1. Append(q, e) = q \o <<e>> /\ <<e>> \in Seq(Event)
  BY AppendIsConcat
<1> QED BY <1>1, IgnoredConcat, IgnoredSingle

LEMMA IgnoredHead ==
    ASSUME NEW q \in Seq(Event), q # <<>>
    PROVE  Ignored(q) = One(Head(q)) + Ignored(Tail(q))
<1>1. Head(q) \in Event /\ Tail(q) \in Seq(Event) /\ q = <<Head(q)>> \o Tail(q)
      /\ <<Head(q)>> \in Seq(Event)
  <2>1. Head(q) \in Event /\ Tail(q) \in Seq(Event) /\ <<Head(q)>> \in Seq(Event)
    OBVIOUS
  <2>2. Len(q) = Len(<<Head(q)>> \o Tail(q)) /\ \A i \in 1..Len(q) : q[i] = (<<Head(q)>> \o Tail(q))[i]
    BY <2>1
  <2>3. <<Head(q)>> \o Tail(q) \in Seq(Event)
    BY <2>1
  <2> QED BY <2>1, <2>2, <2>3, SeqEqual
<1> QED BY <1>1, IgnoredConcat, IgnoredSingle

LEMMA IgnoredSplit ==
    ASSUME NEW q \in Seq(Event), NEW n \in 0..Len(q)
    PROVE  /\ SubSeq(q, 1, n) \in Seq(Event) /\ SubSeq(q, n + 1, Len(q)) \in Seq(Event)
           /\ Len(SubSeq(q, 1, n)) = n /\ Len(SubSeq(q, n + 1, Len(q))) = Len(q) - n
           /\ Ignored(q) = Ignored(SubSeq(q, 1, n)) + Ignored(SubSeq(q, n + 1, Len(q)))
<1>1. SubSeq(q, 1, n) \in Seq(Event) /\ SubSeq(q, n + 1, Len(q)) \in Seq(Event)
      /\ Len(SubSeq(q, 1, n)) = n /\ Len(SubSeq(q, n + 1, Len(q))) = Len(q) - n
  OBVIOUS
<1>2. SubSeq(q, 1, n) \o SubSeq(q, n + 1, Len(q)) = q
  <2> DEFINE a == SubSeq(q, 1, n)
             b == SubSeq(q, n + 1, Len(q))
  <2>1. \A i \in 1..n : a[i] = q[i]
    OBVIOUS
  <2>2. \A i \in 1..(Len(q) - n) : b[i] = q[n + i]
    OBVIOUS
  <2> HIDE DEF a, b
  <2>3. a \in Seq(Event) /\ b \in Seq(Event) /\ Len(a) = n /\ Len(b) = Len(q) - n
    BY <1>1 DEF a, b
  <2>4. a \o b \in Seq(Event) /\ Len(a \o b) = Len(q)
    BY <2>3
  <2>5. \A i \in 1..Len(q) : (a \o b)[i] = q[i]
    <3> SUFFICES ASSUME NEW i \in 1..Len(q) PROVE (a \o b)[i] = q[i]
      OBVIOUS
    <3>1. (a \o b)[i] = IF i <= n THEN a[i] ELSE b[i - n]
      BY <2>3, ConcatProperties
    <3>2. CASE i <= n
      BY <2>1, <3>1, <3>2
    <3>3. CASE ~(i <= n)
      <4>1. i - n \in 1..(Len(q) - n) /\ n + (i - n) = i
        BY <3>3
      <4> QED BY <2>2, <3>1, <3>3, <4>1
    <3> QED BY <3>2, <3>3
  <2>6. a \o b = q
    BY <2>4, <2>5, SeqEqual
  <2> QED BY <2>6 DEF a, b
<1> QED BY <1>1, <1>2, IgnoredConcat

-------------------------------------------------------------------------------
(* event_queue.c.                                                            *)

\* A list has no more entries than there are.
LEMMA ListFits ==
    ASSUME NEW q \in Seq(Entry), \A i, j \in 1..Len(q) : q[i] = q[j] => i = j
    PROVE  Len(q) <= Cardinality(Entry) /\ Cardinality(Entry) \in Nat
<1>1. q \in Injection(1..Len(q), Entry)
  BY DEF Injection, IsInjective
<1>2. Cardinality(1..Len(q)) <= Cardinality(Entry)
  BY <1>1, FS_Injection, EntryAssumption
<1>3. Cardinality(1..Len(q)) = Len(q)
  BY FS_Interval
<1> QED BY <1>2, <1>3, FS_CardinalityType, EntryAssumption

\* The walk from the head comes to the entries of the list, in their order: what the
\* memory holds is the only list that it holds.
LEMMA TheList == \A q : IsList(q) => Queued = q
<1> SUFFICES ASSUME NEW q, IsList(q) PROVE Queued = q
  OBVIOUS
<1> DEFINE N == Cardinality(Entry)
           W == [n \in 0..N |-> IF n < Len(q) THEN q[n + 1] ELSE NULL]
<1>1. q \in Seq(Entry) /\ Len(q) \in Nat /\ N \in Nat /\ Len(q) <= N
  BY ListFits DEF IsList
<1>2. \A i \in 1..Len(q) : q[i] \in Entry /\ q[i] # NULL
  BY <1>1, EntryAssumption
<1>3. W[0] = head
  BY <1>1 DEF IsList
<1>4. \A n \in 1..N : W[n] = IF W[n - 1] = NULL THEN NULL ELSE next_ptr[W[n - 1]]
  <2> SUFFICES ASSUME NEW n \in 1..N PROVE W[n] = IF W[n - 1] = NULL THEN NULL ELSE next_ptr[W[n - 1]]
    OBVIOUS
  <2>1. CASE n - 1 < Len(q)
    <3>1. W[n - 1] = q[n] /\ q[n] # NULL /\ n \in 1..Len(q)
      BY <1>1, <1>2, <2>1
    <3>2. next_ptr[q[n]] = IF n = Len(q) THEN NULL ELSE q[n + 1]
      BY <3>1 DEF IsList
    <3>3. W[n] = IF n < Len(q) THEN q[n + 1] ELSE NULL
      BY <1>1
    <3> QED BY <1>1, <3>1, <3>2, <3>3
  <2>2. CASE ~(n - 1 < Len(q))
    BY <1>1, <2>2
  <2> QED BY <2>1, <2>2
<1> HIDE DEF W
<1>5. W = [n \in 0..N |-> IF n = 0 THEN head ELSE IF W[n - 1] = NULL THEN NULL ELSE next_ptr[W[n - 1]]]
  <2>1. \A n \in 0..N : W[n] = IF n = 0 THEN head ELSE IF W[n - 1] = NULL THEN NULL ELSE next_ptr[W[n - 1]]
    BY <1>1, <1>3, <1>4
  <2>2. W = [n \in 0..N |-> W[n]]
    BY DEF W
  <2> QED BY <2>1, <2>2
<1>6. Nth = [n \in 0..N |-> IF n = 0 THEN head ELSE IF Nth[n - 1] = NULL THEN NULL ELSE next_ptr[Nth[n - 1]]]
  BY <1>5 DEF Nth
<1> HIDE DEF N
<1>7. Nth[0] = head /\ \A n \in 1..N : Nth[n] = IF Nth[n - 1] = NULL THEN NULL ELSE next_ptr[Nth[n - 1]]
  BY <1>1, <1>6
<1>8. \A n \in 0..N : Nth[n] = W[n]
  <2> DEFINE Off == {n \in 0..N : Nth[n] # W[n]}
  <2>1. SUFFICES ASSUME Off # {} PROVE FALSE
    OBVIOUS
  <2>2. Off \in SUBSET Nat
    BY <1>1
  <2>3. PICK m \in Off : \A n \in Off : m <= n
    <3> HIDE DEF Off
    <3> QED BY <2>1, <2>2, LeastNumber
  <2>4. m # 0
    BY <1>3, <1>7, <2>3
  <2>5. m \in 1..N /\ m - 1 \in 0..N /\ m - 1 \notin Off
    BY <1>1, <2>2, <2>3, <2>4
  <2>6. Nth[m - 1] = W[m - 1]
    BY <2>5
  <2> QED BY <1>4, <1>7, <2>3, <2>5, <2>6
<1>9. {n \in 0..N : Nth[n] # NULL} = 0..(Len(q) - 1)
  <2>1. \A n \in 0..N : W[n] # NULL <=> n < Len(q)
    BY <1>1, <1>2 DEF W
  <2> QED BY <1>1, <1>8, <2>1
<1>10. Cardinality(0..(Len(q) - 1)) = Len(q)
  <2>1. 0 \in Int /\ Len(q) - 1 \in Int
    BY <1>1
  <2>2. Cardinality(0..(Len(q) - 1)) = IF 0 > Len(q) - 1 THEN 0 ELSE (Len(q) - 1) - 0 + 1
    BY <2>1, FS_Interval
  <2> QED BY <1>1, <2>2
<1>11. Queued = [i \in 1..Len(q) |-> Nth[i - 1]]
  BY <1>9, <1>10 DEF Queued, N
<1>12. \A i \in 1..Len(q) : Nth[i - 1] = q[i]
  BY <1>1, <1>8 DEF W
<1>13. q = [i \in 1..Len(q) |-> q[i]]
  BY <1>1
<1> QED BY <1>11, <1>12, <1>13


LEMMA TheListNext == \A q : IsList(q)' => Queued' = q
<1>1. (\A q : IsList(q) => Queued = q)'
  BY TheList, PTL
<1> QED BY <1>1

LEMMA QueueKept ==
    ASSUME IsList(Queued), UNCHANGED <<head, tail, next_ptr>>
    PROVE  IsList(Queued)' /\ Queued' = Queued
<1>1. \A q : IsList(q) => IsList(q)'
  BY DEF IsList
<1>2. PICK q : q = Queued
  OBVIOUS
<1>3. Queued' = q /\ IsList(q)'
  BY <1>1, <1>2, TheListNext
<1> QED BY <1>2, <1>3 DEF IsList

\* An entry that is not in the list becomes its last one.
LEMMA Enqueued ==
    ASSUME IsList(Queued), next_ptr \in [Entry -> Entry \cup {NULL}],
           NEW d \in Entry, \A i \in 1..Len(Queued) : Queued[i] # d, queue_enqueue(d)
    PROVE  /\ IsList(Queued)' /\ Queued' = Append(Queued, d)
           /\ next_ptr' \in [Entry -> Entry \cup {NULL}]
<1>0. PICK q : q = Queued
  OBVIOUS
<1> DEFINE r == Append(q, d)
<1>1. q \in Seq(Entry) /\ Len(q) \in Nat /\ (\A i, j \in 1..Len(q) : q[i] = q[j] => i = j)
      /\ (\A i \in 1..Len(q) : q[i] # d /\ q[i] \in Entry /\ q[i] # NULL)
  BY <1>0, EntryAssumption DEF IsList
<1>2. r \in Seq(Entry) /\ Len(r) = Len(q) + 1 /\ r # <<>> /\ r[Len(q) + 1] = d
      /\ \A i \in 1..Len(q) : r[i] = q[i]
  BY <1>1
<1> HIDE DEF r
<1>3. \A i, j \in 1..Len(r) : r[i] = r[j] => i = j
  BY <1>1, <1>2
<1>4. CASE q = <<>>
  <2>1. tail = NULL
    BY <1>0, <1>4 DEF IsList
  <2>2. next_ptr' = [next_ptr EXCEPT ![d] = NULL] /\ head' = d /\ tail' = d
    BY <2>1 DEF queue_enqueue
  <2>3. Len(q) = 0
    BY <1>4
  <2>4. IsList(r)'
    BY <1>2, <1>3, <2>2, <2>3 DEF IsList
  <2>5. next_ptr' \in [Entry -> Entry \cup {NULL}]
    BY <2>2
  <2> QED BY <1>0, <2>4, <2>5, TheListNext DEF r
<1>5. CASE q # <<>>
  <2>0. Len(q) \in 1..Len(q)
    BY <1>1, <1>5
  <2>1. tail = q[Len(q)] /\ tail \in Entry /\ tail # NULL /\ tail # d /\ head = q[1]
    BY <1>0, <1>1, <1>5, <2>0 DEF IsList
  <2>2. next_ptr' = [[next_ptr EXCEPT ![d] = NULL] EXCEPT ![tail] = d] /\ head' = head /\ tail' = d
    BY <2>1 DEF queue_enqueue
  <2>3. next_ptr' \in [Entry -> Entry \cup {NULL}]
    BY <2>1, <2>2
  <2>4. next_ptr'[d] = NULL /\ next_ptr'[tail] = d
        /\ \A e \in Entry : e # d /\ e # tail => next_ptr'[e] = next_ptr[e]
    BY <2>1, <2>2
  <2>5. \A i \in 1..Len(q) : next_ptr[q[i]] = IF i = Len(q) THEN NULL ELSE q[i + 1]
    BY <1>0 DEF IsList
  <2>6. ASSUME NEW i \in 1..Len(r) PROVE next_ptr'[r[i]] = IF i = Len(r) THEN NULL ELSE r[i + 1]
    <3>1. CASE i = Len(r)
      BY <1>1, <1>2, <2>4, <3>1
    <3>2. CASE i = Len(q)
      BY <1>1, <1>2, <2>0, <2>1, <2>4, <3>2
    <3>3. CASE i < Len(q)
      <4>1. i \in 1..Len(q) /\ i + 1 \in 1..Len(q) /\ r[i] = q[i] /\ r[i + 1] = q[i + 1]
        BY <1>1, <1>2, <3>3
      <4>2. q[i] # tail /\ q[i] # d /\ q[i] \in Entry
        BY <1>1, <2>0, <2>1, <3>3, <4>1
      <4> QED BY <1>1, <1>2, <2>4, <2>5, <3>3, <4>1, <4>2
    <3> QED BY <1>1, <1>2, <3>1, <3>2, <3>3
  <2>7. head' = r[1] /\ tail' = r[Len(r)]
    BY <1>1, <1>2, <2>0, <2>1, <2>2
  <2>8. IsList(r)'
    BY <1>2, <1>3, <2>6, <2>7 DEF IsList
  <2> QED BY <1>0, <2>3, <2>8, TheListNext DEF r
<1> QED BY <1>4, <1>5

\* The first entry leaves the list.
LEMMA Dequeued ==
    ASSUME IsList(Queued), next_ptr \in [Entry -> Entry \cup {NULL}], head # NULL, queue_dequeue
    PROVE  /\ IsList(Queued)' /\ Queued # <<>> /\ Queued' = Tail(Queued) /\ head = Head(Queued)
           /\ head \in Entry /\ \A i \in 1..Len(Queued') : Queued'[i] # head
           /\ next_ptr' \in [Entry -> Entry \cup {NULL}]
<1>0. PICK q : q = Queued
  OBVIOUS
<1> DEFINE r == Tail(q)
<1>1. q \in Seq(Entry) /\ Len(q) \in Nat /\ (\A i, j \in 1..Len(q) : q[i] = q[j] => i = j)
      /\ (\A i \in 1..Len(q) : q[i] \in Entry /\ q[i] # NULL)
  BY <1>0, EntryAssumption DEF IsList
<1>2. q # <<>> /\ head = q[1] /\ tail = q[Len(q)] /\ 1 \in 1..Len(q) /\ Len(q) \in 1..Len(q)
  BY <1>0, <1>1 DEF IsList
<1>3. r \in Seq(Entry) /\ Len(r) = Len(q) - 1 /\ \A i \in 1..Len(r) : r[i] = q[i + 1]
  BY <1>1, <1>2
<1>4. Head(q) = q[1]
  BY <1>1, <1>2
<1> HIDE DEF r
<1>5. (r = <<>>) <=> Len(q) = 1
  <2>1. (r = <<>>) <=> Len(r) = 0
    BY <1>3, EmptySeq
  <2> QED BY <1>1, <1>3, <2>1
<1>6. \A i, j \in 1..Len(r) : r[i] = r[j] => i = j
  BY <1>1, <1>3
<1>7. \A i \in 1..Len(r) : r[i] # head
  BY <1>1, <1>2, <1>3
<1>8. \A i \in 1..Len(q) : next_ptr[q[i]] = IF i = Len(q) THEN NULL ELSE q[i + 1]
  BY <1>0 DEF IsList
<1>9. head' = next_ptr[head] /\ next_ptr' = [next_ptr EXCEPT ![head] = NULL]
      /\ tail' = IF next_ptr[head] = NULL THEN NULL ELSE tail
  BY DEF queue_dequeue
<1>10. next_ptr' \in [Entry -> Entry \cup {NULL}] /\ \A e \in Entry : e # head => next_ptr'[e] = next_ptr[e]
  BY <1>1, <1>2, <1>9
<1>11. next_ptr[head] = IF Len(q) = 1 THEN NULL ELSE q[2]
  <2>1. next_ptr[q[1]] = IF 1 = Len(q) THEN NULL ELSE q[1 + 1]
    BY <1>2, <1>8
  <2>2. 1 + 1 = 2
    OBVIOUS
  <2> QED BY <1>2, <2>1, <2>2
<1>12. head' = (IF r = <<>> THEN NULL ELSE r[1]) /\ tail' = (IF r = <<>> THEN NULL ELSE r[Len(r)])
  BY <1>1, <1>2, <1>3, <1>5, <1>9, <1>11
<1>13. \A i \in 1..Len(r) : next_ptr'[r[i]] = IF i = Len(r) THEN NULL ELSE r[i + 1]
  <2> SUFFICES ASSUME NEW i \in 1..Len(r) PROVE next_ptr'[r[i]] = IF i = Len(r) THEN NULL ELSE r[i + 1]
    OBVIOUS
  <2>1. r[i] = q[i + 1] /\ i + 1 \in 1..Len(q) /\ r[i] # head /\ r[i] \in Entry
    BY <1>1, <1>3, <1>7, SMTT(30)
  <2>2. next_ptr'[r[i]] = IF i + 1 = Len(q) THEN NULL ELSE q[(i + 1) + 1]
    BY <1>8, <1>10, <2>1
  <2>3. i # Len(r) => r[i + 1] = q[(i + 1) + 1]
    BY <1>1, <1>3
  <2> QED BY <1>1, <1>3, <2>2, <2>3
<1>14. IsList(r)'
  BY <1>3, <1>6, <1>12, <1>13 DEF IsList
<1>15. Queued' = r
  BY <1>14, TheListNext
<1> QED BY <1>0, <1>1, <1>2, <1>4, <1>7, <1>10, <1>14, <1>15 DEF r


-------------------------------------------------------------------------------
(* The invariant.                                                            *)

LEMMA EventType ==
    /\ \A m \in {"other", "self", "ignored", "overflow"} : \A i \in Item \cup {NULL} : Ev(m, i) \in Event
    /\ \A m, i : One(Ev(m, i)) = IF m = "ignored" THEN 1 ELSE 0
  BY EventAssumption DEF Ev, One

\* What the kernel queues, and what it drops.
LEMMA Pushed ==
    ASSUME NEW q \in Seq(Event), Len(q) <= QueueMax + 1, NEW e \in Event
    PROVE  /\ Push(q, e) \in Seq(Event) /\ Len(Push(q, e)) <= QueueMax + 1
           /\ Ignored(q) <= Ignored(Push(q, e)) /\ Ignored(Push(q, e)) <= Ignored(q) + One(e)
           /\ Len(q) < QueueMax => /\ Len(Push(q, e)) = Len(q) + 1
                                   /\ Ignored(Push(q, e)) = Ignored(q) + One(e)
<1> DEFINE o == Ev("overflow", NULL)
<1>1. o \in Event /\ One(o) = 0 /\ One(e) \in {0, 1} /\ QueueMax \in Nat
  BY EventType, BoundAssumption DEF One
<1> HIDE DEF o
<1>2. Ignored(q) \in Nat /\ Ignored(Append(q, e)) = Ignored(q) + One(e) /\ Ignored(Append(q, o)) = Ignored(q) + One(o)
  BY <1>1, IgnoredType, IgnoredAppend
<1>3. Append(q, e) \in Seq(Event) /\ Append(q, o) \in Seq(Event)
      /\ Len(Append(q, e)) = Len(q) + 1 /\ Len(Append(q, o)) = Len(q) + 1 /\ Len(q) \in Nat
  BY <1>1
<1>4. CASE Len(q) < QueueMax
  <2>1. Push(q, e) = Append(q, e)
    BY <1>4 DEF Push
  <2> QED BY <1>1, <1>2, <1>3, <1>4, <2>1
<1>5. CASE Len(q) = QueueMax
  <2>1. Push(q, e) = Append(q, o)
    BY <1>1, <1>5 DEF Push, o
  <2> QED BY <1>1, <1>2, <1>3, <1>5, <2>1
<1>6. CASE Len(q) > QueueMax
  <2>1. Push(q, e) = q
    BY <1>1, <1>3, <1>6 DEF Push
  <2> QED BY <1>1, <1>2, <1>3, <1>6, <2>1
<1> QED BY <1>1, <1>3, <1>4, <1>5, <1>6

LEMMA ArgumentType == ASSUME argv \in ArgLists PROVE argv \in Seq(Item) /\ Len(argv) \in Nat
  BY BoundAssumption

\* There are no more watches than arguments.
LEMMA WatchesFinite ==
    ASSUME NEW n \in Nat, NEW S \in SUBSET {argv[i] : i \in 1..n}
    PROVE  IsFiniteSet(S) /\ Cardinality(S) \in Nat
<1> DEFINE T == {argv[i] : i \in 1..n}
           f == [i \in 1..n |-> argv[i]]
<1>1. f \in Surjection(1..n, T)
  BY DEF Surjection
<1>2. IsFiniteSet(1..n)
  BY FS_Interval
<1> HIDE DEF f, T
<1>3. IsFiniteSet(T)
  BY <1>1, <1>2, FS_Surjection
<1>4. S \in SUBSET T
  BY DEF T
<1> QED BY <1>3, <1>4, FS_Subset, FS_CardinalityType

LEMMA ReportsType ==
    ASSUME IsList(Queued), inot_ev \in [Entry -> Event]
    PROVE  Reports \in Seq(Event) /\ Len(Reports) = Len(Queued) /\ Len(Queued) \in Nat
<1>1. Queued \in Seq(Entry) /\ Len(Queued) \in Nat /\ \A i \in 1..Len(Queued) : inot_ev[Queued[i]] \in Event
  BY DEF IsList
<1>2. Reports \in [1..Len(Queued) -> Event]
  BY <1>1 DEF Reports
<1> QED BY <1>1, <1>2

InHand == IF pc = "event" THEN One(inot_ev[event]) ELSE 0

\* The parts of the count are numbers.
LEMMA Parts ==
    ASSUME WatchInv
    PROVE  /\ Cardinality(watches) \in Nat /\ IsFiniteSet(watches)
           /\ Ignored(kqueue) \in Nat /\ Ignored(buffer) \in Nat
           /\ Ignored(Reports) \in Nat /\ InHand \in {0, 1}
           /\ Outstanding = Cardinality(watches) + Ignored(kqueue) + Ignored(buffer) + Ignored(Reports) + InHand
           /\ watched_items \in Nat /\ index \in Nat
           /\ argv \in Seq(Item) /\ Len(argv) \in Nat
           /\ Reports \in Seq(Event) /\ Len(Reports) = Len(Queued)
<1> USE DEF WatchInv, Accounted, TypeOK, QueueInv, CountInv
<1>1. argv \in Seq(Item) /\ Len(argv) \in Nat
  BY ArgumentType
<1>2. index \in 1..Len(argv) + 1 /\ index - 1 \in Nat /\ watched_items \in Nat /\ index \in Nat
  BY <1>1
<1>3. IsFiniteSet(watches) /\ Cardinality(watches) \in Nat
  BY <1>2, WatchesFinite
<1>4. Reports \in Seq(Event) /\ Len(Reports) = Len(Queued)
  BY ReportsType
<1>5. Ignored(kqueue) \in Nat /\ Ignored(buffer) \in Nat /\ Ignored(Reports) \in Nat
  BY <1>4, IgnoredType
<1>6. InHand \in {0, 1} /\ (IF pc = "event" /\ inot_ev[event].mask = "ignored" THEN 1 ELSE 0) = InHand
  BY DEF InHand, One
<1> QED BY <1>1, <1>2, <1>3, <1>4, <1>5, <1>6 DEF Outstanding

\* The same for the next state, from what its counts are made of.
LEMMA PartsNext ==
    Outstanding' = Cardinality(watches') + Ignored(kqueue') + Ignored(buffer') + Ignored(Reports') + InHand'
<1>1. (IF pc' = "event" /\ inot_ev'[event'].mask = "ignored" THEN 1 ELSE 0) = InHand'
  BY DEF InHand, One
<1>2. Ignored(kqueue)' = Ignored(kqueue') /\ Ignored(buffer)' = Ignored(buffer') /\ Ignored(Reports)' = Ignored(Reports')
  BY DEF Ignored
<1> QED BY <1>1, <1>2 DEF Outstanding

LEMMA WatchInitially == Init => WatchInv
<1> SUFFICES ASSUME Init PROVE WatchInv
  OBVIOUS
<1>1. argv \in ArgLists /\ index = 1 /\ wd = "none" /\ pc = "watch" /\ keep_running = TRUE /\ watched_items = 0
      /\ buffer = <<>> /\ event = NULL /\ present = Item /\ watches = {} /\ kqueue = <<>> /\ lost = FALSE
      /\ head = NULL /\ tail = NULL /\ next_ptr = [d \in Entry |-> NULL] /\ allocated = {}
  BY DEF Init, queue_create
<1>2. PICK e \in Event : inot_ev = [d \in Entry |-> e]
  BY DEF Init, queue_create
<1>3. argv \in Seq(Item) /\ Len(argv) \in Nat
  BY <1>1, ArgumentType
<1>4. Queued = <<>>
  <2>1. IsList(<<>>)
    BY <1>1 DEF IsList
  <2> QED BY <2>1, TheList
<1>5. IsList(Queued)
  BY <1>1, <1>4 DEF IsList
<1>6. inot_ev \in [Entry -> Event] /\ next_ptr \in [Entry -> Entry \cup {NULL}]
  BY <1>1, <1>2
<1>7. TypeOK
  BY <1>1, <1>3, BoundAssumption DEF TypeOK
<1>8. QueueInv
  BY <1>1, <1>4, <1>5, <1>6 DEF QueueInv
<1>9. NoLeak
  BY <1>1, <1>4 DEF NoLeak
<1>10. Outstanding = 0
  <2>1. Reports = <<>>
    BY <1>4 DEF Reports
  <2> QED BY <1>1, <2>1, IgnoredEmpty, FS_EmptySet DEF Outstanding
<1>11. CountInv /\ CountExact
  BY <1>1, <1>10 DEF CountInv, CountExact
<1> QED BY <1>7, <1>8, <1>9, <1>11 DEF WatchInv, Accounted


\* A step that leaves the two queues, the watches and the count alone.
LEMMA PcMoves ==
    ASSUME WatchInv,
           UNCHANGED <<mainVars, watched_items, buffer, event, present, kernelVars, queueVars>>,
           keep_running' \in BOOLEAN, pc' \in Looping \cup {"watch", "close", "done"},
           pc' = "event" <=> pc = "event", pc = "done" => pc' = "done",
           Queued # <<>> => pc' \in {"parse", "handle", "event"}, buffer # <<>> => pc' = "parse"
    PROVE  WatchInv'
<1> USE DEF WatchInv, Accounted
<1>1. IsList(Queued)' /\ Queued' = Queued
  BY QueueKept DEF QueueInv, queueVars
<1>2. TypeOK'
  BY DEF TypeOK, mainVars, kernelVars, queueVars
<1>3. QueueInv'
  BY <1>1 DEF QueueInv, queueVars
<1>4. NoLeak'
  BY <1>1 DEF NoLeak, queueVars
<1>5. Outstanding' = Outstanding
  <2>1. Reports' = Reports
    BY <1>1 DEF Reports, queueVars
  <2>2. InHand' = InHand
    BY DEF InHand, queueVars
  <2>3. watches' = watches /\ kqueue' = kqueue /\ buffer' = buffer
    BY DEF kernelVars
  <2> QED BY <2>1, <2>2, <2>3, Parts, PartsNext
<1>6. CountInv' /\ CountExact'
  BY <1>5 DEF CountInv, CountExact, Distinct, mainVars, kernelVars
<1> QED BY <1>2, <1>3, <1>4, <1>6

LEMMA PcStepsKeep ==
    ASSUME WatchInv,
           Started \/ Check \/ event_check \/ ReadFails \/ Parsed \/ AllHandled \/ signal_handler
    PROVE  WatchInv'
<1>1. /\ UNCHANGED <<mainVars, watched_items, buffer, event, present, kernelVars, queueVars>>
      /\ pc # "done" /\ (pc' = "event" <=> pc = "event")
      /\ pc' \in Looping \cup {"watch", "close", "done"}
  BY DEF Started, Check, event_check, ReadFails, Parsed, AllHandled, signal_handler, WatchInv, Accounted, TypeOK, Looping
<1>2. keep_running' \in BOOLEAN
  <2>1. keep_running \in BOOLEAN
    BY DEF WatchInv, Accounted, TypeOK
  <2>2. keep_running' = keep_running \/ keep_running' = FALSE
    BY DEF Started, Check, event_check, ReadFails, Parsed, AllHandled, signal_handler
  <2> QED BY <2>1, <2>2, Zenon
<1>3. Queued # <<>> => pc' \in {"parse", "handle", "event"}
  <2>1. Queued # <<>> => pc \in {"parse", "handle", "event"} /\ head # NULL
    BY EntryAssumption DEF WatchInv, QueueInv, IsList
  <2> QED BY <2>1 DEF Started, Check, event_check, ReadFails, Parsed, AllHandled, signal_handler, queue_empty
<1>4. buffer # <<>> => pc' = "parse"
  <2>1. buffer # <<>> => pc = "parse"
    BY DEF WatchInv, QueueInv
  <2> QED BY <2>1 DEF Started, Check, event_check, ReadFails, Parsed, AllHandled, signal_handler
<1> QED BY <1>1, <1>2, <1>3, <1>4, PcMoves

\* An item is watched, or watched again, and counted.
LEMMA WatchDirKeeps == ASSUME WatchInv, watch_dir PROVE WatchInv'
<1> USE DEF WatchInv, Accounted
<1>1. /\ pc = "watch" /\ index <= Len(argv) /\ index' = index + 1
      /\ UNCHANGED <<argv, pc, keep_running, buffer, event, present, kqueue, lost, queueVars>>
  BY DEF watch_dir
<1>2. /\ argv \in Seq(Item) /\ Len(argv) \in Nat /\ index \in 1..Len(argv) /\ index' \in 1..Len(argv) + 1
      /\ watched_items \in Nat
  BY <1>1, Parts DEF TypeOK
<1>3. \/ /\ argv[index] \in present /\ watches' = watches \cup {argv[index]} /\ wd' = "positive"
         /\ watched_items' = watched_items + 1
      \/ wd' = "failed" /\ UNCHANGED <<watches, watched_items>>
  BY DEF watch_dir
<1>4. IsList(Queued)' /\ Queued' = Queued
  BY <1>1, QueueKept DEF QueueInv, queueVars
<1>5. watched_items' < index' /\ watched_items' \in 0..Len(argv)
  BY <1>1, <1>2, <1>3 DEF CountInv
<1>6. TypeOK'
  BY <1>1, <1>2, <1>3, <1>5 DEF TypeOK, queueVars
<1>7. QueueInv'
  BY <1>1, <1>4 DEF QueueInv, queueVars
<1>8. NoLeak'
  BY <1>1, <1>4 DEF NoLeak, queueVars
<1>9. watches' \subseteq {argv'[i] : i \in 1..(index' - 1)}
  <2>1. watches \subseteq {argv[i] : i \in 1..(index - 1)}
    BY DEF CountInv
  <2>2. 1..(index - 1) \subseteq 1..index /\ index \in 1..index /\ index' - 1 = index
    BY <1>1, <1>2
  <2> QED BY <1>1, <1>3, <2>1, <2>2
<1>10. Outstanding' = (Outstanding - Cardinality(watches)) + Cardinality(watches')
       /\ Cardinality(watches) \in Nat /\ Cardinality(watches') \in Nat /\ Outstanding \in Nat
  <2>1. Reports' = Reports
    BY <1>1, <1>4 DEF Reports, queueVars
  <2>2. InHand' = InHand
    BY <1>1 DEF InHand, queueVars
  <2>3. index \in Nat /\ watches' \in SUBSET {argv[i] : i \in 1..index}
    BY <1>1, <1>2, <1>9
  <2>4. Cardinality(watches') \in Nat
    BY <2>3, WatchesFinite
  <2>5. kqueue' = kqueue /\ buffer' = buffer
    BY <1>1
  <2>6. Outstanding' = Cardinality(watches') + Ignored(kqueue) + Ignored(buffer) + Ignored(Reports) + InHand
    BY <2>1, <2>2, <2>5, PartsNext
  <2>7. /\ Outstanding = Cardinality(watches) + Ignored(kqueue) + Ignored(buffer) + Ignored(Reports) + InHand
        /\ Cardinality(watches) \in Nat /\ Ignored(kqueue) \in Nat /\ Ignored(buffer) \in Nat
        /\ Ignored(Reports) \in Nat /\ InHand \in Nat
    BY Parts
  <2> QED BY <2>4, <2>6, <2>7
<1>11. CASE watches' = watches \cup {argv[index]} /\ watched_items' = watched_items + 1
  <2>1. Cardinality(watches') = IF argv[index] \in watches THEN Cardinality(watches) ELSE Cardinality(watches) + 1
    BY <1>11, Parts, FS_AddElement
  <2>2. CountInv'
    <3>1. watched_items >= Outstanding
      BY <1>1 DEF CountInv
    <3>2. watched_items' >= Outstanding'
      BY <1>2, <1>10, <1>11, <2>1, <3>1
    <3> QED BY <1>5, <1>9, <3>2 DEF CountInv
  <2>3. Distinct => argv[index] \notin watches
    <3> SUFFICES ASSUME Distinct, argv[index] \in watches PROVE FALSE
      OBVIOUS
    <3>1. PICK i \in 1..(index - 1) : argv[index] = argv[i]
      BY DEF CountInv
    <3>2. i \in 1..Len(argv) /\ i # index
      BY <1>2, <3>1
    <3> QED BY <1>2, <3>1, <3>2 DEF Distinct
  <2>4. CountExact'
    BY <1>1, <1>2, <1>10, <1>11, <2>1, <2>3 DEF CountExact, Distinct
  <2> QED BY <1>6, <1>7, <1>8, <2>2, <2>4
<1>12. CASE UNCHANGED <<watches, watched_items>>
  <2>1. Outstanding' = Outstanding
    BY <1>10, <1>12
  <2>2. CountInv' /\ CountExact'
    BY <1>1, <1>5, <1>9, <1>12, <2>1 DEF CountInv, CountExact, Distinct
  <2> QED BY <1>6, <1>7, <1>8, <2>2
<1> QED BY <1>3, <1>11, <1>12

\* Events move from the queue of the kernel to the buffer.
LEMMA ReadKeeps == ASSUME WatchInv, Read PROVE WatchInv'
<1> USE DEF WatchInv, Accounted
<1> DEFINE n == IF Len(kqueue) < ReadMax THEN Len(kqueue) ELSE ReadMax
<1>1. /\ pc = "read" /\ pc' = "parse"
      /\ buffer' = SubSeq(kqueue, 1, n) /\ kqueue' = SubSeq(kqueue, n + 1, Len(kqueue))
      /\ UNCHANGED <<mainVars, keep_running, watched_items, event, present, watches, lost, queueVars>>
  BY DEF Read
<1>2. kqueue \in Seq(Event) /\ Len(kqueue) \in Nat /\ Len(kqueue) <= QueueMax + 1 /\ ReadMax \in Nat /\ QueueMax \in Nat
  BY BoundAssumption, FS_CardinalityType, EntryAssumption DEF TypeOK
<1>3. n \in 0..Len(kqueue) /\ n <= ReadMax
  BY <1>2
<1> HIDE DEF n
<1>4. /\ buffer' \in Seq(Event) /\ kqueue' \in Seq(Event) /\ Len(buffer') = n /\ Len(kqueue') = Len(kqueue) - n
      /\ Ignored(kqueue) = Ignored(buffer') + Ignored(kqueue')
  BY <1>1, <1>2, <1>3, IgnoredSplit
<1>5. IsList(Queued)' /\ Queued' = Queued
  BY <1>1, QueueKept DEF QueueInv, queueVars
<1>6. Len(kqueue') <= QueueMax + 1 /\ Len(buffer') <= ReadMax
  BY <1>2, <1>3, <1>4
<1>7. TypeOK'
  BY <1>1, <1>4, <1>6 DEF TypeOK, Looping, mainVars, queueVars
<1>8. QueueInv'
  BY <1>1, <1>5 DEF QueueInv, queueVars
<1>9. NoLeak'
  BY <1>1, <1>5 DEF NoLeak, queueVars
<1>10. Outstanding' = Outstanding
  <2>1. Reports' = Reports
    BY <1>1, <1>5 DEF Reports, queueVars
  <2>2. InHand' = 0 /\ InHand = 0
    BY <1>1 DEF InHand
  <2>3. buffer = <<>> /\ Ignored(buffer) = 0
    BY <1>1, IgnoredEmpty DEF QueueInv
  <2>4. Ignored(buffer') \in Nat /\ Ignored(kqueue') \in Nat
    BY <1>4, IgnoredType
  <2>5. watches' = watches
    BY <1>1
  <2>6. Outstanding = Cardinality(watches) + Ignored(kqueue) + Ignored(buffer) + Ignored(Reports) + InHand
    BY Parts
  <2>7. Cardinality(watches) \in Nat /\ Ignored(kqueue) \in Nat /\ Ignored(Reports) \in Nat
    BY Parts
  <2> QED BY <1>4, <2>1, <2>2, <2>3, <2>4, <2>5, <2>6, <2>7, PartsNext
<1>11. CountInv' /\ CountExact'
  BY <1>1, <1>10 DEF CountInv, CountExact, Distinct, mainVars
<1> QED BY <1>7, <1>8, <1>9, <1>11


\* What parsing an event does to the queue.
LEMMA ParseEffect ==
    ASSUME WatchInv, Parse
    PROVE  \E d \in Entry \ allocated :
              /\ allocated' = allocated \cup {d} /\ inot_ev' = [inot_ev EXCEPT ![d] = Head(buffer)]
              /\ IsList(Queued)' /\ Queued' = Append(Queued, d) /\ next_ptr' \in [Entry -> Entry \cup {NULL}]
              /\ Reports' = Append(Reports, Head(buffer)) /\ Head(buffer) \in Event
              /\ head' \in Entry \cup {NULL} /\ tail' \in Entry \cup {NULL}
              /\ inot_ev' \in [Entry -> Event] /\ \A i \in 1..Len(Queued) : Queued[i] # d
<1> USE DEF WatchInv, Accounted
<1>1. buffer \in Seq(Event) /\ buffer # <<>> /\ Head(buffer) \in Event
  BY DEF Parse, TypeOK
<1>2. PICK d \in Entry \ allocated :
          /\ allocated' = allocated \cup {d}
          /\ inot_ev' = [inot_ev EXCEPT ![d] = Head(buffer)]
          /\ queue_enqueue(d)
  BY DEF Parse
<1>3. \A i \in 1..Len(Queued) : Queued[i] \in allocated /\ Queued[i] # d
  BY <1>2 DEF NoLeak
<1>4. IsList(Queued)' /\ Queued' = Append(Queued, d) /\ next_ptr' \in [Entry -> Entry \cup {NULL}]
  BY <1>2, <1>3, Enqueued DEF QueueInv
<1>5. inot_ev' \in [Entry -> Event] /\ inot_ev'[d] = Head(buffer)
      /\ \A e \in Entry : e # d => inot_ev'[e] = inot_ev[e]
  BY <1>1, <1>2 DEF QueueInv
<1>6. Queued \in Seq(Entry) /\ Len(Queued) \in Nat
  BY DEF QueueInv, IsList
<1>7. Reports' = Append(Reports, Head(buffer))
  <2>1. Reports \in Seq(Event) /\ Len(Reports) = Len(Queued)
    BY Parts
  <2>2. Reports' \in Seq(Event) /\ Len(Reports') = Len(Queued')
    <3>1. (IsList(Queued) /\ inot_ev \in [Entry -> Event] => Reports \in Seq(Event) /\ Len(Reports) = Len(Queued))'
      BY ReportsType, PTL
    <3> QED BY <1>4, <1>5, <3>1
  <2>3. Len(Queued') = Len(Queued) + 1 /\ Queued'[Len(Queued) + 1] = d
        /\ \A i \in 1..Len(Queued) : Queued'[i] = Queued[i]
    BY <1>4, <1>6
  <2>4. \A i \in 1..Len(Queued') : Reports'[i] = inot_ev'[Queued'[i]]
    BY DEF Reports
  <2>5. \A i \in 1..Len(Queued) : Reports[i] = inot_ev[Queued[i]]
    BY DEF Reports
  <2>6. \A i \in 1..Len(Queued) : inot_ev'[Queued[i]] = inot_ev[Queued[i]]
    BY <1>3, <1>5, <1>6
  <2>7. Append(Reports, Head(buffer)) \in Seq(Event) /\ Len(Append(Reports, Head(buffer))) = Len(Queued) + 1
        /\ Append(Reports, Head(buffer))[Len(Queued) + 1] = Head(buffer)
        /\ \A i \in 1..Len(Queued) : Append(Reports, Head(buffer))[i] = Reports[i]
    BY <1>1, <2>1, AppendProperties
  <2>8. \A i \in 1..Len(Reports') : Reports'[i] = Append(Reports, Head(buffer))[i]
    BY <1>5, <1>6, <2>2, <2>3, <2>4, <2>5, <2>6, <2>7
  <2> QED BY <2>2, <2>3, <2>7, <2>8, SeqEqual
<1>8. head' \in Entry \cup {NULL} /\ tail' \in Entry \cup {NULL}
  BY <1>2 DEF queue_enqueue, TypeOK
<1> QED BY <1>1, <1>2, <1>3, <1>4, <1>5, <1>7, <1>8

LEMMA ParseKeeps == ASSUME WatchInv, Parse PROVE WatchInv'
<1> USE DEF WatchInv, Accounted
<1>1. /\ pc = "parse" /\ buffer # <<>> /\ buffer' = Tail(buffer)
      /\ UNCHANGED <<mainVars, pc, keep_running, watched_items, event, present, kernelVars>>
  BY DEF Parse
<1>2. PICK d \in Entry \ allocated :
              /\ allocated' = allocated \cup {d} /\ inot_ev' = [inot_ev EXCEPT ![d] = Head(buffer)]
              /\ IsList(Queued)' /\ Queued' = Append(Queued, d) /\ next_ptr' \in [Entry -> Entry \cup {NULL}]
              /\ Reports' = Append(Reports, Head(buffer)) /\ Head(buffer) \in Event
              /\ head' \in Entry \cup {NULL} /\ tail' \in Entry \cup {NULL}
              /\ inot_ev' \in [Entry -> Event] /\ \A i \in 1..Len(Queued) : Queued[i] # d
  BY ParseEffect
<1>3. buffer \in Seq(Event) /\ buffer' \in Seq(Event) /\ Len(buffer') <= ReadMax
  BY <1>1, BoundAssumption DEF TypeOK
<1>4. event = NULL
  BY <1>1 DEF QueueInv
<1>5. TypeOK'
  BY <1>1, <1>2, <1>3 DEF TypeOK, mainVars, kernelVars
<1>6. QueueInv'
  <2>1. \A i \in 1..Len(Queued') : Queued'[i] # NULL
    BY <1>2, EntryAssumption DEF IsList
  <2> QED BY <1>1, <1>2, <1>4, <2>1 DEF QueueInv
<1>7. NoLeak'
  <2>1. Queued \in Seq(Entry) /\ Len(Queued) \in Nat
    BY DEF QueueInv, IsList
  <2>2. {Queued'[i] : i \in 1..Len(Queued')} = {Queued[i] : i \in 1..Len(Queued)} \cup {d}
    <3>1. Len(Queued') = Len(Queued) + 1 /\ Queued'[Len(Queued) + 1] = d
          /\ \A i \in 1..Len(Queued) : Queued'[i] = Queued[i]
      BY <1>2, <2>1
    <3>2. 1..Len(Queued') = (1..Len(Queued)) \cup {Len(Queued) + 1}
      BY <2>1, <3>1
    <3> QED BY <3>1, <3>2
  <2> QED BY <1>1, <1>2, <2>2 DEF NoLeak
<1>8. Outstanding' = Outstanding
  <2>1. Ignored(Reports') = Ignored(Reports) + One(Head(buffer))
    BY <1>2, IgnoredAppend, Parts
  <2>2. Ignored(buffer) = One(Head(buffer)) + Ignored(buffer')
    BY <1>1, <1>3, IgnoredHead
  <2>3. InHand' = 0 /\ InHand = 0
    BY <1>1 DEF InHand
  <2>4. Ignored(buffer') \in Nat /\ One(Head(buffer)) \in Nat
    BY <1>3, IgnoredType DEF One
  <2>5. watches' = watches /\ kqueue' = kqueue
    BY <1>1 DEF kernelVars
  <2> QED BY <2>1, <2>2, <2>3, <2>4, <2>5, Parts, PartsNext
<1>9. CountInv' /\ CountExact'
  BY <1>1, <1>8 DEF CountInv, CountExact, Distinct, mainVars, kernelVars
<1> QED BY <1>5, <1>6, <1>7, <1>9

\* What taking the first entry does to the queue.
LEMMA DequeueEffect ==
    ASSUME WatchInv, Dequeue
    PROVE  /\ IsList(Queued)' /\ Queued # <<>> /\ Queued' = Tail(Queued) /\ event' = Head(Queued)
           /\ event' \in Entry /\ \A i \in 1..Len(Queued') : Queued'[i] # event'
           /\ next_ptr' \in [Entry -> Entry \cup {NULL}]
           /\ Reports # <<>> /\ Reports' = Tail(Reports) /\ inot_ev'[event'] = Head(Reports)
<1> USE DEF WatchInv, Accounted
<1>1. event' = head /\ queue_dequeue /\ head # NULL /\ UNCHANGED <<inot_ev, allocated>>
  BY DEF Dequeue, queue_empty
<1>2. /\ IsList(Queued)' /\ Queued # <<>> /\ Queued' = Tail(Queued) /\ event' = Head(Queued)
      /\ event' \in Entry /\ \A i \in 1..Len(Queued') : Queued'[i] # event'
      /\ next_ptr' \in [Entry -> Entry \cup {NULL}]
  BY <1>1, Dequeued DEF QueueInv
<1>3. Queued \in Seq(Entry) /\ Len(Queued) \in Nat /\ Len(Queued) # 0
  BY <1>2 DEF QueueInv, IsList
<1>4. Reports \in Seq(Event) /\ Len(Reports) = Len(Queued) /\ Reports # <<>>
  BY <1>3, Parts
<1>5. Reports' \in Seq(Event) /\ Len(Reports') = Len(Queued')
  <2>1. (IsList(Queued) /\ inot_ev \in [Entry -> Event] => Reports \in Seq(Event) /\ Len(Reports) = Len(Queued))'
    BY ReportsType, PTL
  <2>2. inot_ev' \in [Entry -> Event]
    BY <1>1 DEF QueueInv
  <2> QED BY <1>2, <2>1, <2>2
<1>6. Len(Queued') = Len(Queued) - 1 /\ \A i \in 1..Len(Queued') : Queued'[i] = Queued[i + 1]
  BY <1>2, <1>3
<1>7. \A i \in 1..Len(Queued) : Reports[i] = inot_ev[Queued[i]]
  BY DEF Reports
<1>8. \A i \in 1..Len(Queued') : Reports'[i] = inot_ev[Queued'[i]]
  BY <1>1 DEF Reports
<1>9. Tail(Reports) \in Seq(Event) /\ Len(Tail(Reports)) = Len(Reports) - 1
      /\ \A i \in 1..Len(Tail(Reports)) : Tail(Reports)[i] = Reports[i + 1]
  BY <1>4, HeadTailProperties
<1>10. \A i \in 1..Len(Reports') : Reports'[i] = Tail(Reports)[i]
  BY <1>3, <1>4, <1>5, <1>6, <1>7, <1>8, <1>9
<1>11. Reports' = Tail(Reports)
  BY <1>4, <1>5, <1>6, <1>9, <1>10, SeqEqual
<1>12. Head(Reports) = inot_ev[Head(Queued)]
  BY <1>3, <1>4, <1>7
<1> QED BY <1>1, <1>2, <1>4, <1>11, <1>12

LEMMA DequeueKeeps == ASSUME WatchInv, Dequeue PROVE WatchInv'
<1> USE DEF WatchInv, Accounted
<1>1. /\ pc = "handle" /\ pc' = "event"
      /\ UNCHANGED <<mainVars, keep_running, watched_items, buffer, present, kernelVars, inot_ev, allocated>>
  BY DEF Dequeue
<1>2. /\ IsList(Queued)' /\ Queued # <<>> /\ Queued' = Tail(Queued) /\ event' = Head(Queued)
      /\ event' \in Entry /\ \A i \in 1..Len(Queued') : Queued'[i] # event'
      /\ next_ptr' \in [Entry -> Entry \cup {NULL}]
      /\ Reports # <<>> /\ Reports' = Tail(Reports) /\ inot_ev'[event'] = Head(Reports)
  BY DequeueEffect
<1>3. head' \in Entry \cup {NULL} /\ tail' \in Entry \cup {NULL}
  BY DEF Dequeue, queue_dequeue, queue_empty, TypeOK, QueueInv
<1>4. TypeOK'
  BY <1>1, <1>2, <1>3 DEF TypeOK, Looping, mainVars, kernelVars
<1>5. QueueInv'
  BY <1>1, <1>2, EntryAssumption DEF QueueInv
<1>6. NoLeak'
  <2>1. Queued \in Seq(Entry) /\ Len(Queued) \in Nat /\ Len(Queued) # 0
    BY <1>2 DEF QueueInv, IsList
  <2>2. Len(Queued') = Len(Queued) - 1 /\ Head(Queued) = Queued[1]
        /\ \A i \in 1..Len(Queued') : Queued'[i] = Queued[i + 1]
    BY <1>2, <2>1
  <2>3. ASSUME NEW d PROVE d \in {Queued[i] : i \in 1..Len(Queued)}
                           <=> d \in {Queued'[i] : i \in 1..Len(Queued')} \cup {event'}
    <3>1. ASSUME NEW i \in 1..Len(Queued) PROVE Queued[i] \in {Queued'[j] : j \in 1..Len(Queued')} \cup {event'}
      <4>1. CASE i = 1
        BY <1>2, <2>2, <4>1
      <4>2. CASE i # 1
        <5>1. i - 1 \in 1..Len(Queued') /\ (i - 1) + 1 = i
          BY <2>1, <2>2, <4>2
        <5>2. Queued'[i - 1] = Queued[i]
          BY <2>2, <5>1
        <5> QED BY <5>1, <5>2
      <4> QED BY <4>1, <4>2
    <3>2. ASSUME NEW j \in 1..Len(Queued') PROVE Queued'[j] \in {Queued[i] : i \in 1..Len(Queued)}
      <4>1. j + 1 \in 1..Len(Queued)
        BY <2>1, <2>2
      <4> QED BY <2>2, <4>1
    <3>3. event' \in {Queued[i] : i \in 1..Len(Queued)}
      <4>1. 1 \in 1..Len(Queued)
        BY <2>1
      <4> QED BY <1>2, <2>2, <4>1
    <3> QED BY <3>1, <3>2, <3>3
  <2>4. {Queued[i] : i \in 1..Len(Queued)} = {Queued'[i] : i \in 1..Len(Queued')} \cup {event'}
    BY <2>3
  <2> QED BY <1>1, <2>4 DEF NoLeak
<1>7. Outstanding' = Outstanding
  <2>1. Ignored(Reports) = One(Head(Reports)) + Ignored(Reports')
    BY <1>2, IgnoredHead, Parts
  <2>2. InHand' = One(Head(Reports)) /\ InHand = 0
    BY <1>1, <1>2 DEF InHand, One
  <2>3. Reports' \in Seq(Event)
    BY <1>2, Parts
  <2>4. Ignored(Reports') \in Nat /\ One(Head(Reports)) \in Nat
    BY <2>3, IgnoredType DEF One
  <2>5. watches' = watches /\ kqueue' = kqueue /\ buffer' = buffer
    BY <1>1 DEF kernelVars
  <2> QED BY <2>1, <2>2, <2>4, <2>5, Parts, PartsNext
<1>8. CountInv' /\ CountExact'
  BY <1>1, <1>7 DEF CountInv, CountExact, Distinct, mainVars, kernelVars
<1> QED BY <1>4, <1>5, <1>6, <1>8


\* handle_event() and the free() behind it.
LEMMA HandleKeeps == ASSUME WatchInv, handle_event PROVE WatchInv'
<1> USE DEF WatchInv, Accounted
<1>1. /\ pc = "event" /\ pc' = "handle" /\ event' = NULL /\ allocated' = allocated \ {event}
      /\ watched_items' = watched_items - (IF inot_ev[event].mask = "ignored" THEN 1 ELSE 0)
      /\ UNCHANGED <<mainVars, keep_running, buffer, present, kernelVars, head, tail, next_ptr, inot_ev>>
  BY DEF handle_event
<1>2. IsList(Queued)' /\ Queued' = Queued
  BY <1>1, QueueKept DEF QueueInv
<1>3. InHand = (IF inot_ev[event].mask = "ignored" THEN 1 ELSE 0) /\ InHand' = 0 /\ InHand \in {0, 1}
  BY <1>1 DEF InHand, One
<1>4. Outstanding' = Outstanding - InHand /\ Outstanding \in Nat /\ Outstanding >= InHand
  <2>1. Reports' = Reports
    BY <1>1, <1>2 DEF Reports
  <2>2. watches' = watches /\ kqueue' = kqueue /\ buffer' = buffer
    BY <1>1 DEF kernelVars
  <2> QED BY <1>3, <2>1, <2>2, Parts, PartsNext
<1>5. watched_items' = watched_items - InHand /\ watched_items >= Outstanding /\ watched_items \in Nat
  BY <1>1, <1>3, Parts DEF CountInv
<1>6. watched_items' \in 0..Len(argv) /\ watched_items' < index
  BY <1>3, <1>4, <1>5, Parts DEF TypeOK, CountInv
<1>7. TypeOK'
  BY <1>1, <1>6 DEF TypeOK, Looping, mainVars, kernelVars
<1>8. QueueInv'
  <2>1. \A i \in 1..Len(Queued) : Queued[i] # NULL
    BY EntryAssumption DEF QueueInv, IsList
  <2> QED BY <1>1, <1>2, <2>1 DEF QueueInv
<1>9. NoLeak'
  BY <1>1, <1>2 DEF NoLeak, QueueInv
<1>10. CountInv'
  BY <1>1, <1>3, <1>4, <1>5, <1>6 DEF CountInv, mainVars, kernelVars
<1>11. CountExact'
  BY <1>1, <1>3, <1>4, <1>5 DEF CountExact, Distinct, mainVars, kernelVars
<1> QED BY <1>7, <1>8, <1>9, <1>10, <1>11

LEMMA CloseFdKeeps == ASSUME WatchInv, close_inotify_fd PROVE WatchInv' /\ Queued = <<>> /\ Queued' = <<>>
<1> USE DEF WatchInv, Accounted
<1>1. /\ pc = "close" /\ pc' = "done" /\ watches' = {} /\ kqueue' = <<>> /\ watched_items' = 0
      /\ UNCHANGED <<mainVars, keep_running, buffer, event, present, lost, inot_ev>>
      /\ queue_destroy
  BY DEF close_inotify_fd
<1>2. Queued = <<>> /\ event = NULL
  BY <1>1 DEF QueueInv
<1>3. allocated = {}
  BY <1>1, <1>2 DEF NoLeak
<1>4. allocated' = {} /\ head' = NULL /\ tail' = NULL /\ next_ptr' \in [Entry -> Entry \cup {NULL}]
  BY <1>1, <1>3 DEF queue_destroy, QueueInv
<1>5. Queued' = <<>>
  <2>1. IsList(<<>>)'
    BY <1>4 DEF IsList
  <2> QED BY <2>1, TheListNext
<1>6. IsList(Queued)'
  BY <1>4, <1>5 DEF IsList
<1>7. TypeOK'
  BY <1>1, <1>4, BoundAssumption, Parts DEF TypeOK, mainVars
<1>8. QueueInv'
  BY <1>1, <1>2, <1>4, <1>5, <1>6 DEF QueueInv
<1>9. NoLeak'
  BY <1>1, <1>4, <1>5 DEF NoLeak
<1>10. CountInv' /\ CountExact'
  BY <1>1, Parts DEF CountInv, CountExact, mainVars, TypeOK
<1> QED BY <1>2, <1>5, <1>7, <1>8, <1>9, <1>10

\* A step of the file system: the watches, the queue of the kernel and lost may change.
LEMMA KernelStep ==
    ASSUME WatchInv,
           UNCHANGED <<mainVars, pc, keep_running, watched_items, buffer, event, queueVars>>,
           watches' \in SUBSET watches, watches' \in SUBSET present', present' \in SUBSET Item,
           kqueue' \in Seq(Event), Len(kqueue') <= QueueMax + 1, ~lost' => ~lost,
           Cardinality(watches') + Ignored(kqueue') <= Cardinality(watches) + Ignored(kqueue),
           ~lost' /\ pc # "done" =>
               Cardinality(watches') + Ignored(kqueue') = Cardinality(watches) + Ignored(kqueue)
    PROVE  WatchInv'
<1> USE DEF WatchInv, Accounted
<1>1. IsList(Queued)' /\ Queued' = Queued
  BY QueueKept DEF QueueInv, queueVars
<1>2. TypeOK'
  BY DEF TypeOK, mainVars, queueVars
<1>3. QueueInv'
  BY <1>1 DEF QueueInv, queueVars
<1>4. NoLeak'
  BY <1>1 DEF NoLeak, queueVars
<1>5. Reports' = Reports /\ InHand' = InHand
  BY <1>1 DEF Reports, InHand, queueVars
<1>6. Cardinality(watches') \in Nat /\ Ignored(kqueue') \in Nat
  BY IgnoredType, Parts, FS_Subset, FS_CardinalityType
<1>61. Outstanding' = (Cardinality(watches') + Ignored(kqueue')) + Ignored(buffer) + Ignored(Reports) + InHand
  BY <1>5, PartsNext
<1>62. /\ Outstanding = (Cardinality(watches) + Ignored(kqueue)) + Ignored(buffer) + Ignored(Reports) + InHand
      /\ Ignored(buffer) \in Nat /\ Ignored(Reports) \in Nat /\ InHand \in Nat
      /\ Cardinality(watches) \in Nat /\ Ignored(kqueue) \in Nat
  BY Parts
<1>7. Outstanding' <= Outstanding
  BY <1>6, <1>61, <1>62, SMTT(30)
<1>8. ~lost' /\ pc # "done" => Outstanding' = Outstanding
  BY <1>61, <1>62
<1>9. Outstanding \in Nat /\ Outstanding' \in Nat
  BY <1>6, <1>61, <1>62, SMTT(30)
<1>10. CountInv'
  <2>1. watches \subseteq {argv[i] : i \in 1..(index - 1)} /\ watched_items < index
        /\ (pc # "done" => watched_items >= Outstanding)
    BY DEF CountInv
  <2>2. pc # "done" => watched_items >= Outstanding'
    BY <1>7, <1>9, <2>1, Parts
  <2> QED BY <2>1, <2>2 DEF CountInv, mainVars
<1>11. CountExact'
  BY <1>8 DEF CountExact, Distinct, mainVars
<1> QED BY <1>2, <1>3, <1>4, <1>10, <1>11

LEMMA HappenKeeps == ASSUME WatchInv, NEW i \in Item, Happen(i) PROVE WatchInv'
<1> USE DEF WatchInv, Accounted
<1>1. /\ kqueue' = Push(kqueue, Ev("other", i)) /\ lost' = (lost \/ Len(kqueue) >= QueueMax)
      /\ UNCHANGED <<mainVars, pc, keep_running, watched_items, buffer, event, present, watches, queueVars>>
  BY DEF Happen
<1>2. kqueue \in Seq(Event) /\ Len(kqueue) <= QueueMax + 1 /\ watches \in SUBSET present /\ present \in SUBSET Item
  BY DEF TypeOK
<1>3. Ev("other", i) \in Event /\ One(Ev("other", i)) = 0
  BY EventType
<1>4. /\ kqueue' \in Seq(Event) /\ Len(kqueue') <= QueueMax + 1
      /\ Ignored(kqueue) <= Ignored(kqueue') /\ Ignored(kqueue') <= Ignored(kqueue) + One(Ev("other", i))
  BY <1>1, <1>2, <1>3, Pushed
<1>5. Ignored(kqueue') = Ignored(kqueue)
  <2>1. Ignored(kqueue') \in Nat /\ Ignored(kqueue) \in Nat
    BY <1>2, <1>4, IgnoredType
  <2> QED BY <1>3, <1>4, <2>1
<1>6. ~lost' => ~lost
  BY <1>1
<1>7. Cardinality(watches') + Ignored(kqueue') = Cardinality(watches) + Ignored(kqueue)
      /\ Cardinality(watches') + Ignored(kqueue') <= Cardinality(watches) + Ignored(kqueue)
  BY <1>1, <1>5, Parts
<1> QED BY <1>1, <1>2, <1>4, <1>6, <1>7, KernelStep

LEMMA VanishKeeps == ASSUME WatchInv, NEW i \in Item, Vanish(i) PROVE WatchInv'
<1> USE DEF WatchInv, Accounted
<1>1. /\ present' = present \ {i} /\ watches' = watches \ {i}
      /\ UNCHANGED <<mainVars, pc, keep_running, watched_items, buffer, event, queueVars>>
  BY DEF Vanish
<1>2. kqueue \in Seq(Event) /\ Len(kqueue) <= QueueMax + 1 /\ watches \in SUBSET present /\ present \in SUBSET Item
      /\ Len(kqueue) \in Nat
  BY DEF TypeOK
<1>3. watches' \in SUBSET watches /\ watches' \in SUBSET present' /\ present' \in SUBSET Item
  BY <1>1, <1>2
<1>4. CASE i \in watches
  <2> DEFINE e == Ev("self", i)
             f == Ev("ignored", i)
             q == Push(kqueue, e)
  <2>1. kqueue' = Push(q, f) /\ lost' = (lost \/ Len(kqueue) + 1 >= QueueMax)
    BY <1>4 DEF Vanish
  <2>2. e \in Event /\ f \in Event /\ One(e) = 0 /\ One(f) = 1 /\ QueueMax \in Nat
    BY EventType, BoundAssumption
  <2> HIDE DEF e, f
  <2>3. /\ q \in Seq(Event) /\ Len(q) <= QueueMax + 1 /\ Ignored(q) <= Ignored(kqueue) + One(e)
        /\ Len(kqueue) < QueueMax => Len(q) = Len(kqueue) + 1 /\ Ignored(q) = Ignored(kqueue) + One(e)
    BY <1>2, <2>2, Pushed
  <2> HIDE DEF q
  <2>4. /\ kqueue' \in Seq(Event) /\ Len(kqueue') <= QueueMax + 1 /\ Ignored(kqueue') <= Ignored(q) + One(f)
        /\ Len(q) < QueueMax => Ignored(kqueue') = Ignored(q) + One(f)
    BY <2>1, <2>2, <2>3, Pushed
  <2>5. Ignored(kqueue) \in Nat /\ Ignored(q) \in Nat /\ Ignored(kqueue') \in Nat
    BY <1>2, <2>3, <2>4, IgnoredType
  <2>6. Cardinality(watches) \in Nat /\ Cardinality(watches') = Cardinality(watches) - 1
    BY <1>1, <1>4, Parts, FS_RemoveElement
  <2>7. Cardinality(watches') + Ignored(kqueue') <= Cardinality(watches) + Ignored(kqueue)
    BY <2>2, <2>3, <2>4, <2>5, <2>6
  <2>8. ASSUME ~lost' PROVE ~lost /\ Cardinality(watches') + Ignored(kqueue') = Cardinality(watches) + Ignored(kqueue)
    <3>1. ~lost /\ Len(kqueue) + 1 < QueueMax
      <4>1. ~lost /\ ~(Len(kqueue) + 1 >= QueueMax)
        BY <2>1, <2>8, Zenon
      <4> QED BY <1>2, <2>2, <4>1
    <3> QED BY <1>2, <2>2, <2>3, <2>4, <2>5, <2>6, <3>1
  <2> QED BY <1>1, <1>3, <2>4, <2>7, <2>8, KernelStep
<1>5. CASE i \notin watches
  <2>1. UNCHANGED <<kqueue, lost>> /\ watches' = watches
    BY <1>1, <1>5 DEF Vanish
  <2>2. Cardinality(watches') + Ignored(kqueue') <= Cardinality(watches) + Ignored(kqueue)
    BY <2>1, Parts
  <2> QED BY <1>1, <1>2, <1>3, <2>1, <2>2, KernelStep
<1> QED BY <1>4, <1>5

LEMMA WatchStep == WatchInv /\ [Next]_vars => WatchInv'
<1> SUFFICES ASSUME WatchInv, [Next]_vars PROVE WatchInv'
  OBVIOUS
<1>1. CASE UNCHANGED vars
  <2>1. UNCHANGED <<mainVars, watched_items, buffer, event, present, kernelVars, queueVars>> /\ UNCHANGED <<pc, keep_running>>
    BY <1>1 DEF vars
  <2> QED BY <2>1, PcMoves DEF WatchInv, Accounted, TypeOK, QueueInv
<1>2. CASE Step
  BY <1>2, PcStepsKeep, WatchDirKeeps, ReadKeeps, ParseKeeps, DequeueKeeps, HandleKeeps, CloseFdKeeps DEF Step
<1>3. CASE ReadFails \/ signal_handler
  BY <1>3, PcStepsKeep
<1>4. ASSUME NEW i \in Item, Happen(i) \/ Vanish(i) PROVE WatchInv'
  BY <1>4, HappenKeeps, VanishKeeps
<1> QED BY <1>1, <1>2, <1>3, <1>4 DEF Next

-------------------------------------------------------------------------------
(* The theorems.                                                             *)

\* The inductive invariant: the memory of the queue holds one list, which is empty outside
\* the loop that fills and empties it, and watched_items is at least the number of the
\* watches and of the reports on their way that a watch is gone.
THEOREM WatchInductive == Spec => []WatchInv
<1> QED BY WatchInitially, WatchStep, PTL DEF Spec

\* The counter of the watches is exact while no event is lost and no item given twice, and
\* no entry leaks, for any command line and any sizes of the queues.
THEOREM WatchesAreAccounted == Spec => []Accounted
<1>1. WatchInv => Accounted
  BY DEF WatchInv
<1> QED BY <1>1, WatchInductive, PTL

\* process_inotify_events() does not end by itself while something is still watched,
\* whatever is lost and however often an item is given.
THEOREM LoopEndsLate == Spec => NoEarlyEnd
<1>1. WatchInv /\ [Next]_vars => [pc = "check" /\ pc' = "close" /\ keep_running => watches = {}]_vars
  <2> SUFFICES ASSUME WatchInv, Next, pc = "check", pc' = "close", keep_running PROVE watches = {}
    OBVIOUS
  <2>1. Check
    BY DEF Next, Step, watch_dir, Started, event_check, Read, ReadFails, Parse, Parsed, Dequeue, handle_event,
           AllHandled, close_inotify_fd, signal_handler, Happen, Vanish
  <2>2. ~(watched_items > 0)
    BY <2>1 DEF Check
  <2>3. watched_items >= Outstanding
    BY DEF WatchInv, CountInv
  <2>4. Cardinality(watches) = 0 /\ IsFiniteSet(watches)
    BY <2>2, <2>3, Parts
  <2> QED BY <2>4, FS_EmptySet
<1> QED BY <1>1, WatchInductive, PTL DEF Spec, NoEarlyEnd


\* A step of the program is a step of the queue, or leaves the queue alone.
LEMMA FifoStep ==
    WatchInv /\ [Next]_vars
        => [Fifo!Enqueue \/ Fifo!Dequeue \/ Fifo!Handle \/ Fifo!Destroy]_<<Reports, IF event = NULL THEN NULL ELSE inot_ev[event]>>
<1> DEFINE Out == IF event = NULL THEN NULL ELSE inot_ev[event]
<1> SUFFICES ASSUME WatchInv, [Next]_vars
             PROVE  \/ UNCHANGED <<Reports, Out>>
                    \/ Fifo!Enqueue \/ Fifo!Dequeue \/ Fifo!Handle \/ Fifo!Destroy
  OBVIOUS
<1>0. IsList(Queued) /\ (event # NULL <=> pc = "event") /\ inot_ev \in [Entry -> Event] /\ event \in Entry \cup {NULL}
  BY DEF WatchInv, QueueInv, Accounted, TypeOK
<1>1. CASE UNCHANGED <<head, tail, next_ptr, inot_ev, event>>
  <2>1. Queued' = Queued
    BY <1>0, <1>1, QueueKept
  <2> QED BY <1>1, <2>1 DEF Reports
<1>2. CASE Parse
  <2>1. event' = event /\ pc = "parse"
    BY <1>2 DEF Parse
  <2>2. PICK d : Reports' = Append(Reports, Head(buffer)) /\ Head(buffer) \in Event
    BY <1>2, ParseEffect
  <2>3. event = NULL
    BY <1>0, <2>1
  <2>4. Fifo!Enqueue
    BY <2>1, <2>2, <2>3 DEF Fifo!Enqueue
  <2> QED BY <2>4
<1>3. CASE Dequeue
  <2>1. Reports # <<>> /\ Reports' = Tail(Reports) /\ inot_ev'[event'] = Head(Reports) /\ event' \in Entry
    BY <1>3, DequeueEffect
  <2>2. event = NULL /\ event' # NULL
    BY <1>0, <1>3, <2>1, EntryAssumption DEF Dequeue
  <2>3. Fifo!Dequeue
    BY <2>1, <2>2 DEF Fifo!Dequeue
  <2> QED BY <2>3
<1>4. CASE handle_event
  <2>1. UNCHANGED <<head, tail, next_ptr, inot_ev>> /\ event' = NULL /\ pc = "event"
    BY <1>4 DEF handle_event
  <2>2. Queued' = Queued
    BY <1>0, <2>1, QueueKept
  <2>3. Reports' = Reports
    BY <2>1, <2>2 DEF Reports
  <2>4. event # NULL /\ inot_ev[event] # NULL
    BY <1>0, <2>1, EntryAssumption
  <2>5. Fifo!Handle
    BY <2>1, <2>3, <2>4 DEF Fifo!Handle
  <2> QED BY <2>5
<1>5. CASE close_inotify_fd
  <2>1. Queued' = <<>>
    BY <1>5, CloseFdKeeps
  <2>2. Reports' = <<>>
    BY <2>1 DEF Reports
  <2>3. event' = NULL
    BY <1>0, <1>5 DEF close_inotify_fd
  <2>4. Fifo!Destroy
    BY <2>2, <2>3 DEF Fifo!Destroy
  <2> QED BY <2>4
<1>6. UNCHANGED vars => UNCHANGED <<head, tail, next_ptr, inot_ev, event>>
  BY DEF vars, queueVars
<1>7. watch_dir \/ Started \/ Check \/ event_check \/ Read \/ Parsed \/ AllHandled \/ ReadFails \/ signal_handler
      => UNCHANGED <<head, tail, next_ptr, inot_ev, event>>
  BY DEF watch_dir, Started, Check, event_check, Read, Parsed, AllHandled, ReadFails, signal_handler, queueVars
<1>8. \A i \in Item : Happen(i) \/ Vanish(i) => UNCHANGED <<head, tail, next_ptr, inot_ev, event>>
  BY DEF Happen, Vanish, queueVars
<1> QED BY <1>1, <1>2, <1>3, <1>4, <1>5, <1>6, <1>7, <1>8 DEF Next, Step

\* The linked list of event_queue.c implements the queue of EventFifo: events are handled in
\* the order in which they are read, none twice and none passed over.
THEOREM EventsStayInOrder == Spec => InOrder
<1>1. Init => Fifo!Init
  <2> SUFFICES ASSUME Init PROVE Fifo!Init
    OBVIOUS
  <2>1. IsList(<<>>)
    BY DEF Init, queue_create, IsList
  <2>2. Queued = <<>>
    BY <2>1, TheList
  <2>3. Reports = <<>> /\ event = NULL
    BY <2>2 DEF Reports, Init
  <2> QED BY <2>3 DEF Fifo!Init
<1> QED BY <1>1, FifoStep, WatchInitially, WatchStep, PTL DEF Spec, InOrder, Fifo!Spec
===============================================================================
