--------------------------------- MODULE Heap ---------------------------------
(****************************************************************************)
(* The heaps of heap/bigheap.c and heap/smallheap.c, which keep the N         *)
(* smallest, or largest, of the numbers inserted.                             *)
(****************************************************************************)
EXTENDS Integers, Sequences
LOCAL INSTANCE SequencesExt

CONSTANTS
    Elem,          \* the numbers
    heapSize,
    MaxInserts     \* bound: numbers inserted

ASSUME HeapAssumption == Elem \subseteq Nat /\ heapSize \in Nat \ {0} /\ MaxInserts \in Nat

VARIABLES
    big,           \* the heap is that of bigheap.c
    array,         \* indexed from 0
    created,       \* MaxHeapCreat() or MinHeapCreat() has been called
    seen           \* history: all the numbers

heapVars == <<big, array, created, seen>>

Above(b, x, y) == IF b THEN x > y ELSE x < y

\* MaxHeapify() and MinHeapify(), up to the call for the child that was exchanged.
Exchanged(b, a, cur) ==
    LET left == 2 * cur + 1
        right == 2 * cur + 2
        l == IF left < heapSize /\ Above(b, a[left], a[cur]) THEN left ELSE cur
    IN  IF right < heapSize /\ Above(b, a[right], a[l]) THEN right ELSE l

RECURSIVE Heapify(_, _, _)
Heapify(b, a, cur) ==
    LET top == Exchanged(b, a, cur)
    IN  IF top = cur THEN a ELSE Heapify(b, [a EXCEPT ![cur] = a[top], ![top] = a[cur]], top)

MaxHeapify(a, cur) == Heapify(TRUE, a, cur)
MinHeapify(a, cur) == Heapify(FALSE, a, cur)

\* for (i = heapSize/2; i >= 0; i--)
Creat(b, a) ==
    FoldLeft(LAMBDA x, i : Heapify(b, x, heapSize \div 2 - i), a, [i \in 1..heapSize \div 2 + 1 |-> i - 1])

HeapInit ==
    /\ big \in BOOLEAN /\ array \in [0..heapSize - 1 -> Elem]
    /\ created = FALSE /\ seen = <<>>

Values == [i \in 1..heapSize |-> array[i - 1]]

MaxHeapCreat == big /\ ~created /\ created' = TRUE /\ array' = Creat(TRUE, array) /\ seen' = Values /\ UNCHANGED big
MinHeapCreat == ~big /\ ~created /\ created' = TRUE /\ array' = Creat(FALSE, array) /\ seen' = Values /\ UNCHANGED big

\* Mutant: the number is put in front and stays there.
MaxInsert_no_heapify(elem) ==
    /\ big /\ created /\ Len(seen) < heapSize + MaxInserts
    /\ array' = IF elem < array[0] THEN [array EXCEPT ![0] = elem] ELSE array
    /\ seen' = Append(seen, elem) /\ UNCHANGED <<big, created>>
MaxInsert(elem) ==
    /\ big /\ created /\ Len(seen) < heapSize + MaxInserts
    /\ array' = IF elem < array[0] THEN MaxHeapify([array EXCEPT ![0] = elem], 0) ELSE array
    /\ seen' = Append(seen, elem) /\ UNCHANGED <<big, created>>
MinInsert(elem) ==
    /\ ~big /\ created /\ Len(seen) < heapSize + MaxInserts
    /\ array' = IF elem > array[0] THEN MinHeapify([array EXCEPT ![0] = elem], 0) ELSE array
    /\ seen' = Append(seen, elem) /\ UNCHANGED <<big, created>>

HeapNext == MaxHeapCreat \/ MinHeapCreat \/ \E e \in Elem : MaxInsert(e) \/ MinInsert(e)
-------------------------------------------------------------------------------
(* Properties.                                                               *)

\* "maintain the low N numbers", "maintain the top N numbers": the array always holds
\* the N smallest, or largest, of all the numbers it began with and that were
\* inserted, with their repetitions.
KeepsExtremes ==
    created => LET s == SortSeq(seen, LAMBDA x, y : Above(~big, x, y))
               IN  SortSeq(Values, LAMBDA x, y : Above(~big, x, y)) = SubSeq(s, 1, heapSize)
===============================================================================
