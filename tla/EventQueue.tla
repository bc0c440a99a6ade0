------------------------------ MODULE EventQueue ------------------------------
(****************************************************************************)
(* inotify/event_queue.c: a queue of events, as a linked list with a head    *)
(* and a tail.  Entries are allocated and freed by the caller.               *)
(****************************************************************************)
EXTENDS Integers, Sequences, FiniteSets

CONSTANTS Entry,   \* addresses of queue entries
          NULL,
          Event    \* what an entry may hold

ASSUME EntryAssumption == NULL \notin Entry \cup Event /\ IsFiniteSet(Entry)

VARIABLES head, tail,   \* of struct queue_struct
          next_ptr,     \* of each entry
          inot_ev,      \* of each entry
          allocated     \* the entries that malloc() has given out

queueVars == <<head, tail, next_ptr, inot_ev, allocated>>

queue_create ==
    /\ head = NULL /\ tail = NULL
    /\ next_ptr = [d \in Entry |-> NULL]
    /\ \E e \in Event : inot_ev = [d \in Entry |-> e]
    /\ allocated = {}

queue_empty == head = NULL

\* Mutant: the tail is forgotten.
queue_enqueue_keeps_tail(d) ==
    LET cleared == [next_ptr EXCEPT ![d] = NULL] IN
    IF tail # NULL
    THEN next_ptr' = [cleared EXCEPT ![tail] = d] /\ UNCHANGED <<head, tail>>
    ELSE next_ptr' = cleared /\ head' = d /\ tail' = d

queue_enqueue(d) ==
    LET cleared == [next_ptr EXCEPT ![d] = NULL] IN
    IF tail # NULL
    THEN next_ptr' = [cleared EXCEPT ![tail] = d] /\ tail' = d /\ UNCHANGED head
    ELSE next_ptr' = cleared /\ head' = d /\ tail' = d

\* Mutant: the tail still names the last entry when that has been taken.
queue_dequeue_dangling ==
    /\ head # NULL
    /\ head' = next_ptr[head]
    /\ next_ptr' = [next_ptr EXCEPT ![head] = NULL]
    /\ UNCHANGED tail

queue_dequeue ==
    /\ head # NULL
    /\ head' = next_ptr[head]
    /\ tail' = IF next_ptr[head] = NULL THEN NULL ELSE tail
    /\ next_ptr' = [next_ptr EXCEPT ![head] = NULL]

\* The entry that n steps from the head come to, and the entries in the order of the list.
Nth[n \in 0..Cardinality(Entry)] ==
    IF n = 0 THEN head ELSE IF Nth[n - 1] = NULL THEN NULL ELSE next_ptr[Nth[n - 1]]
Queued == [i \in 1..Cardinality({n \in 0..Cardinality(Entry) : Nth[n] # NULL}) |-> Nth[i - 1]]

queue_destroy ==
    /\ allocated' = allocated \ {Queued[i] : i \in 1..Len(Queued)}
    /\ head' = NULL /\ tail' = NULL
    /\ next_ptr' = [d \in Entry |-> IF d \in {Queued[i] : i \in 1..Len(Queued)} THEN NULL ELSE next_ptr[d]]

\* The memory holds the list of the entries q: next_ptr leads from each to the next.
IsList(q) ==
    /\ q \in Seq(Entry) /\ \A i, j \in 1..Len(q) : q[i] = q[j] => i = j
    /\ head = IF q = <<>> THEN NULL ELSE q[1]
    /\ tail = IF q = <<>> THEN NULL ELSE q[Len(q)]
    /\ \A i \in 1..Len(q) : next_ptr[q[i]] = IF i = Len(q) THEN NULL ELSE q[i + 1]
===============================================================================
