------------------------------ MODULE EventFifo ------------------------------
(****************************************************************************)
(* What a queue promises: entries leave it in the order in which they       *)
(* entered.  EventQueue implements it with a linked list.                   *)
(****************************************************************************)
EXTENDS Sequences

CONSTANTS Event, Nothing

VARIABLES
    items,   \* the entries in the queue
    out      \* the entry that is being handled, or Nothing

Init == items = <<>> /\ out = Nothing

Enqueue == /\ \E e \in Event : items' = Append(items, e)
           /\ out' = out
Dequeue == /\ items # <<>> /\ out = Nothing
           /\ out' = Head(items)
           /\ items' = Tail(items)
Handle  == out # Nothing /\ out' = Nothing /\ items' = items
Destroy == items' = <<>> /\ out' = Nothing

Spec == Init /\ [][Enqueue \/ Dequeue \/ Handle \/ Destroy]_<<items, out>>
===============================================================================
