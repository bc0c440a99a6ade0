------------------------------- MODULE DirWatch -------------------------------
(****************************************************************************)
(* The directory watcher of inotify/: inotify_test.c, inotify_utils.c and the *)
(* event queue.  The kernel keeps the watches and a bounded queue of events; *)
(* the program counts what it watches and ends when nothing is left, or      *)
(* after SIGINT.                                                             *)
(****************************************************************************)
EXTENDS EventQueue

CONSTANTS
    Item,        \* files and directories
    ArgLists,    \* the command lines: sequences of items
    QueueMax,    \* events the kernel queues before it drops them
    ReadMax,     \* events that fit into the buffer of read_events()
    MaxEvents    \* bound on the events that change no watch

ASSUME BoundAssumption ==
    /\ QueueMax \in Nat \ {0} /\ ReadMax \in 1..Cardinality(Entry) /\ MaxEvents \in Nat
    /\ ArgLists \subseteq Seq(Item)
\* DELETE_SELF and UNMOUNT are "self", events that concern the contents "other".
ASSUME EventAssumption ==
    Event = [mask : {"other", "self", "ignored", "overflow"}, wd : Item \cup {NULL}]

VARIABLES
    argv, index, wd,   \* of main(); wd is "none" at first and "failed" for a negative value
    pc, keep_running, watched_items,
    buffer,            \* of read_events(): what has been read and not parsed
    event,             \* of handle_events()
    \* The environment.
    present,           \* the items that exist
    watches,           \* what the kernel watches
    kqueue,            \* the events it has queued
    happened, lost       \* history: events so far, whether one was dropped

mainVars == <<argv, index, wd>>
kernelVars == <<watches, kqueue, lost>>
vars == <<mainVars, pc, keep_running, watched_items, buffer, event, present, kernelVars, happened, queueVars>>

Ev(mask, item) == [mask |-> mask, wd |-> item]

Init ==
    /\ argv \in ArgLists /\ index = 1 /\ wd = "none"
    /\ pc = "watch" /\ keep_running = TRUE /\ watched_items = 0
    /\ buffer = <<>> /\ event = NULL
    /\ present = Item /\ watches = {} /\ kqueue = <<>> /\ happened = 0 /\ lost = FALSE
    /\ queue_create
-------------------------------------------------------------------------------
(* The program.                                                              *)

\* Mutant: a failure is counted as well.
watch_dir_counts_failure ==
    /\ pc = "watch" /\ index <= Len(argv) /\ wd # "failed"
    /\ index' = index + 1
    /\ watched_items' = watched_items + 1
    /\ IF argv[index] \in present
       THEN watches' = watches \cup {argv[index]} /\ wd' = "positive"
       ELSE wd' = "failed" /\ UNCHANGED watches
    /\ UNCHANGED <<argv, pc, keep_running, buffer, event, present, kqueue, lost, happened, queueVars>>

\* A second watch for the same item is the first one again, and is counted.
watch_dir ==
    /\ pc = "watch" /\ index <= Len(argv) /\ wd # "failed"
    /\ index' = index + 1
    /\ IF argv[index] \in present
       THEN /\ watches' = watches \cup {argv[index]}
            /\ wd' = "positive"
            /\ watched_items' = watched_items + 1
       ELSE wd' = "failed" /\ UNCHANGED <<watches, watched_items>>
    /\ UNCHANGED <<argv, pc, keep_running, buffer, event, present, kqueue, lost, happened, queueVars>>

Started ==
    /\ pc = "watch" /\ (index > Len(argv) \/ wd = "failed")
    /\ pc' = IF wd = "positive" THEN "check" ELSE "close"
    /\ UNCHANGED <<mainVars, keep_running, watched_items, buffer, event, present, kernelVars, happened, queueVars>>

\* Mutant: the interrupt is ignored.
Check_ignores_signal ==
    /\ pc = "check"
    /\ pc' = IF watched_items > 0 THEN "select" ELSE "close"
    /\ UNCHANGED <<mainVars, keep_running, watched_items, buffer, event, present, kernelVars, happened, queueVars>>

\* The condition of the loop in process_inotify_events().
Check ==
    /\ pc = "check"
    /\ pc' = IF keep_running /\ watched_items > 0 THEN "select" ELSE "close"
    /\ UNCHANGED <<mainVars, keep_running, watched_items, buffer, event, present, kernelVars, happened, queueVars>>

event_check ==
    /\ pc = "select" /\ kqueue # <<>>
    /\ pc' = "read"
    /\ UNCHANGED <<mainVars, keep_running, watched_items, buffer, event, present, kernelVars, happened, queueVars>>

\* read() returns as many events as there are and fit.
Read ==
    /\ pc = "read"
    /\ LET n == IF Len(kqueue) < ReadMax THEN Len(kqueue) ELSE ReadMax IN
       /\ buffer' = SubSeq(kqueue, 1, n)
       /\ kqueue' = SubSeq(kqueue, n + 1, Len(kqueue))
    /\ pc' = "parse"
    /\ UNCHANGED <<mainVars, keep_running, watched_items, event, present, watches, lost, happened, queueVars>>

ReadFails ==
    /\ pc = "read"
    /\ pc' = "close"
    /\ UNCHANGED <<mainVars, keep_running, watched_items, buffer, event, present, kernelVars, happened, queueVars>>

\* One turn of the loop of read_events().
Parse ==
    /\ pc = "parse" /\ buffer # <<>>
    /\ \E d \in Entry \ allocated :
          /\ allocated' = allocated \cup {d}
          /\ inot_ev' = [inot_ev EXCEPT ![d] = Head(buffer)]
          /\ queue_enqueue(d)
    /\ buffer' = Tail(buffer)
    /\ UNCHANGED <<mainVars, pc, keep_running, watched_items, event, present, kernelVars, happened>>

Parsed ==
    /\ pc = "parse" /\ buffer = <<>>
    /\ pc' = "handle"
    /\ UNCHANGED <<mainVars, keep_running, watched_items, buffer, event, present, kernelVars, happened, queueVars>>

Dequeue ==
    /\ pc = "handle" /\ ~queue_empty
    /\ event' = head
    /\ queue_dequeue
    /\ pc' = "event"
    /\ UNCHANGED <<mainVars, keep_running, watched_items, buffer, present, kernelVars, happened, inot_ev, allocated>>

\* Mutant: DELETE_SELF and UNMOUNT are taken for the end of the watch.
handle_event_counts_self ==
    /\ pc = "event"
    /\ watched_items' = watched_items - (IF inot_ev[event].mask \in {"self", "ignored"} THEN 1 ELSE 0)
    /\ allocated' = allocated \ {event}
    /\ event' = NULL
    /\ pc' = "handle"
    /\ UNCHANGED <<mainVars, keep_running, buffer, present, kernelVars, happened, head, tail, next_ptr, inot_ev>>

\* Mutant: the entry is not freed.
handle_event_leaks ==
    /\ pc = "event"
    /\ watched_items' = watched_items - (IF inot_ev[event].mask = "ignored" THEN 1 ELSE 0)
    /\ event' = NULL
    /\ pc' = "handle"
    /\ UNCHANGED <<mainVars, keep_running, buffer, present, kernelVars, happened, queueVars>>

\* handle_event() and free(); everything but IN_IGNORED is only reported.
handle_event ==
    /\ pc = "event"
    /\ watched_items' = watched_items - (IF inot_ev[event].mask = "ignored" THEN 1 ELSE 0)
    /\ allocated' = allocated \ {event}
    /\ event' = NULL
    /\ pc' = "handle"
    /\ UNCHANGED <<mainVars, keep_running, buffer, present, kernelVars, happened, head, tail, next_ptr, inot_ev>>

AllHandled ==
    /\ pc = "handle" /\ queue_empty
    /\ pc' = "check"
    /\ UNCHANGED <<mainVars, keep_running, watched_items, buffer, event, present, kernelVars, happened, queueVars>>

close_inotify_fd ==
    /\ pc = "close"
    /\ watches' = {} /\ kqueue' = <<>> /\ watched_items' = 0
    /\ queue_destroy
    /\ pc' = "done"
    /\ UNCHANGED <<mainVars, keep_running, buffer, event, present, lost, happened, inot_ev>>

Step == \/ watch_dir \/ Started \/ Check \/ event_check \/ Read \/ Parse \/ Parsed
        \/ Dequeue \/ handle_event \/ AllHandled \/ close_inotify_fd
-------------------------------------------------------------------------------
(* The environment.                                                          *)

\* SIGINT makes select() return, unless it comes between the condition of the
\* loop and the call; everything else goes on.
signal_handler ==
    /\ pc # "done" /\ keep_running
    /\ keep_running' = FALSE
    /\ pc' = pc \/ (pc = "select" /\ pc' = "check")
    /\ UNCHANGED <<mainVars, watched_items, buffer, event, present, kernelVars, happened, queueVars>>

\* When the queue is full, the first event that does not fit is replaced by
\* IN_Q_OVERFLOW and the others are dropped.
Push(q, e) == IF Len(q) < QueueMax THEN Append(q, e)
              ELSE IF Len(q) = QueueMax THEN Append(q, Ev("overflow", NULL))
              ELSE q

Happen(i) ==
    /\ i \in watches /\ happened < MaxEvents
    /\ kqueue' = Push(kqueue, Ev("other", i))
    /\ lost' = (lost \/ Len(kqueue) >= QueueMax)
    /\ happened' = happened + 1
    /\ UNCHANGED <<mainVars, pc, keep_running, watched_items, buffer, event, present, watches, queueVars>>

\* The item is deleted or unmounted, and with it the watch.
Vanish(i) ==
    /\ i \in present
    /\ present' = present \ {i}
    /\ watches' = watches \ {i}
    /\ IF i \in watches
       THEN /\ kqueue' = Push(Push(kqueue, Ev("self", i)), Ev("ignored", i))
            /\ lost' = (lost \/ Len(kqueue) + 1 >= QueueMax)
       ELSE UNCHANGED <<kqueue, lost>>
    /\ UNCHANGED <<mainVars, pc, keep_running, watched_items, buffer, event, happened, queueVars>>

Next == \/ Step \/ ReadFails \/ signal_handler
        \/ \E i \in Item : Happen(i) \/ Vanish(i)

Spec == Init /\ [][Next]_vars
\* The program runs on; nothing is asked of the file system or the user.
FairSpec == Spec /\ WF_vars(Step)
-------------------------------------------------------------------------------
(* Properties.                                                               *)

Looping == {"check", "select", "read", "parse", "handle", "event"}
Distinct == \A i, j \in 1..Len(argv) : argv[i] = argv[j] => i = j
Ignored(q) == Cardinality({i \in 1..Len(q) : q[i].mask = "ignored"})

\* The variables have their types, and the counter is never negative.
TypeOK ==
    /\ argv \in ArgLists /\ index \in 1..Len(argv) + 1 /\ wd \in {"none", "positive", "failed"}
    /\ pc \in Looping \cup {"watch", "close", "done"} /\ keep_running \in BOOLEAN
    /\ watched_items \in 0..Len(argv)
    /\ buffer \in Seq(Event) /\ Len(buffer) <= ReadMax
    /\ event \in Entry \cup {NULL}
    /\ watches \subseteq present /\ present \subseteq Item
    /\ kqueue \in Seq(Event) /\ Len(kqueue) <= QueueMax + 1
    /\ head \in Entry \cup {NULL} /\ tail \in Entry \cup {NULL}
    /\ allocated \subseteq Entry

\* What the entries of the queue hold, in its order.
Reports == [i \in 1..Len(Queued) |-> inot_ev[Queued[i]]]
\* The watches, and the reports that a watch is gone, wherever they are on their way
\* through the two queues.
Outstanding ==
    Cardinality(watches) + Ignored(kqueue) + Ignored(buffer) + Ignored(Reports)
    + (IF pc = "event" /\ inot_ev[event].mask = "ignored" THEN 1 ELSE 0)

\* watched_items counts them.
CountExact == Distinct /\ ~lost /\ pc # "done" => watched_items = Outstanding

\* Every entry is in the queue or in the hands of handle_events(), and all are
\* freed at the end.
NoLeak ==
    allocated = {Queued[i] : i \in 1..Len(Queued)} \cup (IF pc = "event" THEN {event} ELSE {})

\* What is watched and what is allocated is accounted for in every state, however
\* the reports travel through the queues.
Accounted == TypeOK /\ CountExact /\ NoLeak

\* The loop does not end by itself while something is still watched, events lost
\* or not.
NoEarlyEnd ==
    [][pc = "check" /\ pc' = "close" /\ keep_running => watches = {}]_vars

\* The events are handled in the order in which they are read.
Fifo == INSTANCE EventFifo WITH
    Nothing <- NULL,
    items <- Reports,
    out <- IF event = NULL THEN NULL ELSE inot_ev[event]
InOrder == Fifo!Spec

\* Why these hold, for the proof: the queue is a list that is empty outside the loop
\* that fills and empties it, and nothing is watched that has not been counted.
QueueInv ==
    /\ next_ptr \in [Entry -> Entry \cup {NULL}] /\ inot_ev \in [Entry -> Event]
    /\ IsList(Queued)
    /\ Queued # <<>> => pc \in {"parse", "handle", "event"}
    /\ buffer # <<>> => pc = "parse"
    /\ event # NULL <=> pc = "event"
    /\ \A i \in 1..Len(Queued) : Queued[i] # event
CountInv ==
    /\ watches \subseteq {argv[i] : i \in 1..(index - 1)} /\ watched_items < index
    /\ pc # "done" => watched_items >= Outstanding
WatchInv == Accounted /\ QueueInv /\ CountInv

\* "It will automatically terminate if all watched items are deleted or
\* unmounted."
Ends == pc \in Looping /\ watches = {} ~> pc = "done"
\* It does when no item is given twice and no event is lost.
EndsWhenGone == pc \in Looping /\ watches = {} /\ ~lost /\ Distinct ~> pc = "done"

\* "Use ctrl-C or kill to terminate otherwise": it does so unless the signal comes
\* just before select(), which then waits for one more event.
EndsWhenInterrupted == ~keep_running /\ pc # "select" ~> pc = "done"

\* The two ways in which inotify_test.c says that it ends.
EndsAsSaid == EndsWhenGone /\ EndsWhenInterrupted
===============================================================================
