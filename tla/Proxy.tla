-------------------------------- MODULE Proxy --------------------------------
(****************************************************************************)
(* The TCP proxy of proxy/proxy.c: start_tcp_proxy() accepts clients and     *)
(* starts a thread for each; run_tcp_proxy() connects to the server and      *)
(* forwards bytes in both directions until one side ends.  Hardly any call   *)
(* is checked: a socket that could not be had is -1 and fails when used.     *)
(****************************************************************************)
EXTENDS Integers, Sequences, FiniteSets

CONSTANTS
    Conn,          \* the threads that may be started
    BUFF_SIZE,     \* bytes one recv() may return
    Bytes          \* Bytes[c][s]: how many bytes side s of connection c writes

ASSUME ProxyAssumption ==
    /\ BUFF_SIZE \in Nat \ {0}
    /\ Bytes \in [Conn -> [{"cli", "svr"} -> Nat]]

Side == {"cli", "svr"}
Other(s) == IF s = "cli" THEN "svr" ELSE "cli"

VARIABLES
    run,      \* where each thread is
    sock,     \* sock[c][s]: "none", "bad" (-1), "connecting", "open", "failed" or "closed"
    curfds,   \* sockets in the epoll set, 0 when that does not exist
    events,   \* the events of epoll_wait() that are still to be handled
    xfer,     \* the call of Send(): its buffer, nsend and len
    \* The peers.
    wrote,    \* wrote[c][s]: bytes that side s has written
    fin,      \* fin[c]: the sides that have closed their end
    rcvd,     \* rcvd[c][s]: bytes of side s that the proxy has received
    out,      \* out[c][s]: the bytes delivered to side s
    torn      \* history: some call of Send() saw two short sends

proxyVars == <<run, sock, curfds, events, xfer, wrote, fin, rcvd, out, torn>>

NoXfer == [buf |-> <<>>, nsend |-> 0, len |-> 0, short |-> 0]

ProxyInit ==
    /\ run = [c \in Conn |-> "none"]
    /\ sock = [c \in Conn |-> [s \in Side |-> "none"]]
    /\ curfds = [c \in Conn |-> 0]
    /\ events = [c \in Conn |-> <<>>]
    /\ xfer = [c \in Conn |-> NoXfer]
    /\ wrote = [c \in Conn |-> [s \in Side |-> 0]]
    /\ fin = [c \in Conn |-> {}]
    /\ rcvd = [c \in Conn |-> [s \in Side |-> 0]]
    /\ out = [c \in Conn |-> [s \in Side |-> <<>>]]
    /\ torn = [c \in Conn |-> FALSE]

RunTo(c, phase) == run' = [run EXCEPT ![c] = phase]
-------------------------------------------------------------------------------
(* start_tcp_proxy().                                                        *)

\* The thread is started whether accept() has succeeded or not.
Accept(c) ==
    /\ run[c] = "none"
    /\ \E fd \in {"open", "bad"} : sock' = [sock EXCEPT ![c]["cli"] = fd]
    /\ RunTo(c, "start")
    /\ UNCHANGED <<curfds, events, xfer, wrote, fin, rcvd, out, torn>>

\* No memory or no thread: nobody closes the client's socket.
AcceptLeaks(c) ==
    /\ run[c] = "none"
    /\ sock' = [sock EXCEPT ![c]["cli"] = "open"]
    /\ RunTo(c, "leaked")
    /\ UNCHANGED <<curfds, events, xfer, wrote, fin, rcvd, out, torn>>
-------------------------------------------------------------------------------
(* run_tcp_proxy().                                                          *)

Usable(fd) == fd \in {"connecting", "open", "failed"}

\* socket(), Connect() with its timeout, epoll_create() and the two calls of
\* insert_epoll_event(); what fails is passed over.
Connect(c) ==
    /\ run[c] = "start"
    /\ \E fd \in {"bad", "connecting", "open", "failed"}, epoll \in BOOLEAN :
          /\ sock' = [sock EXCEPT ![c]["svr"] = fd]
          /\ curfds' = [curfds EXCEPT ![c] =
                IF epoll THEN Cardinality({s \in Side : Usable(sock'[c][s])}) ELSE 0]
    /\ RunTo(c, "wait")
    /\ UNCHANGED <<events, xfer, wrote, fin, rcvd, out, torn>>

\* recv() would not block: bytes, the end of the stream, or an error.
Ready(c, s) ==
    \/ sock[c][s] = "open" /\ (rcvd[c][s] < wrote[c][s] \/ s \in fin[c])
    \/ sock[c][s] = "failed"

\* epoll_wait() reports some of the sockets that are ready, in any order; when its
\* time is over it reports none and is called again.
EpollWait(c) ==
    /\ run[c] = "wait" /\ curfds[c] > 0
    /\ \E n \in 1..curfds[c] : \E e \in [1..n -> {s \in Side : Ready(c, s)}] :
          /\ \A i, j \in 1..n : e[i] = e[j] => i = j
          /\ events' = [events EXCEPT ![c] = e]
    /\ RunTo(c, "event")
    /\ UNCHANGED <<sock, curfds, xfer, wrote, fin, rcvd, out, torn>>

\* It fails when it is interrupted, without an epoll set, and when it is asked
\* for no events at all, which is how the loop ends.
EpollFails(c) ==
    /\ run[c] = "wait"
    /\ RunTo(c, "close")
    /\ UNCHANGED <<sock, curfds, events, xfer, wrote, fin, rcvd, out, torn>>

\* Recv() of tcp_data_deal().
Recv(c) ==
    /\ run[c] = "event" /\ events[c] # <<>>
    /\ LET s == Head(events[c]) IN
       /\ sock[c][s] = "open" /\ rcvd[c][s] < wrote[c][s]
       /\ \E n \in 1..BUFF_SIZE :
             /\ n <= wrote[c][s] - rcvd[c][s]
             /\ rcvd' = [rcvd EXCEPT ![c][s] = rcvd[c][s] + n]
             /\ xfer' = [xfer EXCEPT ![c] =
                   [buf |-> [i \in 1..n |-> rcvd[c][s] + i], nsend |-> 0, len |-> n, short |-> 0]]
    /\ RunTo(c, "send")
    /\ UNCHANGED <<sock, curfds, events, wrote, fin, out, torn>>

\* Mutant: the buffer is sent from its beginning again.
Unsent_restarts(x) == x.buf
Unsent(x) == SubSeq(x.buf, x.nsend + 1, Len(x.buf))

\* One turn of the loop of Send().
Send(c) ==
    /\ run[c] = "send" /\ xfer[c].len > 0
    /\ LET d == Other(Head(events[c])) rest == Unsent(xfer[c]) IN
       /\ sock[c][d] = "open"
       /\ \E n \in 1..Len(rest) :
             /\ out' = [out EXCEPT ![c][d] = out[c][d] \o SubSeq(rest, 1, n)]
             /\ LET x == xfer[c]
                    y == [x EXCEPT !.nsend = x.nsend + n,
                                   !.len = x.len - (x.nsend + n),
                                   !.short = IF n < Len(rest) THEN x.short + 1 ELSE x.short] IN
                /\ xfer' = [xfer EXCEPT ![c] = y]
                /\ torn' = [torn EXCEPT ![c] = torn[c] \/ y.short > 1]
    /\ UNCHANGED <<run, sock, curfds, events, wrote, fin, rcvd>>

Sent(c) ==
    /\ run[c] = "send" /\ xfer[c].len <= 0
    /\ xfer' = [xfer EXCEPT ![c] = NoXfer]
    /\ events' = [events EXCEPT ![c] = Tail(events[c])]
    /\ RunTo(c, "event")
    /\ UNCHANGED <<sock, curfds, wrote, fin, rcvd, out, torn>>

Handled(c) ==
    /\ run[c] = "event" /\ events[c] = <<>>
    /\ RunTo(c, "wait")
    /\ UNCHANGED <<sock, curfds, events, xfer, wrote, fin, rcvd, out, torn>>

\* Mutant: the sockets stay in the epoll set.
Remove_keeps_set(c) ==
    /\ events' = [events EXCEPT ![c] = <<>>]
    /\ xfer' = [xfer EXCEPT ![c] = NoXfer]
    /\ UNCHANGED curfds

\* Both sockets leave the epoll set, and the other events are dropped.
Remove(c) ==
    /\ curfds' = [curfds EXCEPT ![c] = 0]
    /\ events' = [events EXCEPT ![c] = <<>>]
    /\ xfer' = [xfer EXCEPT ![c] = NoXfer]

\* Recv() returns 0 or -1, after which Send() has nothing to send; or send()
\* fails: the receiver is gone or was never there, or has no room (EAGAIN).
Broken(c) ==
    /\ \/ /\ run[c] = "event" /\ events[c] # <<>>
          /\ LET s == Head(events[c]) IN sock[c][s] = "failed" \/ rcvd[c][s] = wrote[c][s]
       \/ run[c] = "send" /\ xfer[c].len > 0
    /\ Remove(c)
    /\ RunTo(c, "wait")
    /\ UNCHANGED <<sock, wrote, fin, rcvd, out, torn>>

CloseAll(c) ==
    /\ run[c] = "close"
    /\ sock' = [sock EXCEPT ![c] = [s \in Side |-> IF Usable(sock[c][s]) THEN "closed" ELSE sock[c][s]]]
    /\ curfds' = [curfds EXCEPT ![c] = 0]
    /\ RunTo(c, "done")
    /\ UNCHANGED <<events, xfer, wrote, fin, rcvd, out, torn>>

\* The loop goes on: an interrupt of epoll_wait() is the only way out that is
\* not forced.
ThreadStep(c) ==
    \/ Connect(c) \/ EpollWait(c) \/ Recv(c) \/ Send(c) \/ Sent(c)
    \/ Handled(c) \/ Broken(c) \/ CloseAll(c)
    \/ curfds[c] = 0 /\ EpollFails(c)
-------------------------------------------------------------------------------
(* The peers.                                                                *)

Write(c, s) ==
    /\ sock[c][s] = "open" /\ s \notin fin[c] /\ wrote[c][s] < Bytes[c][s]
    /\ wrote' = [wrote EXCEPT ![c][s] = wrote[c][s] + 1]
    /\ UNCHANGED <<run, sock, curfds, events, xfer, fin, rcvd, out, torn>>

Finish(c, s) ==
    /\ sock[c][s] = "open" /\ s \notin fin[c]
    /\ fin' = [fin EXCEPT ![c] = fin[c] \cup {s}]
    /\ UNCHANGED <<run, sock, curfds, events, xfer, wrote, rcvd, out, torn>>

\* A connection that Connect() did not wait for is made after all, or not.
Resolve(c) ==
    /\ sock[c]["svr"] = "connecting"
    /\ \E fd \in {"open", "failed"} : sock' = [sock EXCEPT ![c]["svr"] = fd]
    /\ UNCHANGED <<run, curfds, events, xfer, wrote, fin, rcvd, out, torn>>

ProxyNext ==
    \E c \in Conn :
       \/ Accept(c) \/ AcceptLeaks(c) \/ ThreadStep(c) \/ EpollFails(c)
       \/ Resolve(c) \/ \E s \in Side : Write(c, s) \/ Finish(c, s)

ProxySpec == /\ ProxyInit /\ [][ProxyNext]_proxyVars
             /\ \A c \in Conn : WF_proxyVars(ThreadStep(c))
-------------------------------------------------------------------------------
(* Properties.                                                               *)

\* The variables have their types; Send() never counts past its buffer.
ProxyTypeOK ==
    /\ run \in [Conn -> {"none", "start", "leaked", "wait", "event", "send", "close", "done"}]
    /\ sock \in [Conn -> [Side -> {"none", "bad", "connecting", "open", "failed", "closed"}]]
    /\ curfds \in [Conn -> 0..2] /\ events \in [Conn -> Seq(Side)]
    /\ xfer \in [Conn -> [buf : Seq(Nat), nsend : Nat, len : Int, short : Nat]]
    /\ wrote \in [Conn -> [Side -> Nat]] /\ rcvd \in [Conn -> [Side -> Nat]]
    /\ fin \in [Conn -> SUBSET Side] /\ out \in [Conn -> [Side -> Seq(Nat)]]
    /\ torn \in [Conn -> BOOLEAN]
    /\ \A c \in Conn : /\ Len(events[c]) <= 2 /\ (run[c] = "send" => events[c] # <<>>)
                       /\ xfer[c].nsend <= Len(xfer[c].buf)

\* What is delivered to one side are bytes of the other side in their order; and
\* none is missing in between unless a call of Send(), which subtracts what it
\* has sent so far from what is left each time, has met two short sends.
Forwarded(c) ==
    \A s \in Side :
        LET o == out[c][s] IN
        /\ \A i, j \in 1..Len(o) : i < j => o[i] < o[j]
        /\ ~torn[c] => \A i \in 1..Len(o) : o[i] = i

\* Both hold whatever is refused, cut short or closed at whatever moment.
ForwardsInOrder == ProxyTypeOK /\ \A c \in Conn : Forwarded(c)

\* The inductive invariant.  The bytes of side s that have been received and not yet
\* handed to the other side's socket.
Pending(c, s) == IF run[c] = "send" /\ s = Head(events[c])
                 THEN Len(xfer[c].buf) - xfer[c].nsend ELSE 0

\* The buffer of Send() holds the latest bytes of the side that is served; and what is
\* left to send is what Send() believes it is, as long as at most one send was short.
BufferInv(c) ==
    LET x == xfer[c] IN
    run[c] = "send" =>
       /\ Len(x.buf) \in 1..rcvd[c][Head(events[c])]
       /\ \A i \in 1..Len(x.buf) : x.buf[i] = rcvd[c][Head(events[c])] - Len(x.buf) + i
       /\ x.nsend < Len(x.buf) =>
             /\ x.short = 0 => x.nsend = 0
             /\ x.short <= 1 => x.len = Len(x.buf) - x.nsend
       /\ ~torn[c] => x.short <= 1

\* What is delivered is in order and older than what is pending; and it is all that was
\* received as long as the sockets are in the epoll set.
DeliveryInv(c) ==
    /\ run[c] \in {"event", "send"} => curfds[c] > 0
    /\ run[c] \in {"none", "start"} => \A s \in Side : out[c][s] = <<>> /\ rcvd[c][s] = 0
    /\ \A s \in Side :
          /\ \A i \in 1..Len(out[c][s]) :
                out[c][s][i] <= rcvd[c][Other(s)] - Pending(c, Other(s))
          /\ ~torn[c] /\ curfds[c] > 0 =>
                Len(out[c][s]) = rcvd[c][Other(s)] - Pending(c, Other(s))

ProxyInv == ForwardsInOrder /\ \A c \in Conn : BufferInv(c) /\ DeliveryInv(c)

\* When one side ends, the thread ends and closes both sockets, by way of the
\* call of epoll_wait() for no events.
EndsWithPeer ==
    \A c \in Conn :
        run[c] \notin {"none", "leaked"} /\ (fin[c] # {} \/ sock[c]["svr"] = "failed")
            ~> run[c] = "done"
===============================================================================
