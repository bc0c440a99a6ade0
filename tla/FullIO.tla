-------------------------------- MODULE FullIO --------------------------------
(****************************************************************************)
(* utils/utils.c: readn_block(), writen_block(), readn_nonblock() and        *)
(* writen_nonblock() transfer n bytes over a descriptor that moves a part of *)
(* them at a time, is interrupted, has no data or no room, or ends.          *)
(****************************************************************************)
EXTENDS Integers, Sequences

CONSTANT MaxBytes   \* bound on the bytes one call is asked for

ASSUME FullIOAssumption == MaxBytes \in Nat

Call == [dir : {"read", "write"}, nonblock : BOOLEAN, n : 0..MaxBytes]

VARIABLES
    call,     \* the function and its argument n
    nleft, ptr,
    errno,    \* survives calls that succeed: "EAGAIN", "EINTR" or "other"
    result,   \* what the function returned, or -1 while it runs
    stream,   \* the bytes moved, in order
    arrived,  \* bytes there are to be read
    ended,    \* the peer has closed
    failed    \* history: a system call has reported an error or the end

ioVars == <<call, nleft, ptr, errno, result, stream, arrived, ended, failed>>

\* errno may be left over from anything.
IOInit ==
    /\ call \in Call
    /\ nleft = call.n /\ ptr = 0
    /\ errno \in {"EAGAIN", "EINTR", "other"}
    /\ result = -1 /\ stream = <<>> /\ arrived = 0 /\ ended = FALSE /\ failed = FALSE

Running == result = -1 /\ nleft > 0
Least(a, b) == IF a < b THEN a ELSE b
\* What read() and write() can move at once.
Room == IF call.dir = "read" THEN Least(nleft, arrived)
        ELSE IF ended THEN 0 ELSE nleft

\* Mutant: ptr stays where it is.
Advance_ptr_stays(k) == nleft' = nleft - k /\ ptr' = ptr
Advance(k) == nleft' = nleft - k /\ ptr' = ptr + k

\* The descriptor moves k bytes.
Move ==
    /\ Running
    /\ \E k \in 1..Room :
          /\ stream' = stream \o [i \in 1..k |-> ptr + i]
          /\ arrived' = IF call.dir = "read" THEN arrived - k ELSE arrived
          /\ Advance(k)
    /\ UNCHANGED <<call, errno, result, ended, failed>>

Break == result' = call.n - nleft

\* Mutant: the functions for non-blocking descriptors give up as well.
Stopped_gives_up(e) == Break
\* Mutant: the functions for blocking descriptors go on as well.
Stopped_retries(e) == IF e \in {"EINTR", "EAGAIN"} THEN UNCHANGED result ELSE Break

\* After read() or write() has returned 0 or -1: the functions for non-blocking
\* descriptors go on if errno says that nothing is wrong, even if this call has
\* not set it.
Stopped(e) == IF call.nonblock /\ e \in {"EINTR", "EAGAIN"}
              THEN UNCHANGED result
              ELSE Break

\* The end of the stream: read() returns 0 and leaves errno alone.
EndOfStream ==
    /\ Running /\ call.dir = "read" /\ arrived = 0 /\ ended
    /\ failed' = TRUE
    /\ Stopped(errno)
    /\ UNCHANGED <<call, nleft, ptr, errno, stream, arrived, ended>>

\* An error: no data or no room, an interrupt while waiting, or another one.
Fail ==
    /\ Running
    /\ \E e \in {"EAGAIN", "EINTR", "other"} :
          /\ e = "EAGAIN" => call.nonblock /\ ~ended /\ (call.dir = "read" => arrived = 0)
          /\ e = "EINTR" => ~call.nonblock
          /\ errno' = e
          /\ failed' = (failed \/ e # "EAGAIN")
          /\ Stopped(e)
    /\ UNCHANGED <<call, nleft, ptr, stream, arrived, ended>>

\* All bytes have been moved.
Return ==
    /\ result = -1 /\ nleft <= 0
    /\ Break
    /\ UNCHANGED <<call, nleft, ptr, errno, stream, arrived, ended, failed>>

\* write() to a peer that has closed.
WriteToClosed == ended /\ call.dir = "write" /\ Fail

IOStep == Move \/ EndOfStream \/ WriteToClosed \/ Return

Arrive == /\ call.dir = "read" /\ ~ended /\ arrived + Len(stream) < MaxBytes
          /\ arrived' = arrived + 1
          /\ UNCHANGED <<call, nleft, ptr, errno, result, stream, ended, failed>>
PeerCloses == /\ ~ended /\ ended' = TRUE
              /\ UNCHANGED <<call, nleft, ptr, errno, result, stream, arrived, failed>>

IONext == IOStep \/ Fail \/ Arrive \/ PeerCloses

\* The caller runs on, and write() fails if the peer has gone; nothing else is asked of
\* the peer or of the descriptor.
IOSpec == IOInit /\ [][IONext]_ioVars /\ WF_ioVars(IOStep)
-------------------------------------------------------------------------------
\* The bytes are moved in order, none twice, and their number is returned.
ReturnsMoved ==
    /\ \A i \in 1..Len(stream) : stream[i] = i
    /\ result # -1 => result = Len(stream)

\* "返回值等于n表明写入成功，不等于n表明写入错误": a return value other than n means
\* that the descriptor has failed or ended, not that it has had no room for a while.
ShortMeansError == result # -1 /\ result # call.n => failed

\* All bytes that a call says it has moved are moved, and it stops short only for an
\* error or the end of the stream.
MovedOrFailed == ReturnsMoved /\ ShortMeansError

\* Inductive: at every moment ptr is the number of bytes moved, so that ptr, nleft and
\* the stream say the same, and a call that has stopped short has seen an error or the end.
IOInv ==
    /\ call \in Call /\ nleft \in 0..call.n /\ arrived \in Nat
    /\ errno \in {"EAGAIN", "EINTR", "other"} /\ ended \in BOOLEAN /\ failed \in BOOLEAN
    /\ stream \in Seq(Nat) /\ ptr = Len(stream) /\ ptr = call.n - nleft
    /\ \A i \in 1..Len(stream) : stream[i] = i
    /\ result \in {-1, ptr} /\ ShortMeansError

\* readn_nonblock() at the end of the stream with errno left over from an earlier call.
Spins ==
    /\ Running /\ call.dir = "read" /\ call.nonblock
    /\ ended /\ arrived = 0 /\ errno \in {"EAGAIN", "EINTR"}

\* Nothing but an error of the descriptor gets it out.
SpinsOn == Spins => Spins' \/ errno' = "other"

\* "nread = 0 : 对方套接字关闭", the peer has closed: each of the four functions returns
\* when its peer has closed, or reaches the end of the stream with errno left over and
\* reads the end again and again.
EndsAtEof == (ended ~> (result # -1 \/ []Spins)) /\ [][SpinsOn]_ioVars
===============================================================================
