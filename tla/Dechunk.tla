-------------------------------- MODULE Dechunk --------------------------------
(****************************************************************************)
(* http_chunk/dechunk.c decodes a chunked HTTP answer that arrives in pieces *)
(* and http_chunk/main.c receives the pieces.  The decoder takes the size of *)
(* a chunk to count the line end after the data as well, which it does not   *)
(* in HTTP.  Bytes are their ASCII codes.                                    *)
(****************************************************************************)
EXTENDS Integers, Sequences
LOCAL INSTANCE SequencesExt
LOCAL INSTANCE FiniteSetsExt

CONSTANTS
    Bodies,        \* the data of the chunks of an answer
    MY_BUF_SIZE,   \* the size of the buffer for a piece
    SIZE_MOD       \* one more than the largest size_t

ASSUME DechunkAssumption == MY_BUF_SIZE \in Nat /\ SIZE_MOD > 2 * MY_BUF_SIZE

VARIABLES
    g,          \* the static variables of dechunk.c
    body,       \* the answer that is being received
    received,   \* how many of its bytes main() has received
    buff,       \* the piece received last; zeroes follow it in the buffer
    dpc,        \* where main() or dechunk() is
    data_start, data_len,
    clean       \* history: the pieces have ended where dechunk() can take it

dechunkVars == <<g, body, received, buff, dpc, data_start, data_len, clean>>

CR == 13
LF == 10
CRLF == <<CR, LF>>
-------------------------------------------------------------------------------
(* The answer.                                                               *)

\* For every byte, if a piece may end after it without harm to the decoder: "full"
\* means even if it fills the buffer, "short" only if it does not.
Byte(c, end) == [c |-> c, end |-> end]
\* As HTTP has it, the size is that of the data.  The decoder takes off two for the
\* line end, so it expects the line end where the last two bytes of the data are.
Chunk(d) ==
    <<Byte(48 + Len(d), "no"), Byte(CR, "no"), Byte(LF, "full")>>
    \o [n \in 1..Len(d) |-> Byte(d[n], IF n \in {Len(d) - 2, Len(d) - 1} THEN "no" ELSE "full")]
    \o <<Byte(CR, "short"), Byte(LF, "short")>>
Answer(b) ==
    <<Byte(72, "no"), Byte(CR, "no"), Byte(LF, "no"), Byte(CR, "no"), Byte(LF, "short")>>
    \o FlattenSeq([n \in 1..Len(b) |-> Chunk(b[n])])
    \o <<Byte(48, "short"), Byte(CR, "short"), Byte(LF, "full"), Byte(CR, "short"), Byte(LF, "short")>>
-------------------------------------------------------------------------------
(* Helpers.                                                                  *)

BuffAt(p) == IF p <= Len(buff) THEN buff[p] ELSE 0
LowerCase(c) == IF c \in 65..90 THEN c + 32 ELSE c
Agree(p, sub, n) == LowerCase(BuffAt(p + n - 1)) = LowerCase(sub[n])

\* Where sub begins among the n bytes from position from on, or 0 for NULL.
memstr(from, n, sub) ==
    LET hits == {p \in from..(from + n - 1) : \A k \in 1..Len(sub) : Agree(p, sub, k)}
    IN  IF n < Len(sub) \/ hits = {} THEN 0 ELSE Min(hits)

\* It compares bytes that are not in the buffer any more.
Overruns(from, n, sub) ==
    LET hit == memstr(from, n, sub) IN
    /\ n >= Len(sub)
    /\ \E p \in from..(IF hit = 0 THEN from + n - 1 ELSE hit) : \E k \in 1..Len(sub) :
          p + k - 1 > MY_BUF_SIZE /\ \A j \in 1..(k - 1) : Agree(p, sub, j)

Space == 9..13 \cup {32}
Hex(c) == CASE c \in 48..57  -> c - 48
            [] c \in 65..70  -> c - 55
            [] c \in 97..102 -> c - 87
            [] OTHER -> -1

\* sscanf("%x"): blanks are skipped; 0 if there is no number.
Number(from) == Min({p \in from..(from + MY_BUF_SIZE) : BuffAt(p) \notin Space})
NumberEnd(from) == Min({p \in Number(from)..(from + 2 * MY_BUF_SIZE) : Hex(BuffAt(p)) = -1})
sscanf(from) == FoldLeft(LAMBDA v, c : 16 * v + Hex(c), 0,
                         [n \in 1..(NumberEnd(from) - Number(from)) |-> BuffAt(Number(from) + n - 1)])

Size(n) == n % SIZE_MOD
Smaller(a, b) == IF a > b THEN b ELSE a
-------------------------------------------------------------------------------
(* Actions.                                                                  *)

Off == [running |-> FALSE, first |-> TRUE, chunkbegin |-> FALSE, chunk_len |-> 0,
        chunk_read |-> 0, outlen |-> 0, allocated |-> FALSE, out |-> <<>>]

DechunkInit ==
    /\ g = Off /\ body = <<>> /\ received = 0 /\ buff = <<>> /\ dpc = "off"
    /\ data_start = 1 /\ data_len = 0 /\ clean = TRUE

\* main() connects and sends its request.
dechunk_init ==
    /\ dpc = "off" /\ ~g.running
    /\ g' = [Off EXCEPT !.running = TRUE]
    /\ body' \in Bodies
    /\ received' = 0 /\ dpc' = "recv" /\ clean' = TRUE
    /\ UNCHANGED <<buff, data_start, data_len>>

\* recv() returns a piece of the answer, and dechunk() is called with it.
Receive ==
    /\ dpc = "recv"
    /\ \E n \in 1..Smaller(MY_BUF_SIZE, Len(Answer(body)) - received) :
          /\ buff' = [k \in 1..n |-> Answer(body)[received + k].c]
          /\ received' = received + n
          /\ data_start' = 1 /\ data_len' = n
          /\ clean' = (clean /\ Answer(body)[received + n].end \in
                                   (IF n = MY_BUF_SIZE THEN {"full"} ELSE {"full", "short"}))
    /\ dpc' = "first"
    /\ UNCHANGED <<g, body>>

\* recv() returns 0 or an error: main() goes on with what there is.
ReceiveEnds ==
    /\ dpc = "recv"
    /\ dpc' = "stop"
    /\ UNCHANGED <<g, body, received, buff, data_start, data_len, clean>>

\* dechunk(): the header is skipped; it has to end in this piece (DCE_FORMAT).
SkipHeader ==
    /\ dpc = "first"
    /\ LET p == memstr(data_start, data_len, CRLF \o CRLF) IN
       IF ~g.first THEN dpc' = "size" /\ UNCHANGED <<g, data_start, data_len>>
       ELSE IF Overruns(data_start, data_len, CRLF \o CRLF)
       THEN dpc' = "wild" /\ UNCHANGED <<g, data_start, data_len>>
       ELSE IF p = 0 THEN dpc' = "stop" /\ UNCHANGED <<g, data_start, data_len>>
       ELSE /\ data_start' = p + 4
            /\ data_len' = Size(data_len - (p + 4 - data_start))
            /\ g' = [g EXCEPT !.first = FALSE]
            /\ dpc' = "size"
    /\ UNCHANGED <<body, received, buff, clean>>

Announced(len) == [g EXCEPT !.chunkbegin = TRUE, !.chunk_len = len, !.chunk_read = 0,
                            !.outlen = Size(g.outlen + len)]

\* malloc() fails (DCE_MEM) or not; realloc() may move the buffer, while g_buff_pt
\* keeps pointing into the old one.
Allocate(h) ==
    IF h.chunk_len = 0 \/ h.outlen = 0
    THEN g' = h /\ dpc' = "copy"
    ELSE \/ g' = [h EXCEPT !.allocated = TRUE] /\ dpc' = "copy"
         \/ g.allocated /\ g' = h /\ dpc' = "wild"
         \/ g' = [h EXCEPT !.allocated = FALSE] /\ dpc' = "stop"

\* The line with the size of the next chunk.  Without a line end data_start is a
\* wild pointer, which does no harm if there is nothing to be copied.
SizeLine ==
    /\ dpc = "size" /\ ~g.chunkbegin
    /\ LET itmp == sscanf(data_start)
           len  == Size(IF itmp > 0 THEN itmp - 2 ELSE itmp)
           p    == memstr(data_start, data_len, CRLF)
       IN  IF \/ NumberEnd(data_start) > MY_BUF_SIZE
              \/ Overruns(data_start, data_len, CRLF)
              \/ p = 0 /\ len # 0
           THEN dpc' = "wild" /\ UNCHANGED <<g, data_start, data_len>>
           ELSE /\ data_start' = p + 2
                /\ data_len' = Size(data_len - (p + 2 - data_start))
                /\ Allocate(Announced(len))
    /\ UNCHANGED <<body, received, buff, clean>>
SizeKnown ==
    /\ dpc = "size" /\ g.chunkbegin
    /\ dpc' = "copy"
    /\ UNCHANGED <<g, body, received, buff, data_start, data_len, clean>>

CHUNK_INIT(h) == [h EXCEPT !.chunkbegin = FALSE, !.chunk_len = 0, !.chunk_read = 0]

\* Mutant: the line end after the data is not skipped.
Past_data_only(n) == n
\* How far the data and the line end after it reach.
Past(n) == n + 2

\* What the piece has of the chunk is copied; the rest of the piece is decoded by
\* a recursive call.
Copy ==
    /\ dpc = "copy"
    /\ LET cpsize == Smaller(g.chunk_len - g.chunk_read, data_len)
           h == [g EXCEPT !.out = g.out \o [k \in 1..cpsize |-> BuffAt(data_start + k - 1)],
                          !.chunk_read = g.chunk_read + cpsize]
       IN  IF g.chunk_read >= g.chunk_len
           THEN g' = CHUNK_INIT(g) /\ dpc' = "returned" /\ UNCHANGED <<data_start, data_len>>
           ELSE IF data_start + cpsize - 1 > MY_BUF_SIZE \/ Len(h.out) > g.outlen
           THEN dpc' = "wild" /\ UNCHANGED <<g, data_start, data_len>>
           ELSE /\ data_start' = data_start + Past(cpsize)
                /\ data_len' = Size(data_len - Past(cpsize))
                /\ g' = IF h.chunk_read >= h.chunk_len THEN CHUNK_INIT(h) ELSE h
                /\ dpc' = IF h.chunk_read >= h.chunk_len /\ data_len' > 0
                          THEN "first" ELSE "returned"
    /\ UNCHANGED <<body, received, buff, clean>>

\* dechunk() has returned DCE_OK: main() looks for the last chunk.
EndMark == CRLF \o <<48>> \o CRLF
LookForEnd ==
    /\ dpc = "returned"
    /\ \/ (memstr(1, Len(buff), EndMark) # 0 \/ Overruns(1, Len(buff), EndMark)) /\ dpc' = "stop"
       \/ memstr(1, Len(buff), EndMark) = 0 /\ dpc' = "recv"
    /\ buff' = <<>>   \* bzero()
    /\ UNCHANGED <<g, body, received, data_start, data_len, clean>>

\* dechunk_getbuff() and the use of the result, then dechunk_free().
dechunk_free ==
    /\ dpc = "stop"
    /\ g' = Off /\ body' = <<>> /\ received' = 0 /\ buff' = <<>> /\ dpc' = "off"
    /\ data_start' = 1 /\ data_len' = 0 /\ clean' = TRUE

DechunkNext == \/ dechunk_init \/ Receive \/ ReceiveEnds \/ SkipHeader \/ SizeLine \/ SizeKnown
               \/ Copy \/ LookForEnd \/ dechunk_free

DechunkSpec == DechunkInit /\ [][DechunkNext]_dechunkVars
-------------------------------------------------------------------------------
\* The data of a chunk but for the two bytes that are taken for a line end.
Clipped(d) == SubSeq(d, 1, Len(d) - 2)

\* What dechunk() makes of a chunked answer.  "exclude the terminate": it takes two off
\* the size, which has never counted the line end.
\*  - Wherever the answer is cut, and wherever realloc() moves the buffer, main() gets
\*    the data of the first chunk, in their order, before anything else; their last two
\*    bytes are not among them.
\*  - An answer of one chunk comes out as these data, with their length, if the cuts are
\*    outside the header, the size line and the two bytes; dechunk() stays within its
\*    buffers then.
\*  - No answer that has data ever comes out whole.
DecodesData ==
    /\ body # <<>> => \A n \in 1..Len(Clipped(body[1])) :
          n <= Len(g.out) => g.out[n] = body[1][n]
    /\ Len(body) = 1 /\ Len(body[1]) > 2 /\ clean =>
          /\ dpc # "wild"
          /\ dpc = "stop" /\ g.allocated /\ received = Len(Answer(body)) =>
                g.out = Clipped(body[1]) /\ g.outlen = Len(g.out)
    /\ dpc = "stop" /\ body # <<>> => <<g.out, g.outlen>> # <<FlattenSeq(body), Len(FlattenSeq(body))>>
===============================================================================
