--------------------------- MODULE ChunkedDecoder ---------------------------
(***************************************************************************)
(* phr_decode_chunked of lib/picohttpparser.c: a decoder that keeps its    *)
(* place between calls, given a chunked body in pieces.  A byte is a hex   *)
(* digit, which stands for its value, or another number.                   *)
(***************************************************************************)
EXTENDS Integers, Sequences, SequencesExt, FiniteSetsExt

CONSTANT MaxDigits  \* the 16 digits of a size_t

CR == 16
LF == 17

VARIABLES
  body,     \* what the sender sends: [bytes, data, size, trailer], data being in the chunks
  given,    \* its bytes given to the decoder
  decoder,  \* struct phr_chunked_decoder
  data,     \* what the calls left in their buffers, put together
  ret       \* what the last call returned

vars == <<body, given, decoder, data, ret>>

----------------------------------------------------------------------------
\* A call in progress: the decoder, the next byte of buf and what is decoded so far.
Call(d, src, out) == [d |-> d, src |-> src, out |-> out, ret |-> -2]

\* The first byte from src on that is b, or is not b, or the end of the buffer.
Find(buf, src, b) == Min({i \in src .. Len(buf) : buf[i] = b} \cup {Len(buf) + 1})
Skip(buf, src, b) == Min({i \in src .. Len(buf) : buf[i] # b} \cup {Len(buf) + 1})

\* What digits n of them from src on make of a size read so far.
Value(left, buf, src) ==
  LET value[n \in 0 .. Len(buf) + 1 - src] ==
        IF n = 0 THEN left ELSE value[n - 1] * 16 + buf[src + n - 1]
  IN value

\* Reads the digits of a size; at the byte behind them the extension begins.
Size(c, buf) ==
  LET end == Min({i \in c.src .. Len(buf) : buf[i] \notin 0 .. 15} \cup {Len(buf) + 1})
      n == Min({end - c.src, MaxDigits - c.d.hex})
      read == [c EXCEPT !.d.left = Value(@, buf, c.src)[n], !.d.hex = @ + n, !.src = @ + n]
  IN CASE read.src > Len(buf) -> read
       [] read.src <= Len(buf) /\ (read.src < end \/ read.d.hex = 0) -> [read EXCEPT !.ret = -1]
       [] OTHER -> [read EXCEPT !.d.hex = 0, !.d.state = "ext"]

\* Everything up to the line feed.
Ext(c, buf) ==
  LET i == Find(buf, c.src, LF)
      next == [c EXCEPT !.src = i + 1]
  IN CASE i > Len(buf) -> [c EXCEPT !.src = i]
       [] i <= Len(buf) /\ c.d.left # 0 -> [next EXCEPT !.d.state = "data"]
       [] i <= Len(buf) /\ c.d.left = 0 /\ c.d.consume_trailer -> [next EXCEPT !.d.state = "head"]
       [] OTHER -> [next EXCEPT !.ret = Len(buf) - i]

\* Seeded defect: the chunk is taken as ended with the piece.
DataWhole(c, buf) ==
  LET n == Min({Len(buf) - c.src + 1, c.d.left})
  IN [c EXCEPT !.src = @ + n, !.out = @ \o SubSeq(buf, c.src, c.src + n - 1),
               !.d.left = 0, !.d.state = "crlf"]

Data(c, buf) ==
  LET n == Min({Len(buf) - c.src + 1, c.d.left})
  IN [c EXCEPT !.src = @ + n, !.out = @ \o SubSeq(buf, c.src, c.src + n - 1),
               !.d.left = @ - n, !.d.state = IF n = c.d.left THEN "crlf" ELSE @]

\* Any number of CR, then LF.
Crlf(c, buf) ==
  LET i == Skip(buf, c.src, CR)
  IN IF i > Len(buf) THEN [c EXCEPT !.src = i]
     ELSE IF buf[i] # LF THEN [c EXCEPT !.src = i, !.ret = -1]
     ELSE [c EXCEPT !.src = i + 1, !.d.state = "size"]

TrailerHead(c, buf) ==
  LET i == Skip(buf, c.src, CR)
  IN IF i > Len(buf) THEN [c EXCEPT !.src = i]
     ELSE IF buf[i] = LF THEN [c EXCEPT !.src = i + 1, !.ret = Len(buf) - i]
     ELSE [c EXCEPT !.src = i + 1, !.d.state = "middle"]

TrailerMiddle(c, buf) ==
  LET i == Find(buf, c.src, LF)
  IN IF i > Len(buf) THEN [c EXCEPT !.src = i]
     ELSE [c EXCEPT !.src = i + 1, !.d.state = "head"]

\* The switch: what a call in progress does next, unless it has returned.
Turn(c, buf) ==
  CASE c.ret # -2 -> c
    [] c.ret = -2 /\ c.d.state = "size" -> Size(c, buf)
    [] c.ret = -2 /\ c.d.state = "ext" -> Ext(c, buf)
    [] c.ret = -2 /\ c.d.state = "data" -> Data(c, buf)
    [] c.ret = -2 /\ c.d.state = "crlf" -> Crlf(c, buf)
    [] c.ret = -2 /\ c.d.state = "head" -> TrailerHead(c, buf)
    [] c.ret = -2 /\ c.d.state = "middle" -> TrailerMiddle(c, buf)

\* Of two turns one takes a byte or ends the call, so these are enough.
phr_decode_chunked(d, buf) ==
  LET call[n \in 0 .. 2 * Len(buf) + 1] ==
        IF n = 0 THEN Call(d, 1, <<>>) ELSE Turn(call[n - 1], buf)
  IN call[2 * Len(buf) + 1]
phr_decode_chunked_is_in_data(d) == d.state = "data"

\* How many numbers n hex digits can write.
Sizes == LET sizes[n \in 0 .. MaxDigits] == IF n = 0 THEN 1 ELSE 16 * sizes[n - 1] IN sizes

Zeroed(trailer) == [state |-> "size", left |-> 0, hex |-> 0, consume_trailer |-> trailer]

\* A body that comes in one piece is decoded as it was put together.
InOnePiece(b) ==
  LET c == phr_decode_chunked(Zeroed(b.trailer), b.bytes)
  IN /\ b.bytes \in Seq(Nat) /\ b.data \in Seq(Nat) /\ b.trailer \in BOOLEAN
     /\ IsPrefix(c.out, b.data)
     /\ c.ret >= 0 => c.out = b.data /\ Len(b.bytes) - c.ret = b.size
     /\ b.size > 0 => c.ret >= 0

----------------------------------------------------------------------------
Start(b) == body = b /\ given = 0 /\ decoder = Zeroed(b.trailer) /\ data = <<>> /\ ret = -2

\* The next n bytes arrive; the caller keeps the decoder and supplies them.
Supply(n) ==
  /\ ret = -2 /\ given + n <= Len(body.bytes)
  /\ LET c == phr_decode_chunked(decoder, SubSeq(body.bytes, given + 1, given + n))
     IN /\ decoder' = c.d
        /\ data' = data \o c.out
        /\ ret' = c.ret
  /\ given' = given + n
  /\ UNCHANGED body

Next == \E n \in 1 .. Len(body.bytes) : Supply(n)
Finished == ret # -2 \/ body.bytes = <<>>

----------------------------------------------------------------------------
(* Wherever the network cuts a body, the calls decode what its chunks hold, in order and
   completely, and the last one counts the bytes behind the end of the body.  The bytes
   left in a chunk are those its size promised and that were not decoded yet: the size
   fits its type, and nothing is left over when the next size is read
   (lines 562-567, 593-606).  *)
DecodesTheChunks ==
  /\ IsPrefix(data, body.data)
  /\ ret >= 0 => data = body.data /\ given - ret = body.size
  /\ given = Len(body.bytes) /\ body.size > 0 => ret >= 0
  /\ decoder.left < Sizes[MaxDigits]
  /\ decoder.state \in {"crlf", "head", "middle"} \/ (decoder.state = "size" /\ decoder.hex = 0)
       => decoder.left = 0
  /\ phr_decode_chunked_is_in_data(decoder) => decoder.left > 0
=============================================================================
