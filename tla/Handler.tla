------------------------------ MODULE Handler ------------------------------
(***************************************************************************)
(* One thread of lib/handler.c and the connections it has been dealt: the  *)
(* epoll loop, the read-and-parse loop, the answer and its streaming.      *)
(* Bytes are pieces, numbered along the stream of their connection: first  *)
(* the head of the request, then its body.  What the stack holds from one  *)
(* event to the next (the request buffer, the request) is kept, since the  *)
(* code reads it.                                                          *)
(***************************************************************************)
EXTENDS Naturals, Sequences, FiniteSets

CONSTANTS
  Conns,           \* connections this handler is dealt
  Kinds,           \* requests each client may send
  BufferSize,      \* request_buffer_size: what one read asks for, in pieces
  MaxRequest,      \* max_request_size, the size of request_buffer, in pieces
  MaxRetries,      \* the 5 empty reads of handler.c:187
  ResponseLength,  \* full_length of every response
  Failures,        \* per connection, what happens to it: some of "reset", "finish", "mod"
  None             \* no connection, no response, no Content-Length

\* "from" and "parsed" are ghosts: whose body was decoded, and whether the request was.
Responses == [status : {"callback", "404", "405"}, from : Conns \cup {None, "mixed"},
              parsed : BOOLEAN]

\* length is what the Content-Length says, whatever the length of the body.
ASSUME HandlerAssumption ==
  /\ {BufferSize, MaxRequest, MaxRetries, ResponseLength} \subseteq Nat \ {0}
  /\ \A k \in UNION {Kinds[c] : c \in Conns} :
       /\ k.method \in {"POST", "post", "GET"} /\ k.path \in {"route", "other"}
       /\ k.head \in Nat \ {0} /\ k.body \in Nat /\ k.length \in Nat \cup {None}
       /\ {k.wellFormed, k.goodJson} \subseteq BOOLEAN
       /\ k.goodJson => k.body > 0
  /\ Failures \in [Conns -> SUBSET {"reset", "finish", "mod"}]
  /\ None \notin Conns \cup Responses

VARIABLES
  req,        \* the request each client sends
  peer,       \* the client's side: open, finished sending, or reset
  arrived,    \* pieces that reached the socket
  taken,      \* pieces that read() has returned
  fd,         \* none, in (EPOLLIN|EPOLLET, data.fd), out (EPOLLOUT, data.ptr), closed
  edge,       \* something arrived since epoll last reported it
  batch,      \* events of the last epoll_wait still to be handled
  pc,         \* wait, next, read or crashed
  ev,         \* the event being read: its connection, buflen, errno and retries
  buf,        \* request_buffer, with the pieces the stack still holds
  jsonBody,   \* whose json_body the stack holds: "unset" at first, "bad" is NULL
  res,        \* the response of a connection
  streamed    \* stream_ptr, which is also what the client was sent

netVars == <<peer, arrived, edge>>
readVars == <<ev, buf>>
vars == <<req, netVars, taken, fd, batch, pc, readVars, jsonBody, res, streamed>>

Total(c) == req[c].head + req[c].body
Unwritten == <<None, 0>>    \* anything, zero included
NoEvent == [conn |-> None, len |-> 0, errno |-> "0", retries |-> 0]
cur == ev.conn

Init ==
  /\ req \in {f \in [Conns -> UNION {Kinds[c] : c \in Conns}] :
              \A c \in Conns : f[c] \in Kinds[c]}
  /\ peer = [c \in Conns |-> "open"]
  /\ arrived = [c \in Conns |-> 0] /\ taken = [c \in Conns |-> 0]
  /\ fd = [c \in Conns |-> "none"]
  /\ edge = [c \in Conns |-> FALSE]
  /\ batch = {} /\ pc = "wait" /\ ev = NoEvent
  /\ buf = [i \in 1 .. MaxRequest |-> Unwritten]
  /\ jsonBody = "unset"
  /\ res = [c \in Conns |-> None] /\ streamed = [c \in Conns |-> 0]

----------------------------------------------------------------------------
(* The clients and the accept loop. *)

\* server_on_connection adds the descriptor; epoll reports what is there already.
Register(c) ==
  /\ fd[c] = "none"
  /\ fd' = [fd EXCEPT ![c] = "in"]
  /\ edge' = [edge EXCEPT ![c] = arrived[c] > 0 \/ peer[c] # "open"]
  /\ UNCHANGED <<req, peer, arrived, taken, batch, pc, readVars, jsonBody, res, streamed>>

\* What comes once the answer is built is never read.
Send(c) ==
  /\ peer[c] = "open" /\ fd[c] \in {"none", "in"}
  /\ \E n \in arrived[c] + 1 .. Total(c) : arrived' = [arrived EXCEPT ![c] = n]
  /\ edge' = [edge EXCEPT ![c] = (fd[c] = "in")]
  /\ UNCHANGED <<req, peer, taken, fd, batch, pc, readVars, jsonBody, res, streamed>>

HangUp(c, how) ==
  /\ peer[c] \in IF how = "finish" THEN {"open"} ELSE {"open", "finish"}
  /\ how \in Failures[c] /\ fd[c] # "closed"
  /\ peer' = [peer EXCEPT ![c] = how]
  /\ edge' = [edge EXCEPT ![c] = (fd[c] = "in")]
  /\ UNCHANGED <<req, arrived, taken, fd, batch, pc, readVars, jsonBody, res, streamed>>

----------------------------------------------------------------------------
(* epoll_wait.  max_events (2048) is above the number of connections here.  *)

Ready(c) == (fd[c] = "in" /\ edge[c]) \/ fd[c] = "out"
Event(c) == <<c, IF peer[c] = "reset" THEN "err" ELSE fd[c]>>

Wait ==
  /\ pc = "wait"
  /\ batch' = {Event(c) : c \in {d \in Conns : Ready(d)}}
  /\ batch' # {}
  /\ edge' = [c \in Conns |-> edge[c] /\ fd[c] # "in"]
  /\ pc' = "next"
  /\ UNCHANGED <<req, peer, arrived, taken, fd, readVars, jsonBody, res, streamed>>

\* The rest of the batch, then epoll_wait again: the continue of the for loop.
NextEvent == pc' = IF batch' = {} THEN "wait" ELSE "next"

StartRead(c) ==
  /\ pc = "next" /\ <<c, "in">> \in batch
  /\ ev' = [NoEvent EXCEPT !.conn = c]
  /\ batch' = batch \ {<<c, "in">>}
  /\ pc' = "read"
  /\ UNCHANGED <<req, netVars, taken, fd, buf, jsonBody, res, streamed>>

----------------------------------------------------------------------------
(* handler_route_search, over the routes POST /schedule and POST /done. *)

Route(k) == IF k.path # "route" THEN "404"
            ELSE IF k.method # "POST" THEN "405" ELSE "callback"

\* continue without an answer: the descriptor stays registered for EPOLLIN.
Skip == NextEvent /\ UNCHANGED <<fd, jsonBody, res, streamed>>

\* Seeded defect: the descriptor is not switched to EPOLLOUT only.
AnswerKeepsReading(status, from, parsed) ==
  /\ NextEvent
  /\ res' = [res EXCEPT ![cur] = [status |-> status, from |-> from, parsed |-> parsed]]
  /\ UNCHANGED <<fd, streamed>>

\* build_response and the switch of the descriptor to EPOLLOUT.
Answer(status, from, parsed) ==
  /\ NextEvent
  /\ \/ /\ fd' = [fd EXCEPT ![cur] = "out"]
        /\ res' = [res EXCEPT ![cur] = [status |-> status, from |-> from, parsed |-> parsed]]
     \/ /\ "mod" \in Failures[cur]
        /\ fd' = [fd EXCEPT ![cur] = "closed"]
        /\ UNCHANGED res
  /\ UNCHANGED streamed

\* An invalid access ends the process.
Crash == pc' = "crashed" /\ UNCHANGED <<fd, jsonBody, res, streamed>>

\* incoming_req is what the stack holds of an earlier request: its method and path, that
\* were freed or never set, may match any route or none, and the callback that they match
\* works on the earlier json_body.  A second free of the method ends the process.
AnswerUnparsed ==
  \/ /\ \/ Answer("callback", IF jsonBody \in {"unset", "bad"} THEN None ELSE jsonBody, FALSE)
        \/ \E s \in {"404", "405"} : Answer(s, None, FALSE)
     /\ UNCHANGED jsonBody
  \/ Crash

\* Seeded defect: the body is taken to start one piece later.
BodyReadOffByOne(b) ==
  [i \in 1 .. req[cur].length |->
     IF req[cur].head + i + 1 \in DOMAIN b THEN b[req[cur].head + i + 1] ELSE Unwritten]

\* Content-Length pieces from the end of the head on, received or not, and whether they
\* lie in request_buffer or behind it.
BodyRead(b) ==
  [i \in 1 .. req[cur].length |->
     IF req[cur].head + i \in DOMAIN b THEN b[req[cur].head + i] ELSE Unwritten]
BodyOf(c) == [i \in 1 .. req[c].body |-> <<c, req[c].head + i>>]

\* cJSON_ParseWithLengthOpts over that: no text at all, a client's whole body, or a text
\* made of other pieces, which may parse or not.  strncpy may stop at a piece that was
\* never written, so that what is before it may be a whole body too.
Decoded(b) ==
  LET text == BodyRead(b)
      exact == {c \in Conns : BodyOf(c) = text}
      before == {c \in Conns : /\ req[c].goodJson
                               /\ \E n \in DOMAIN text :
                                    /\ text[n] = Unwritten
                                    /\ BodyOf(c) = [i \in 1 .. n - 1 |-> text[i]]}
  IN IF DOMAIN text = {} THEN {"bad"}
     ELSE IF exact # {} THEN {IF req[c].goodJson THEN c ELSE "bad" : c \in exact}
     ELSE {"bad", "mixed"} \cup before

Complete(b) ==
  IF req[cur].method = "GET"
  THEN \/ Answer(Route(req[cur]), None, TRUE) /\ UNCHANGED jsonBody
       \/ jsonBody = "unset" /\ Crash    \* json_body was never assigned
  ELSE IF req[cur].length = None THEN Skip
  ELSE \E from \in Decoded(b) :
         /\ jsonBody' = from
         /\ IF from = "bad" THEN NextEvent /\ UNCHANGED <<fd, res, streamed>>
            ELSE Answer(Route(req[cur]), from, TRUE)

\* phr_parse_request over the first n pieces (RequestParser): the head is complete,
\* malformed or partial.  The middle of a request is no request.
ParseHead(b, n) ==
  IF b[1] # <<cur, 1>> THEN {"malformed", "partial"}
  ELSE IF ~req[cur].wellFormed THEN {"malformed"}
  ELSE IF n >= req[cur].head THEN {"complete"} ELSE {"partial"}

----------------------------------------------------------------------------
(* One turn of the read loop, to the next read or the end of the event. *)

Available == arrived[cur] - taken[cur]
KeepReading(len, errno, retries) ==
  /\ ev' = [ev EXCEPT !.len = len, !.errno = errno, !.retries = retries]
  /\ UNCHANGED <<pc, fd, jsonBody, res, streamed>>

\* Seeded defect: one empty read too many.
RetryOnceMore == IF ev.retries >= MaxRetries THEN ev' = NoEvent /\ AnswerUnparsed
                 ELSE KeepReading(ev.len, "EAGAIN", ev.retries + 1)

Retry == IF ev.retries + 1 >= MaxRetries THEN ev' = NoEvent /\ AnswerUnparsed
         ELSE KeepReading(ev.len, "EAGAIN", ev.retries + 1)

\* A successful read leaves errno as it was: after one EAGAIN what comes is dropped.
\* What does not fit request_buffer is written behind it, which may end the process.
ReadBytes ==
  LET n == IF Available < BufferSize THEN Available ELSE BufferSize
      len == ev.len + n
      filled == [i \in DOMAIN buf |-> IF i \in ev.len + 1 .. len
                                      THEN <<cur, taken[cur] + i - ev.len>> ELSE buf[i]]
  IN /\ n > 0
     /\ taken' = [taken EXCEPT ![cur] = @ + n]
     /\ buf' = filled
     /\ \/ len > MaxRequest /\ ev' = NoEvent /\ Crash
        \/ ev.errno = "EAGAIN" /\ Retry
        \/ ev.errno = "0" /\ len > MaxRequest /\ ev' = NoEvent /\ Skip
        \/ /\ ev.errno = "0" /\ len <= MaxRequest
           /\ \/ /\ "partial" \in ParseHead(filled, len)
                 /\ KeepReading(len, "0", ev.retries)
              \/ "malformed" \in ParseHead(filled, len) /\ ev' = NoEvent /\ Skip
              \/ "complete" \in ParseHead(filled, len) /\ ev' = NoEvent /\ Complete(filled)

ReadNothing == Available = 0 /\ peer[cur] = "open" /\ Retry /\ UNCHANGED <<taken, buf>>

\* 0 at the end of the stream, -1 with another errno on a reset connection.
ReadEnd ==
  /\ Available = 0 /\ peer[cur] # "open"
  /\ \/ ev.errno = "EAGAIN" /\ peer[cur] = "finish" /\ Retry
     \/ (ev.errno = "0" \/ peer[cur] = "reset") /\ ev' = NoEvent /\ Skip
  /\ UNCHANGED <<taken, buf>>

Read ==
  /\ pc = "read"
  /\ UNCHANGED <<req, netVars, batch>>
  /\ ReadBytes \/ ReadNothing \/ ReadEnd

----------------------------------------------------------------------------
(* EPOLLOUT: send, with the full length whatever has been sent already. *)

\* Seeded defect: the first send is taken to have sent everything.
SentAtOnce(c, k) ==
  /\ streamed' = [streamed EXCEPT ![c] = @ + k]
  /\ fd' = [fd EXCEPT ![c] = "closed"]

Sent(c, k) ==
  /\ streamed' = [streamed EXCEPT ![c] = @ + k]
  /\ fd' = IF streamed[c] + k >= ResponseLength THEN [fd EXCEPT ![c] = "closed"] ELSE fd

Writable(c) == pc = "next" /\ <<c, "out">> \in batch
WriteDone(c) ==
  /\ batch' = batch \ {<<c, "out">>}
  /\ UNCHANGED <<req, netVars, taken, readVars, jsonBody, res>>

Write(c) ==
  /\ Writable(c) /\ peer[c] # "reset"
  /\ WriteDone(c) /\ NextEvent
  /\ \E k \in 1 .. ResponseLength : Sent(c, k)

\* EAGAIN, or an error (or SIGPIPE) on a connection reset since epoll_wait.
WriteFails(c) ==
  /\ Writable(c)
  /\ WriteDone(c) /\ UNCHANGED <<fd, streamed>>
  /\ NextEvent \/ (peer[c] = "reset" /\ pc' = "crashed")

\* Seeded defect: the part of a pointer is a descriptor that is in use.
IgnoreSomebody(c) ==
  /\ pc = "next" /\ <<c, "err">> \in batch
  /\ \E d \in IF fd[c] = "in" THEN {c} ELSE Conns : fd' = [fd EXCEPT ![d] = "closed"]
  /\ batch' = batch \ {<<c, "err">>}
  /\ NextEvent
  /\ UNCHANGED <<req, netVars, taken, readVars, jsonBody, res, streamed>>

\* Seeded defect: break instead of the end of the loop body, the other events are dropped.
IgnoreBreaks(c) ==
  /\ pc = "next" /\ <<c, "err">> \in batch
  /\ fd' = IF fd[c] = "in" THEN [fd EXCEPT ![c] = "closed"] ELSE fd
  /\ batch' = {} /\ pc' = "wait"
  /\ UNCHANGED <<req, netVars, taken, readVars, jsonBody, res, streamed>>

\* Any other event: data.fd is closed, and data.fd of a response is part of a pointer.
Ignore(c) ==
  /\ pc = "next" /\ <<c, "err">> \in batch
  /\ fd' = IF fd[c] = "in" THEN [fd EXCEPT ![c] = "closed"] ELSE fd
  /\ batch' = batch \ {<<c, "err">>}
  /\ NextEvent
  /\ UNCHANGED <<req, netVars, taken, readVars, jsonBody, res, streamed>>

Next ==
  \/ Wait \/ Read
  \/ \E c \in Conns : \/ Register(c) \/ Send(c) \/ StartRead(c)
                      \/ Write(c) \/ WriteFails(c) \/ Ignore(c)
                      \/ \E how \in {"finish", "reset"} : HangUp(c, how)

\* The thread keeps running and a client that reads makes room for more.
Fairness ==
  /\ WF_vars(Wait) /\ WF_vars(Read)
  /\ \A c \in Conns : /\ WF_vars(Register(c)) /\ WF_vars(StartRead(c))
                      /\ WF_vars(Ignore(c)) /\ WF_vars(WriteFails(c)) /\ SF_vars(Write(c))

Spec == Init /\ [][Next]_vars
FairSpec == Spec /\ Fairness
=============================================================================
