----------------------------- MODULE HandlerProofs -----------------------------
(***************************************************************************)
(* Theorems about Handler, for any connections, requests, failures, buffer *)
(* sizes and response lengths: every property of HandlerProperties that is *)
(* not about progress.                                                     *)
(***************************************************************************)
EXTENDS HandlerProperties, TLAPS

\* What the stack's json_body may be.
Holders == Conns \cup {"unset", "bad", "mixed"}

\* What TypeOK leaves out: which variables are functions, and the responses.
Shapes ==
    /\ arrived \in [Conns -> Nat] /\ taken \in [Conns -> Nat]
    /\ streamed \in [Conns -> Nat] /\ res \in [Conns -> Responses \cup {None}]
    /\ ev \in [conn : Conns \cup {None}, len : Nat, errno : {"0", "EAGAIN"},
               retries : Nat]
    /\ DOMAIN buf = 1 .. MaxRequest

\* An event of the batch is of an open descriptor, which has no other event and is
\* not being read.
Events ==
    /\ \A e \in batch : fd[e[1]] \in {"in", "out"}
    /\ \A e, f \in batch : e[1] = f[1] => e = f
    /\ pc = "read" => fd[cur] = "in" /\ \A e \in batch : e[1] # cur

\* A response belongs to a descriptor that is only written to, until all is sent.
Answers ==
    /\ \A c \in Conns : res[c] # None => fd[c] \in {"out", "closed"}
    /\ \A c \in Conns : fd[c] = "out" => res[c] # None /\ streamed[c] < ResponseLength
    /\ \A c \in Conns : fd[c] \in {"none", "in"} => streamed[c] = 0

\* While a head that was read from its start is incomplete, the buffer starts with
\* the pieces of that request, in order, and nothing else was taken from the socket.
Buffered ==
    pc = "read" /\ ev.errno = "0" /\ ev.len > 0 /\ buf[1] = <<cur, 1>> =>
      taken[cur] = ev.len /\ \A i \in 1 .. ev.len : buf[i] = <<cur, i>>

HandlerInv ==
    /\ TypeOK /\ Shapes /\ Events /\ BatchIsCurrent /\ Answers /\ WholeResponse
    /\ Buffered /\ OwnBodyIfRead

\* The numbers of the constants.
LEMMA Sizes ==
    /\ BufferSize \in Nat \ {0} /\ MaxRequest \in Nat \ {0} /\ MaxRetries \in Nat \ {0}
    /\ ResponseLength \in Nat \ {0} /\ None \notin Conns /\ None \notin Responses
BY HandlerAssumption DEF Responses

\* A request has as many pieces as its head and its body; a JSON body has some.
LEMMA RequestSizes ==
    ASSUME NEW c \in Conns, req[c] \in Kinds[c]
    PROVE  /\ req[c].head \in Nat \ {0} /\ req[c].body \in Nat /\ Total(c) \in Nat
           /\ req[c].goodJson => req[c].body > 0
<1>1. req[c] \in UNION {Kinds[d] : d \in Conns}
  OBVIOUS
<1>2. \A k \in UNION {Kinds[d] : d \in Conns} :
        k.head \in Nat \ {0} /\ k.body \in Nat /\ (k.goodJson => k.body > 0)
  BY HandlerAssumption, Zenon
<1> QED  BY <1>1, <1>2 DEF Total

\* The thread starts without a connection.
LEMMA HandlerInit == Init => HandlerInv
<1> SUFFICES ASSUME Init  PROVE HandlerInv
  OBVIOUS
<1> USE Sizes DEF Init, cur
<1>1. \A c \in Conns : req[c] \in Kinds[c]
  OBVIOUS
<1>2. \A c \in Conns : Total(c) \in Nat
  BY <1>1, RequestSizes
<1>3. ev.conn = None /\ ev.len = 0 /\ ev.errno = "0" /\ ev.retries = 0
  BY DEF NoEvent
<1>4. TypeOK
  <2>1. /\ peer \in [Conns -> {"open", "finish", "reset"}]
        /\ fd \in [Conns -> {"none", "in", "out", "closed"}]
        /\ edge \in [Conns -> BOOLEAN] /\ jsonBody \in Holders
    BY DEF Holders
  <2>2. \A c \in Conns : arrived[c] \in 0 .. Total(c) /\ taken[c] \in 0 .. arrived[c]
    BY <1>2
  <2>3. \A c \in Conns : streamed[c] \in 0 .. 2 * ResponseLength
    OBVIOUS
  <2>4. /\ batch \subseteq Conns \X {"in", "out", "err"}
        /\ pc \in {"wait", "next", "read", "crashed"} /\ (cur = None <=> pc # "read")
    BY <1>3
  <2>5. /\ ev.len \in 0 .. MaxRequest /\ ev.retries \in 0 .. MaxRetries - 1
        /\ ev.errno \in {"0", "EAGAIN"}
    BY <1>3
  <2> QED  BY <1>1, <2>1, <2>2, <2>3, <2>4, <2>5 DEF TypeOK, Holders
<1>5. Shapes
  BY DEF Shapes, NoEvent
<1>6. Events /\ BatchIsCurrent /\ Answers /\ WholeResponse /\ Buffered /\ OwnBodyIfRead
  BY DEF Events, BatchIsCurrent, Answers, WholeResponse, Buffered, OwnBodyIfRead
<1> QED  BY <1>4, <1>5, <1>6 DEF HandlerInv

-------------------------------------------------------------------------------
(* The clients and the accept loop. *)

\* A new connection is registered for reading.
LEMMA RegisterKeeps ==
    ASSUME HandlerInv, NEW c \in Conns, Register(c)
    PROVE  HandlerInv'
<1> USE DEF HandlerInv, cur
<1>1. /\ fd[c] = "none" /\ fd' = [fd EXCEPT ![c] = "in"]
      /\ UNCHANGED <<req, peer, arrived, taken, batch, pc, ev, buf, jsonBody, res, streamed>>
      /\ fd \in [Conns -> {"none", "in", "out", "closed"}]
  BY DEF Register, TypeOK, readVars
<1>2. edge' \in [Conns -> BOOLEAN]
  <2>1. edge \in [Conns -> BOOLEAN]
    BY DEF TypeOK
  <2> QED  BY <2>1, Zenon DEF Register
<1>3. TypeOK' /\ Shapes'
  BY <1>1, <1>2 DEF TypeOK, Shapes, Total
<1>4. \A e \in batch : e[1] \in Conns /\ e[1] # c
  BY <1>1 DEF Events, TypeOK
<1>5. Events' /\ BatchIsCurrent'
  <2>1. pc = "read" => cur \in Conns /\ cur # c
    BY <1>1 DEF Events, TypeOK, Shapes
  <2> QED  BY <1>1, <1>4, <2>1 DEF Events, BatchIsCurrent
<1>6. Answers' /\ WholeResponse'
  BY <1>1 DEF Answers, WholeResponse
<1>7. Buffered' /\ OwnBodyIfRead'
  BY <1>1 DEF Buffered, OwnBodyIfRead, Total
<1> QED  BY <1>3, <1>5, <1>6, <1>7

\* A client sends more of its request.
LEMMA SendKeeps ==
    ASSUME HandlerInv, NEW c \in Conns, Send(c)
    PROVE  HandlerInv'
<1> USE DEF HandlerInv, cur
<1>1. UNCHANGED <<req, peer, taken, fd, batch, pc, ev, buf, jsonBody, res, streamed>>
  BY DEF Send, readVars
<1>2. PICK n \in arrived[c] + 1 .. Total(c) : arrived' = [arrived EXCEPT ![c] = n]
  BY DEF Send
<1>3. \A d \in Conns : Total(d) \in Nat /\ arrived[d] \in Nat /\ taken[d] \in Nat
  BY RequestSizes DEF TypeOK, Shapes
<1>4. edge' \in [Conns -> BOOLEAN]
  <2>1. edge \in [Conns -> BOOLEAN]
    BY DEF TypeOK
  <2> QED  BY <2>1, Zenon DEF Send
<1>5. \A d \in Conns : arrived'[d] \in 0 .. Total(d) /\ taken[d] \in 0 .. arrived'[d]
  BY <1>2, <1>3 DEF TypeOK, Shapes
<1>6. TypeOK' /\ Shapes'
  <2>1. TypeOK'
    BY <1>1, <1>4, <1>5 DEF TypeOK, Total
  <2> QED  BY <1>1, <1>2, <1>3, <2>1 DEF Shapes
<1>7. Events' /\ BatchIsCurrent' /\ Answers' /\ WholeResponse' /\ Buffered' /\ OwnBodyIfRead'
  BY <1>1 DEF Events, BatchIsCurrent, Answers, WholeResponse, Buffered, OwnBodyIfRead, Total
<1> QED  BY <1>6, <1>7

\* A client finishes sending or resets the connection.
LEMMA HangUpKeeps ==
    ASSUME HandlerInv, NEW c \in Conns, NEW how \in {"finish", "reset"}, HangUp(c, how)
    PROVE  HandlerInv'
<1> USE DEF HandlerInv, cur
<1>1. /\ UNCHANGED <<req, arrived, taken, fd, batch, pc, ev, buf, jsonBody, res, streamed>>
      /\ peer' = [peer EXCEPT ![c] = how]
  BY DEF HangUp, readVars
<1>2. edge' \in [Conns -> BOOLEAN]
  <2>1. edge \in [Conns -> BOOLEAN]
    BY DEF TypeOK
  <2> QED  BY <2>1, Zenon DEF HangUp
<1>3. TypeOK' /\ Shapes'
  BY <1>1, <1>2 DEF TypeOK, Shapes, Total
<1>4. Events' /\ BatchIsCurrent' /\ Answers' /\ WholeResponse' /\ Buffered' /\ OwnBodyIfRead'
  BY <1>1 DEF Events, BatchIsCurrent, Answers, WholeResponse, Buffered, OwnBodyIfRead, Total
<1> QED  BY <1>3, <1>4

-------------------------------------------------------------------------------
(* The epoll loop. *)

\* epoll_wait reports each ready descriptor once.
LEMMA WaitKeeps ==
    ASSUME HandlerInv, Wait
    PROVE  HandlerInv'
<1> USE DEF HandlerInv, cur
<1>1. /\ UNCHANGED <<req, peer, arrived, taken, fd, ev, buf, jsonBody, res, streamed>>
      /\ batch' = {Event(c) : c \in {d \in Conns : Ready(d)}} /\ pc' = "next"
      /\ pc = "wait"
  BY DEF Wait, readVars
<1>2. edge' \in [Conns -> BOOLEAN]
  <2>1. edge \in [Conns -> BOOLEAN]
    BY DEF TypeOK
  <2>2. \A c \in Conns : (edge[c] /\ fd[c] # "in") \in BOOLEAN
    OBVIOUS
  <2> QED  BY <2>2, Zenon DEF Wait
<1>3. \A e \in batch' : /\ e[1] \in Conns /\ fd[e[1]] \in {"in", "out"}
                        /\ e = <<e[1], IF peer[e[1]] = "reset" THEN "err" ELSE fd[e[1]]>>
  BY <1>1 DEF Event, Ready
<1>4. batch' \subseteq Conns \X {"in", "out", "err"}
  <2> SUFFICES ASSUME NEW e \in batch'  PROVE e \in Conns \X {"in", "out", "err"}
    OBVIOUS
  <2>1. (IF peer[e[1]] = "reset" THEN "err" ELSE fd[e[1]]) \in {"in", "out", "err"}
    BY <1>3
  <2> QED  BY <1>3, <2>1
<1>5. TypeOK' /\ Shapes'
  BY <1>1, <1>2, <1>4 DEF TypeOK, Shapes, Total
<1>6. Events' /\ BatchIsCurrent'
  <2>1. \A e, f \in batch' : e[1] = f[1] => e = f
    BY <1>3
  <2>2. \A e \in batch' : e[2] \in {"in", "out"} => fd[e[1]] = e[2]
    BY <1>3
  <2> QED  BY <1>1, <1>3, <2>1, <2>2 DEF Events, BatchIsCurrent
<1>7. Answers' /\ WholeResponse' /\ Buffered' /\ OwnBodyIfRead'
  BY <1>1 DEF Answers, WholeResponse, Buffered, OwnBodyIfRead, Total
<1> QED  BY <1>5, <1>6, <1>7

\* The next event is of a descriptor to read.
LEMMA StartReadKeeps ==
    ASSUME HandlerInv, NEW c \in Conns, StartRead(c)
    PROVE  HandlerInv'
<1> USE Sizes DEF HandlerInv, cur
<1>1. /\ UNCHANGED <<req, peer, arrived, edge, taken, fd, buf, jsonBody, res, streamed>>
      /\ <<c, "in">> \in batch /\ batch' = batch \ {<<c, "in">>} /\ pc' = "read"
      /\ ev' = [conn |-> c, len |-> 0, errno |-> "0", retries |-> 0]
  BY DEF StartRead, NoEvent, netVars
<1>2. TypeOK' /\ Shapes'
  <2>1. /\ ev'.conn = c /\ ev'.len \in 0 .. MaxRequest /\ ev'.errno = "0"
        /\ ev'.retries \in 0 .. MaxRetries - 1
    BY <1>1
  <2>2. c # None /\ batch' \subseteq batch
    BY <1>1
  <2>3. TypeOK'
    BY <1>1, <2>1, <2>2 DEF TypeOK, Total
  <2> QED  BY <1>1, <2>3 DEF Shapes
<1>3. fd[c] = "in" /\ \A e \in batch' : e[1] # c
  BY <1>1 DEF Events, BatchIsCurrent
<1>4. Events' /\ BatchIsCurrent'
  BY <1>1, <1>3 DEF Events, BatchIsCurrent
<1>5. Answers' /\ WholeResponse' /\ Buffered' /\ OwnBodyIfRead'
  BY <1>1 DEF Answers, WholeResponse, Buffered, OwnBodyIfRead, Total
<1> QED  BY <1>2, <1>4, <1>5

\* One send, of all that is left or of a part.
LEMMA WriteKeeps ==
    ASSUME HandlerInv, NEW c \in Conns, Write(c)
    PROVE  HandlerInv'
<1> USE Sizes DEF HandlerInv, cur
<1>1. /\ UNCHANGED <<req, peer, arrived, edge, taken, ev, buf, jsonBody, res>>
      /\ pc = "next" /\ <<c, "out">> \in batch /\ batch' = batch \ {<<c, "out">>}
      /\ pc' \in {"wait", "next"}
  BY DEF Write, Writable, WriteDone, NextEvent, netVars, readVars
<1>2. PICK k \in 1 .. ResponseLength :
        /\ streamed' = [streamed EXCEPT ![c] = @ + k]
        /\ fd' = IF streamed[c] + k >= ResponseLength THEN [fd EXCEPT ![c] = "closed"] ELSE fd
  BY DEF Write, Sent
<1>3. fd[c] = "out" /\ res[c] # None /\ streamed[c] \in Nat /\ streamed[c] < ResponseLength
  BY <1>1 DEF BatchIsCurrent, Answers, Shapes
<1>4. /\ streamed'[c] = streamed[c] + k /\ \A d \in Conns \ {c} : streamed'[d] = streamed[d]
      /\ streamed' \in [Conns -> Nat]
  BY <1>2, <1>3 DEF Shapes
<1>5. /\ fd' \in [Conns -> {"none", "in", "out", "closed"}]
      /\ \A d \in Conns \ {c} : fd'[d] = fd[d]
      /\ fd'[c] = IF streamed'[c] >= ResponseLength THEN "closed" ELSE "out"
  BY <1>2, <1>3, <1>4 DEF TypeOK
<1>6. \A d \in Conns : streamed'[d] \in 0 .. 2 * ResponseLength
  BY <1>3, <1>4 DEF TypeOK
<1>7. batch' \subseteq batch /\ \A e \in batch' : e[1] \in Conns /\ e[1] # c
  BY <1>1 DEF Events, TypeOK
<1>8. TypeOK'
  BY <1>1, <1>5, <1>6, <1>7 DEF TypeOK, Total
<1>9. Shapes'
  BY <1>1, <1>4 DEF Shapes
<1>10. Events' /\ BatchIsCurrent'
  BY <1>1, <1>5, <1>7 DEF Events, BatchIsCurrent
<1>11. Answers' /\ WholeResponse'
  BY <1>1, <1>3, <1>4, <1>5 DEF Answers, WholeResponse
<1>12. Buffered' /\ OwnBodyIfRead'
  BY <1>1 DEF Buffered, OwnBodyIfRead, Total
<1> QED  BY <1>8, <1>9, <1>10, <1>11, <1>12

\* send failed: EAGAIN, or the connection is reset.
LEMMA WriteFailsKeeps ==
    ASSUME HandlerInv, NEW c \in Conns, WriteFails(c)
    PROVE  HandlerInv'
<1> USE DEF HandlerInv, cur
<1>1. /\ UNCHANGED <<req, peer, arrived, edge, taken, fd, ev, buf, jsonBody, res, streamed>>
      /\ pc = "next" /\ batch' \subseteq batch /\ pc' \in {"wait", "next", "crashed"}
  BY DEF WriteFails, Writable, WriteDone, NextEvent, netVars, readVars
<1>2. TypeOK' /\ Shapes'
  <2>1. TypeOK'
    BY <1>1 DEF TypeOK, Total
  <2> QED  BY <1>1, <2>1 DEF Shapes
<1>3. Events' /\ BatchIsCurrent' /\ Answers' /\ WholeResponse' /\ Buffered' /\ OwnBodyIfRead'
  BY <1>1 DEF Events, BatchIsCurrent, Answers, WholeResponse, Buffered, OwnBodyIfRead, Total
<1> QED  BY <1>2, <1>3

\* An event that is neither: the connection is closed, or only its response forgotten.
LEMMA IgnoreKeeps ==
    ASSUME HandlerInv, NEW c \in Conns, Ignore(c)
    PROVE  HandlerInv'
<1> USE DEF HandlerInv, cur
<1>1. /\ UNCHANGED <<req, peer, arrived, edge, taken, ev, buf, jsonBody, res, streamed>>
      /\ pc = "next" /\ <<c, "err">> \in batch /\ batch' = batch \ {<<c, "err">>}
      /\ pc' \in {"wait", "next"}
      /\ fd' = IF fd[c] = "in" THEN [fd EXCEPT ![c] = "closed"] ELSE fd
  BY DEF Ignore, NextEvent, netVars, readVars
<1>2. /\ fd' \in [Conns -> {"none", "in", "out", "closed"}]
      /\ \A d \in Conns \ {c} : fd'[d] = fd[d]
      /\ fd'[c] = IF fd[c] = "in" THEN "closed" ELSE fd[c]
  BY <1>1 DEF TypeOK
<1>3. batch' \subseteq batch /\ \A e \in batch' : e[1] \in Conns /\ e[1] # c
  BY <1>1 DEF Events, TypeOK
<1>4. TypeOK' /\ Shapes'
  <2>1. TypeOK'
    BY <1>1, <1>2, <1>3 DEF TypeOK, Total
  <2> QED  BY <1>1, <2>1 DEF Shapes
<1>5. Events' /\ BatchIsCurrent'
  BY <1>1, <1>2, <1>3 DEF Events, BatchIsCurrent
<1>6. Answers' /\ WholeResponse'
  BY <1>1, <1>2 DEF Answers, WholeResponse
<1>7. Buffered' /\ OwnBodyIfRead'
  BY <1>1 DEF Buffered, OwnBodyIfRead, Total
<1> QED  BY <1>4, <1>5, <1>6, <1>7

-------------------------------------------------------------------------------
(* The read loop. *)

\* The loop reads on, with more in the buffer or one retry fewer.
ReadsOn ==
    /\ UNCHANGED <<pc, fd, res, streamed>>
    /\ ev' \in [conn : {cur}, len : 0 .. MaxRequest, errno : {"0", "EAGAIN"},
                retries : 0 .. MaxRetries - 1]

\* The event is over without an answer, or the process has crashed.
NoAnswer ==
    /\ ev' = NoEvent /\ pc' \in {"wait", "next", "crashed"}
    /\ UNCHANGED <<fd, res, streamed>>

\* The event is over: the response is built, or epoll_ctl failed and it is not.
Answered ==
    /\ ev' = NoEvent /\ pc' \in {"wait", "next"} /\ UNCHANGED streamed
    /\ \/ /\ fd' = [fd EXCEPT ![cur] = "out"]
          /\ \E r \in Responses :
               /\ res' = [res EXCEPT ![cur] = r]
               /\ r.parsed /\ taken'[cur] = Total(cur) /\ Honest(req[cur]) => r.from = cur
       \/ fd' = [fd EXCEPT ![cur] = "closed"] /\ UNCHANGED res

\* All that a turn of the read loop may do.
Turn ==
    /\ UNCHANGED <<req, peer, arrived, edge, batch>> /\ DOMAIN buf' = DOMAIN buf
    /\ jsonBody' \in Holders
    /\ \E t \in taken[cur] .. arrived[cur] : taken' = [taken EXCEPT ![cur] = t]
    /\ \/ ReadsOn /\ Buffered'
       \/ NoAnswer \/ Answered

\* Retrying reads on, and the fifth time answers a request that was never parsed.
LEMMA RetryTurns ==
    ASSUME HandlerInv, pc = "read", Retry, NEW t \in Nat,
           taken' = [taken EXCEPT ![cur] = t]
    PROVE  jsonBody' \in Holders /\ ((ReadsOn /\ Buffered') \/ NoAnswer \/ Answered)
<1> USE Sizes DEF cur
<1>1. /\ ev.len \in 0 .. MaxRequest /\ ev.retries \in 0 .. MaxRetries - 1
      /\ cur \in Conns /\ jsonBody \in Holders
  BY DEF HandlerInv, TypeOK, Holders, Shapes
<1>2. CASE ev.retries + 1 >= MaxRetries
  <2>1. ev' = NoEvent /\ AnswerUnparsed
    BY <1>2 DEF Retry
  <2>2. jsonBody' = jsonBody
    BY <2>1 DEF AnswerUnparsed, Crash
  <2>3. CASE Crash
    BY <1>1, <2>1, <2>2, <2>3 DEF Crash, NoAnswer
  <2>4. ASSUME NEW s \in {"callback", "404", "405"}, NEW from \in Conns \cup {None, "mixed"},
               Answer(s, from, FALSE)
        PROVE  Answered
    <3>1. [status |-> s, from |-> from, parsed |-> FALSE] \in Responses
      BY DEF Responses
    <3> QED  BY <2>1, <2>4, <3>1 DEF Answer, Answered, NextEvent
  <2>5. (IF jsonBody \in {"unset", "bad"} THEN None ELSE jsonBody) \in Conns \cup {None, "mixed"}
    BY <1>1 DEF Holders
  <2> QED  BY <1>1, <2>1, <2>2, <2>3, <2>4, <2>5 DEF AnswerUnparsed
<1>3. CASE ~(ev.retries + 1 >= MaxRetries)
  <2>1. /\ KeepReading(ev.len, "EAGAIN", ev.retries + 1)
        /\ ev.retries + 1 \in 0 .. MaxRetries - 1
    BY <1>1, <1>3 DEF Retry
  <2>2. ev' = [ev EXCEPT !.len = ev.len, !.errno = "EAGAIN", !.retries = ev.retries + 1]
    BY <2>1 DEF KeepReading
  <2>3. ReadsOn /\ ev'.errno = "EAGAIN"
    BY <1>1, <2>1, <2>2 DEF KeepReading, ReadsOn, HandlerInv, Shapes
  <2>4. Buffered' /\ jsonBody' \in Holders
    BY <1>1, <2>1, <2>3 DEF Buffered, KeepReading
  <2> QED  BY <2>3, <2>4
<1> QED  BY <1>2, <1>3

\* A request whose whole body is in the buffer is decoded from that body: no other
\* request has the same pieces.
LEMMA DecodesOwnBody ==
    ASSUME HandlerInv, NEW b, cur \in Conns, NEW from \in Decoded(b), from # "bad",
           Honest(req[cur]), \A i \in 1 .. Total(cur) : i \in DOMAIN b /\ b[i] = <<cur, i>>
    PROVE  from = cur
<1>1. /\ req[cur].head \in Nat \ {0} /\ req[cur].body \in Nat
      /\ Total(cur) = req[cur].head + req[cur].body /\ req[cur].length = req[cur].body
  BY RequestSizes DEF HandlerInv, TypeOK, Total, Honest
<1>2. \A i \in 1 .. req[cur].body : req[cur].head + i \in 1 .. Total(cur)
  BY <1>1
<1>3. BodyOf(cur) = BodyRead(b)
  BY <1>1, <1>2 DEF BodyOf, BodyRead
<1>4. \E c \in Conns : BodyOf(c) = BodyRead(b) /\ req[c].goodJson /\ from = c
  <2>1. /\ DOMAIN BodyRead(b) # {}
        /\ from \in {IF req[c].goodJson THEN c ELSE "bad" :
                       c \in {d \in Conns : BodyOf(d) = BodyRead(b)}}
    BY <1>3 DEF Decoded
  <2> QED  BY <2>1
<1>5. PICK c \in Conns : BodyOf(c) = BodyRead(b) /\ req[c].goodJson /\ from = c
  BY <1>4
<1>6. req[c].body \in Nat /\ req[c].body > 0
  BY <1>5, RequestSizes DEF HandlerInv, TypeOK
<1>7. BodyOf(c) = BodyOf(cur)
  BY <1>3, <1>5
<1>8. 1 \in DOMAIN BodyOf(c) /\ 1 \in DOMAIN BodyOf(cur)
  <2>1. 1 \in DOMAIN BodyOf(c)
    BY <1>6 DEF BodyOf
  <2> QED  BY <1>7, <2>1
<1>9. BodyOf(c)[1] = <<c, req[c].head + 1>> /\ BodyOf(cur)[1] = <<cur, req[cur].head + 1>>
  BY <1>8 DEF BodyOf
<1> QED  BY <1>5, <1>7, <1>9

\* A request whose head is complete is answered, or skipped for its body.
LEMMA CompleteTurns ==
    ASSUME HandlerInv, cur \in Conns, NEW b, Complete(b), ev' = NoEvent,
           taken'[cur] = Total(cur)
             => \A i \in 1 .. Total(cur) : i \in DOMAIN b /\ b[i] = <<cur, i>>
    PROVE  jsonBody' \in Holders /\ (NoAnswer \/ Answered)
<1> USE Sizes
<1>1. jsonBody \in Holders /\ Route(req[cur]) \in {"callback", "404", "405"}
  BY DEF HandlerInv, TypeOK, Route, Holders
<1>2. CASE req[cur].method = "GET" /\ Answer(Route(req[cur]), None, TRUE) /\ UNCHANGED jsonBody
  <2>1. [status |-> Route(req[cur]), from |-> None, parsed |-> TRUE] \in Responses
    BY <1>1 DEF Responses
  <2>2. ~Honest(req[cur])
    BY <1>2 DEF Honest
  <2> QED  BY <1>1, <1>2, <2>1, <2>2 DEF Answer, Answered, NextEvent
<1>3. CASE Crash
  BY <1>1, <1>3 DEF Crash, NoAnswer
<1>4. CASE Skip
  BY <1>1, <1>4 DEF Skip, NoAnswer, NextEvent
<1>5. ASSUME NEW from \in Decoded(b), jsonBody' = from
      PROVE  jsonBody' \in Holders /\ from \in Conns \cup {"bad", "mixed"}
  BY <1>5 DEF Decoded, Holders
<1>6. ASSUME NEW from \in Decoded(b), from = "bad", NextEvent /\ UNCHANGED <<fd, res, streamed>>
      PROVE  NoAnswer
  BY <1>6 DEF NoAnswer, NextEvent
<1>7. ASSUME NEW from \in Decoded(b), jsonBody' = from, from # "bad",
             Answer(Route(req[cur]), from, TRUE)
      PROVE  Answered
  <2>1. from \in Conns \cup {"mixed"}
    BY <1>5, <1>7
  <2>2. [status |-> Route(req[cur]), from |-> from, parsed |-> TRUE] \in Responses
    BY <1>1, <2>1 DEF Responses
  <2>3. taken'[cur] = Total(cur) /\ Honest(req[cur]) => from = cur
    BY <1>7, DecodesOwnBody
  <2> QED  BY <1>7, <2>2, <2>3 DEF Answer, Answered, NextEvent
<1> QED  BY <1>2, <1>3, <1>4, <1>5, <1>6, <1>7 DEF Complete

\* A successful read appends to the buffer what comes next on the connection.
LEMMA ReadBytesTurns ==
    ASSUME HandlerInv, pc = "read", UNCHANGED <<req, netVars, batch>>, ReadBytes
    PROVE  Turn
<1> USE Sizes
<1> DEFINE n == IF Available < BufferSize THEN Available ELSE BufferSize
           len == ev.len + n
           filled == [i \in DOMAIN buf |-> IF i \in ev.len + 1 .. len
                                           THEN <<cur, taken[cur] + i - ev.len>> ELSE buf[i]]
<1>1. /\ cur \in Conns /\ taken[cur] \in Nat /\ arrived[cur] \in Nat
      /\ taken[cur] <= arrived[cur] /\ Available = arrived[cur] - taken[cur]
      /\ ev.len \in Nat /\ ev.len <= MaxRequest /\ ev.retries \in 0 .. MaxRetries - 1
      /\ jsonBody \in Holders /\ DOMAIN buf = 1 .. MaxRequest
      /\ ev.errno \in {"0", "EAGAIN"} /\ Total(cur) \in Nat /\ req[cur].head \in Nat \ {0}
  BY RequestSizes DEF HandlerInv, TypeOK, Holders, Shapes, cur, Available
<1>2. /\ n > 0 /\ n \in Nat /\ n <= BufferSize /\ taken[cur] + n <= arrived[cur]
      /\ len \in Nat /\ len = ev.len + n
      /\ taken' = [taken EXCEPT ![cur] = taken[cur] + n] /\ buf' = filled
  BY SMTT(60), <1>1 DEF ReadBytes
<1> HIDE DEF n, len
<1>3. UNCHANGED <<req, peer, arrived, edge, batch>> /\ DOMAIN buf' = DOMAIN buf
  BY <1>2 DEF netVars
<1>4. \E t \in taken[cur] .. arrived[cur] : taken' = [taken EXCEPT ![cur] = t]
  <2>1. taken[cur] + n \in taken[cur] .. arrived[cur]
    BY SMTT(60), <1>1, <1>2
  <2> QED  BY <1>2, <2>1, Zenon
<1>5. taken'[cur] = taken[cur] + n
  BY <1>1, <1>2 DEF HandlerInv, Shapes
<1>6. ASSUME len <= MaxRequest
      PROVE  \A i \in 1 .. len :
               /\ i \in DOMAIN buf
               /\ i <= ev.len => filled[i] = buf[i]
               /\ i > ev.len => filled[i] = <<cur, taken[cur] + i - ev.len>>
  <2> SUFFICES ASSUME NEW i \in 1 .. len
               PROVE  /\ i \in DOMAIN buf
                      /\ i <= ev.len => filled[i] = buf[i]
                      /\ i > ev.len => filled[i] = <<cur, taken[cur] + i - ev.len>>
    OBVIOUS
  <2>1. i \in DOMAIN buf
    BY SMTT(60), <1>1, <1>2, <1>6
  <2>2. i \in ev.len + 1 .. len <=> i > ev.len
    BY SMTT(60), <1>1, <1>2
  <2> QED  BY SMTT(60), <1>1, <2>1, <2>2
<1> HIDE DEF filled
<1>7. ev.errno = "0" /\ len <= MaxRequest /\ filled[1] = <<cur, 1>>
        => taken'[cur] = len /\ \A i \in 1 .. len : filled[i] = <<cur, i>>
  <2> SUFFICES ASSUME ev.errno = "0", len <= MaxRequest, filled[1] = <<cur, 1>>
               PROVE  taken'[cur] = len /\ \A i \in 1 .. len : filled[i] = <<cur, i>>
    OBVIOUS
  <2>1. CASE ev.len = 0
    <3>1. filled[1] = <<cur, taken[cur] + 1 - 0>>
      BY <1>1, <1>2, <1>6, <2>1
    <3>2. taken[cur] = 0
      BY <1>1, <3>1
    <3> QED  BY <1>1, <1>2, <1>5, <1>6, <2>1, <3>2
  <2>2. CASE ev.len > 0
    <3>1. buf[1] = <<cur, 1>>
      <4>1. 1 \in 1 .. len /\ 1 <= ev.len
        BY SMTT(60), <1>1, <1>2, <2>2
      <4> QED  BY <1>6, <4>1
    <3>2. taken[cur] = ev.len /\ \A i \in 1 .. ev.len : buf[i] = <<cur, i>>
      BY <2>2, <3>1 DEF HandlerInv, Buffered
    <3>3. \A i \in 1 .. len : filled[i] = <<cur, i>>
      <4> SUFFICES ASSUME NEW i \in 1 .. len  PROVE filled[i] = <<cur, i>>
        OBVIOUS
      <4>1. CASE i <= ev.len
        BY <1>1, <1>6, <3>2, <4>1
      <4>2. CASE i > ev.len
        <5>1. taken[cur] + i - ev.len = i
          BY <1>1, <1>2, <3>2
        <5> QED  BY <1>6, <4>2, <5>1
      <4> QED  BY SMTT(60), <1>1, <1>2, <4>1, <4>2
    <3> QED  BY <1>2, <1>5, <3>2, <3>3
  <2> QED  BY SMTT(60), <1>1, <2>1, <2>2
<1>8. CASE Retry
  <2>1. taken[cur] + n \in Nat
    BY SMTT(60), <1>1, <1>2
  <2>2. jsonBody' \in Holders /\ ((ReadsOn /\ Buffered') \/ NoAnswer \/ Answered)
    BY <1>2, <1>8, <2>1, RetryTurns
  <2> QED  BY <1>3, <1>4, <2>2 DEF Turn
<1>9. CASE ev' = NoEvent /\ (Skip \/ Crash)
  BY <1>1, <1>3, <1>4, <1>9 DEF Turn, Skip, Crash, NoAnswer, NextEvent
<1>10. CASE ev.errno = "0" /\ len <= MaxRequest /\ KeepReading(len, "0", ev.retries)
  <2>1. ev' = [ev EXCEPT !.len = len, !.errno = "0", !.retries = ev.retries]
    BY <1>10 DEF KeepReading
  <2>2. ev' = [conn |-> cur, len |-> len, errno |-> "0", retries |-> ev.retries]
    BY <2>1 DEF HandlerInv, Shapes, cur
  <2>3. ReadsOn
    BY <1>1, <1>2, <1>10, <2>2 DEF KeepReading, ReadsOn
  <2>4. Buffered'
    BY <1>2, <1>7, <1>10, <2>2 DEF Buffered, cur
  <2> QED  BY <1>1, <1>3, <1>4, <1>10, <2>3, <2>4 DEF Turn, KeepReading
<1>11. CASE /\ ev.errno = "0" /\ len <= MaxRequest /\ ev' = NoEvent /\ Complete(filled)
            /\ "complete" \in ParseHead(filled, len)
  <2>1. filled[1] = <<cur, 1>>
    BY <1>11 DEF ParseHead
  <2>2. taken'[cur] = Total(cur)
          => \A i \in 1 .. Total(cur) : i \in DOMAIN filled /\ filled[i] = <<cur, i>>
    <3>1. DOMAIN filled = DOMAIN buf
      BY DEF filled
    <3>2. /\ taken'[cur] = len /\ \A i \in 1 .. len : filled[i] = <<cur, i>>
          /\ \A i \in 1 .. len : i \in DOMAIN buf
      BY <1>6, <1>7, <1>11, <2>1
    <3> QED  BY <3>1, <3>2
  <2>3. jsonBody' \in Holders /\ (NoAnswer \/ Answered)
    BY <1>1, <1>11, <2>2, CompleteTurns
  <2> QED  BY <1>3, <1>4, <2>3 DEF Turn
<1> QED
  <2>1. \/ Retry
        \/ ev' = NoEvent /\ (Skip \/ Crash)
        \/ ev.errno = "0" /\ len <= MaxRequest /\ KeepReading(len, "0", ev.retries)
        \/ /\ ev.errno = "0" /\ len <= MaxRequest /\ ev' = NoEvent /\ Complete(filled)
           /\ "complete" \in ParseHead(filled, len)
    BY DEF ReadBytes, n, len, filled
  <2> QED  BY <1>8, <1>9, <1>10, <1>11, <2>1

\* A turn of the read loop is one of those.
LEMMA ReadTurns ==
    ASSUME HandlerInv, Read
    PROVE  Turn /\ pc = "read"
<1>1. /\ pc = "read" /\ UNCHANGED <<req, netVars, batch>>
      /\ cur \in Conns /\ jsonBody \in Holders /\ taken \in [Conns -> Nat]
      /\ taken[cur] \in taken[cur] .. arrived[cur]
  BY Sizes DEF Read, HandlerInv, TypeOK, Holders, Shapes, cur
<1>2. CASE ReadBytes
  BY <1>1, <1>2, ReadBytesTurns
<1>3. ASSUME UNCHANGED <<taken, buf>>
      PROVE  /\ UNCHANGED <<req, peer, arrived, edge, batch>> /\ DOMAIN buf' = DOMAIN buf
             /\ taken' = [taken EXCEPT ![cur] = taken[cur]] /\ taken[cur] \in Nat
  BY <1>1, <1>3 DEF netVars
<1>4. CASE Retry /\ UNCHANGED <<taken, buf>>
  BY <1>1, <1>3, <1>4, RetryTurns DEF Turn
<1>5. CASE ev' = NoEvent /\ Skip /\ UNCHANGED <<taken, buf>>
  BY <1>1, <1>3, <1>5 DEF Turn, Skip, NoAnswer, NextEvent
<1> QED  BY <1>1, <1>2, <1>4, <1>5 DEF Read, ReadNothing, ReadEnd

\* A turn of the read loop touches the connection it reads and no other.
LEMMA ReadKeeps ==
    ASSUME HandlerInv, Read
    PROVE  HandlerInv'
<1> USE Sizes
<1>1. Turn /\ pc = "read"
  BY ReadTurns
<1>2. /\ cur \in Conns /\ fd[cur] = "in" /\ (\A e \in batch : e[1] # cur /\ e[1] \in Conns)
      /\ res[cur] = None /\ streamed[cur] = 0
      /\ fd \in [Conns -> {"none", "in", "out", "closed"}]
      /\ res \in [Conns -> Responses \cup {None}]
  BY <1>1 DEF HandlerInv, Events, Answers, TypeOK, Shapes, cur
<1>3. PICK t \in taken[cur] .. arrived[cur] : taken' = [taken EXCEPT ![cur] = t]
  BY <1>1 DEF Turn
<1>4. /\ UNCHANGED <<req, peer, arrived, edge, batch>> /\ DOMAIN buf' = DOMAIN buf
      /\ jsonBody' \in Holders /\ UNCHANGED streamed
  BY <1>1 DEF Turn, ReadsOn, NoAnswer, Answered
<1>5. /\ taken' \in [Conns -> Nat] /\ \A c \in Conns : taken'[c] \in 0 .. arrived[c]
      /\ \A c \in Conns \ {cur} : taken'[c] = taken[c]
  BY <1>2, <1>3 DEF HandlerInv, TypeOK, Shapes
<1>6. ASSUME ReadsOn, Buffered'  PROVE HandlerInv'
  <2>1. /\ ev'.conn = cur /\ ev'.len \in 0 .. MaxRequest /\ ev'.errno \in {"0", "EAGAIN"}
        /\ ev'.retries \in 0 .. MaxRetries - 1 /\ UNCHANGED <<pc, fd, res>>
        /\ ev' \in [conn : Conns \cup {None}, len : Nat, errno : {"0", "EAGAIN"},
                    retries : Nat]
    BY <1>2, <1>6 DEF ReadsOn
  <2>2. TypeOK'
    BY <1>1, <1>2, <1>4, <1>5, <2>1 DEF HandlerInv, TypeOK, Holders, Total, cur
  <2>3. Shapes'
    BY <1>4, <1>5, <2>1 DEF HandlerInv, Shapes
  <2>4. Events' /\ BatchIsCurrent' /\ Answers' /\ WholeResponse'
    BY <1>4, <2>1 DEF HandlerInv, Events, BatchIsCurrent, Answers, WholeResponse, cur
  <2>5. OwnBodyIfRead'
    BY <1>2, <1>4, <1>5, <2>1 DEF HandlerInv, OwnBodyIfRead, Total
  <2> QED  BY <1>6, <2>2, <2>3, <2>4, <2>5 DEF HandlerInv
<1>7. ASSUME NoAnswer \/ Answered  PROVE HandlerInv'
  <2>1. ev' = NoEvent /\ pc' \in {"wait", "next", "crashed"}
    BY <1>7 DEF NoAnswer, Answered
  <2>2. /\ \A c \in Conns \ {cur} : fd'[c] = fd[c] /\ res'[c] = res[c]
        /\ fd' \in [Conns -> {"none", "in", "out", "closed"}]
        /\ res' \in [Conns -> Responses \cup {None}]
        /\ \/ fd'[cur] \in {"in", "closed"} /\ res'[cur] = None
           \/ fd'[cur] = "out" /\ res'[cur] # None
        /\ res'[cur] # None =>
             (/\ res'[cur].parsed /\ taken'[cur] = Total(cur) /\ Honest(req[cur])
                => res'[cur].from = cur)
    BY <1>2, <1>7 DEF NoAnswer, Answered
  <2>3. TypeOK'
    <3>1. ev'.conn = None /\ ev'.len = 0 /\ ev'.errno = "0" /\ ev'.retries = 0
      BY <2>1 DEF NoEvent
    <3> QED  BY <1>4, <1>5, <2>1, <2>2, <3>1 DEF HandlerInv, TypeOK, Holders, Total, cur
  <2>4. Shapes'
    BY <1>4, <1>5, <2>1, <2>2 DEF HandlerInv, Shapes, NoEvent
  <2>5. Events' /\ BatchIsCurrent'
    BY <1>2, <1>4, <2>1, <2>2 DEF HandlerInv, Events, BatchIsCurrent
  <2>6. Answers' /\ WholeResponse'
    BY <1>2, <1>4, <2>2 DEF HandlerInv, Answers, WholeResponse
  <2>7. Buffered'
    BY <2>1 DEF Buffered
  <2>8. OwnBodyIfRead'
    <3> SUFFICES ASSUME NEW c \in Conns, res'[c] # None, res'[c].parsed,
                        taken'[c] = Total(c), Honest(req[c])
                 PROVE  res'[c].from = c
      BY <1>4 DEF OwnBodyIfRead, Total
    <3>1. CASE c = cur
      BY <2>2, <3>1
    <3>2. CASE c # cur
      BY <1>5, <2>2, <3>2 DEF HandlerInv, OwnBodyIfRead
    <3> QED  BY <3>1, <3>2
  <2> QED  BY <2>3, <2>4, <2>5, <2>6, <2>7, <2>8 DEF HandlerInv
<1> QED  BY <1>1, <1>6, <1>7 DEF Turn

-------------------------------------------------------------------------------
(* The theorems. *)

\* Every step keeps the invariant.
LEMMA HandlerNext == HandlerInv /\ [Next]_vars => HandlerInv'
<1> SUFFICES ASSUME HandlerInv, [Next]_vars  PROVE HandlerInv'
  OBVIOUS
<1>1. CASE UNCHANGED vars
  BY <1>1 DEF vars, netVars, readVars, HandlerInv, TypeOK, Shapes, Events, BatchIsCurrent,
              Answers, WholeResponse, Buffered, OwnBodyIfRead, Total, cur
<1>2. CASE Next
  BY <1>2, WaitKeeps, ReadKeeps, RegisterKeeps, SendKeeps, StartReadKeeps, WriteKeeps,
     WriteFailsKeeps, IgnoreKeeps, HangUpKeeps DEF Next
<1> QED  BY <1>1, <1>2

(* What the epoll loop keeps true whatever the clients do.  *)
THEOREM HandlerInvariant == Spec => []HandlerInv
<1> QED  BY HandlerInit, HandlerNext, PTL DEF Spec

(* The variables have their types; in particular the five retries are never exceeded
   and the buffer is never filled past max_request_size when the loop reads on.  *)
THEOREM HandlerTypes == Spec => []TypeOK
<1>1. HandlerInv => TypeOK
  BY DEF HandlerInv
<1> QED  BY <1>1, HandlerInvariant, PTL

(* No event of a batch is stale: its descriptor is open and registered for it.  *)
THEOREM NoStaleEvent == Spec => []BatchIsCurrent
<1>1. HandlerInv => BatchIsCurrent
  BY DEF HandlerInv
<1> QED  BY <1>1, HandlerInvariant, PTL

(* A response is sent whole before its connection is closed, for any length and any
   sizes of the partial sends.  *)
THEOREM ResponsesAreWhole == Spec => []WholeResponse
<1>1. HandlerInv => WholeResponse
  BY DEF HandlerInv
<1> QED  BY <1>1, HandlerInvariant, PTL

(* Who was parsed, had sent all of a request with an honest Content-Length when he was
   answered, is answered from his own body, whatever earlier requests left in the buffer
   and on the stack.  *)
THEOREM AnsweredFromOwnBody == Spec => []OwnBodyIfRead
<1>1. HandlerInv => OwnBodyIfRead
  BY DEF HandlerInv
<1> QED  BY <1>1, HandlerInvariant, PTL

(* Nobody is answered twice: a descriptor with a response is never read again.  *)
THEOREM OneAnswer == Spec => AnsweredOnce
<1>1. HandlerInv /\ [Next]_vars
        => [\A c \in Conns : res[c] # None => res'[c] = res[c]]_vars
  <2> SUFFICES ASSUME HandlerInv, Next, NEW c \in Conns, res[c] # None
               PROVE  res'[c] = res[c]
    OBVIOUS
  <2>1. CASE Read
    <3>1. Turn /\ pc = "read"
      BY <2>1, ReadTurns
    <3>2. cur # c
      BY <3>1 DEF HandlerInv, Events, Answers
    <3> QED  BY <3>1, <3>2 DEF Turn, ReadsOn, NoAnswer, Answered, HandlerInv, Shapes
  <2>2. CASE ~Read
    BY <2>2 DEF Next, Wait, Register, Send, StartRead, Write, WriteFails, WriteDone,
                Ignore, HangUp
  <2> QED  BY <2>1, <2>2
<1> QED  BY <1>1, HandlerInvariant, PTL DEF Spec, AnsweredOnce
==============================================================================
