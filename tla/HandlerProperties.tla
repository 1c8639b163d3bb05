------------------------- MODULE HandlerProperties -------------------------
(* What a handler is meant to do for its connections. *)
EXTENDS Handler

TypeOK ==
  /\ \A c \in Conns : req[c] \in Kinds[c]
  /\ peer \in [Conns -> {"open", "finish", "reset"}]
  /\ \A c \in Conns : arrived[c] \in 0 .. Total(c) /\ taken[c] \in 0 .. arrived[c]
  /\ fd \in [Conns -> {"none", "in", "out", "closed"}]
  /\ edge \in [Conns -> BOOLEAN]
  /\ batch \subseteq Conns \X {"in", "out", "err"}
  /\ pc \in {"wait", "next", "read", "crashed"} /\ (cur = None <=> pc # "read")
  /\ ev.len \in 0 .. MaxRequest /\ ev.retries \in 0 .. MaxRetries - 1
  /\ ev.errno \in {"0", "EAGAIN"} /\ jsonBody \in Conns \cup {"unset", "bad", "mixed"}
  /\ \A c \in Conns : streamed[c] \in 0 .. 2 * ResponseLength

----------------------------------------------------------------------------
(* Safety *)

\* A body is asked for and announced with its length.
Honest(k) == k.method \in {"POST", "post"} /\ k.length = k.body

(* A connection that is closed after its response was built was sent the whole of it:
   partial sends and EAGAIN in between do not cut it short (handler.c:350-367).  *)
WholeResponse ==
  \A c \in Conns : fd[c] = "closed" /\ res[c] # None => streamed[c] >= ResponseLength

(* One connection gets one answer: pieces that come late, pipelined or after a skipped
   request, never make the loop answer a second time or replace the response that is
   being streamed (handler.c:314-334).  *)
AnsweredOnce == [][\A c \in Conns : res[c] # None => res'[c] = res[c]]_vars

(* A request that was parsed, that had come whole when it was answered and whose
   Content-Length is that of its body is answered from this body, although the buffer and
   the stack still hold what earlier requests left there.  (In the
   other cases it is not: see FullRequestInBuffer below.)  *)
OwnBodyIfRead ==
  \A c \in Conns :
    res[c] # None =>
      (res[c].parsed /\ taken[c] = Total(c) /\ Honest(req[c]) => res[c].from = c)

(* A batch of events is never stale in what it makes the loop read or write: a
   descriptor waiting in the batch is still open, and still registered for that event,
   whatever the events handled before it did.  *)
BatchIsCurrent == \A e \in batch : e[2] \in {"in", "out"} => fd[e[1]] = e[2]

----------------------------------------------------------------------------
(* Liveness *)

Servable(k) == /\ k.wellFormed /\ k.method = "POST" /\ Honest(k) /\ k.goodJson
               /\ k.head + k.body <= BufferSize

\* A registered request lies whole in the socket and nothing of it has been read.
WholeWaiting(c) == /\ fd[c] = "in" /\ taken[c] = 0 /\ arrived[c] = Total(c)
                   /\ Servable(req[c]) /\ ~(pc = "read" /\ cur = c)

(* A good request that lies whole in the socket is answered, from its own body, and its
   connection closed, whatever the other connections of the thread do: broken, reset
   and skipped ones included.  Where EPOLL_CTL_MOD may fail it is closed, answered or not
   (handler.c:329-334).  *)
ServedDespiteOthers ==
  \A c \in Conns :
    WholeWaiting(c) ~> \/ fd[c] = "closed" /\ (res[c] = None => "mod" \in Failures[c])
                                           /\ (res[c] # None => res[c].from = c)
                       \/ peer[c] = "reset" \/ pc = "crashed"

----------------------------------------------------------------------------
(* What comments of the code say, and the code does not do *)

(* handler.c:268 "we now have the full request inside the request_buffer": a request with
   an honest Content-Length is never answered from the body of another one.  Neither of the
   two ways out of the read loop makes it so: the head alone was parsed (line 244), or after
   the last empty read nothing was (line 188).  *)
FullRequestInBuffer ==
  \A c \in Conns :
    res[c] # None => (Honest(req[c]) => res[c].from \notin Conns \ {c})
=============================================================================
