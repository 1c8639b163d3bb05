------------------------------- MODULE Server -------------------------------
(***************************************************************************)
(* The accept loop of lib/server.c and, for what they share with it, the   *)
(* handler threads: descriptors, which the kernel gives out lowest first   *)
(* and which are reused as soon as they are closed, and the interest list  *)
(* of each handler's epoll.  What a handler does with a request is in      *)
(* Handler; here a request is answered, or skipped and left open.          *)
(***************************************************************************)
EXTENDS Integers, Sequences, SequencesExt, FiniteSets, FiniteSetsExt

CONSTANTS
  Conns,        \* connections that clients open
  NumHandlers,  \* num_handlers
  Fds,          \* descriptors the process may have for them
  Backlog,      \* the 128 of listen()
  None

ASSUME ServerAssumption == /\ NumHandlers \in Nat \ {0} /\ Backlog \in Nat \ {0}
                           /\ Fds \subseteq Nat /\ None \notin Conns

Handlers == 0 .. NumHandlers - 1

VARIABLES
  conn,      \* what became of a connection
  fdOf,      \* its descriptor, -1 without one
  backlog,   \* connections waiting for accept
  client,    \* client_fd's connection between accept and epoll_ctl
  selector,  \* the handler that gets the next connection
  interest,  \* per handler, what its epoll watches: descriptor and connection
  closing,   \* per handler, the connection it is closing and how far it got
  dealt,     \* per handler, the connections it was ever dealt
  up         \* the process has not called exit

vars == <<conn, fdOf, backlog, client, selector, interest, closing, dealt, up>>

Nobody == [conn |-> None, fd |-> -1, step |-> "none"]
Free == Fds \ {fdOf[c] : c \in Conns}

Init ==
  /\ conn = [c \in Conns |-> "new"] /\ fdOf = [c \in Conns |-> -1]
  /\ backlog = <<>> /\ client = None /\ selector = 0
  /\ interest = [h \in Handlers |-> {}] /\ closing = [h \in Handlers |-> Nobody]
  /\ dealt = [h \in Handlers |-> {}]
  /\ up = TRUE

Connect(c) ==
  /\ up /\ conn[c] = "new" /\ Len(backlog) < Backlog
  /\ conn' = [conn EXCEPT ![c] = "queued"]
  /\ backlog' = Append(backlog, c)
  /\ UNCHANGED <<fdOf, client, selector, interest, closing, dealt, up>>

\* One accept per reported event; the listening socket is level-triggered.
Accept ==
  /\ up /\ client = None /\ backlog # <<>> /\ Free # {}
  /\ client' = Head(backlog) /\ backlog' = Tail(backlog)
  /\ fdOf' = [fdOf EXCEPT ![client'] = Min(Free)]
  /\ UNCHANGED <<conn, selector, interest, closing, dealt, up>>

\* Seeded defect: every error is taken for EAGAIN.
AcceptGivesUp ==
  /\ up /\ client = None /\ backlog # <<>> /\ Free = {}
  /\ UNCHANGED vars

\* Out of descriptors: any errno but EAGAIN ends the process.
AcceptFails ==
  /\ up /\ client = None /\ backlog # <<>> /\ Free = {}
  /\ up' = FALSE
  /\ UNCHANGED <<conn, fdOf, backlog, client, selector, interest, closing, dealt>>

NextHandler == (selector + 1) % NumHandlers

Deal ==
  /\ up /\ client # None
  /\ interest' = [interest EXCEPT ![selector] = @ \cup {<<fdOf[client], client>>}]
  /\ dealt' = [dealt EXCEPT ![selector] = @ \cup {client}]
  /\ conn' = [conn EXCEPT ![client] = "dealt"]
  /\ selector' = NextHandler
  /\ client' = None
  /\ UNCHANGED <<fdOf, backlog, closing, up>>

----------------------------------------------------------------------------
(* The handlers. *)

\* The request is skipped: no answer, no close, no further event.
Skip(h) ==
  /\ up /\ closing[h] = Nobody
  /\ \E e \in interest[h] : /\ conn[e[2]] = "dealt"
                            /\ conn' = [conn EXCEPT ![e[2]] = "skipped"]
  /\ UNCHANGED <<fdOf, backlog, client, selector, interest, closing, dealt, up>>

\* The last byte was sent, or the client is gone: the descriptor is to be closed.
Finish(h) ==
  /\ up /\ closing[h] = Nobody
  /\ \E e \in interest[h] :
       /\ conn[e[2]] = "dealt"
       /\ closing' = [closing EXCEPT ![h] = [conn |-> e[2], fd |-> e[1], step |-> "del"]]
  /\ UNCHANGED <<conn, fdOf, backlog, client, selector, interest, dealt, up>>

\* EPOLL_CTL_DEL takes a number: whatever is registered under it is removed.
EpollDel(h) ==
  /\ up /\ closing[h].step = "del"
  /\ interest' = [interest EXCEPT ![h] = {e \in @ : e[1] # closing[h].fd}]
  /\ closing' = [closing EXCEPT ![h].step = "close"]
  /\ UNCHANGED <<conn, fdOf, backlog, client, selector, dealt, up>>

\* close; the kernel forgets a closed descriptor in every interest list.
CloseOf(h, last) ==
  LET c == closing[h].conn
  IN /\ fdOf' = [fdOf EXCEPT ![c] = -1]
     /\ conn' = [conn EXCEPT ![c] = "served"]
     /\ closing' = [closing EXCEPT ![h] = last]
     /\ UNCHANGED <<backlog, client, selector, dealt, up>>

\* Seeded defect: close comes first, and EPOLL_CTL_DEL for the number after it.
CloseBeforeDel(h) ==
  \/ /\ up /\ closing[h].step = "del"
     /\ interest' = [interest EXCEPT ![h] = {e \in @ : e[2] # closing[h].conn}]
     /\ CloseOf(h, [closing[h] EXCEPT !.step = "close"])
  \/ /\ up /\ closing[h].step = "close"
     /\ interest' = [interest EXCEPT ![h] = {e \in @ : e[1] # closing[h].fd}]
     /\ closing' = [closing EXCEPT ![h] = Nobody]
     /\ UNCHANGED <<conn, fdOf, backlog, client, selector, dealt, up>>

Close(h) == /\ up /\ closing[h].step = "close"
            /\ CloseOf(h, Nobody) /\ UNCHANGED interest

HandlerClose(h) == EpollDel(h) \/ Close(h)

Next ==
  \/ Accept \/ AcceptFails \/ Deal
  \/ \E c \in Conns : Connect(c)
  \/ \E h \in Handlers : Skip(h) \/ Finish(h) \/ HandlerClose(h)

Fairness == /\ WF_vars(Accept) /\ WF_vars(Deal) /\ WF_vars(AcceptFails)
            /\ \A h \in Handlers : WF_vars(Finish(h)) /\ WF_vars(HandlerClose(h))

Spec == Init /\ [][Next]_vars
FairSpec == Spec /\ Fairness

----------------------------------------------------------------------------
(* What the accept loop and the handlers owe a connection. *)

(* Connections are dealt evenly: no handler is ever more than one ahead of another,
   whatever became of the connections (server.c:169-170).  *)
DealtInTurn ==
  \A g, h \in Handlers : Cardinality(dealt[g]) <= Cardinality(dealt[h]) + 1

(* Nobody is dropped: a connection that was dealt and is not finished is watched, under
   the descriptor it has, by the one handler it was dealt to, although descriptors are
   reused while other handlers are still closing them (handler.c:362-365, server.c:171). *)
NobodyIsDropped ==
  \A c \in Conns : conn[c] \in {"dealt", "skipped"} =>
    \E h \in Handlers :
      /\ c \in dealt[h]
      /\ <<fdOf[c], c>> \in interest[h] \/ (closing[h].conn = c /\ closing[h].step = "close")
      /\ \A g \in Handlers \ {h} : \A e \in interest[g] : e[2] # c /\ e[1] # fdOf[c]

(* Everybody who connects gets an answer, is skipped, or sees the process end: nobody
   waits in the backlog or with a handler for ever.  *)
NobodyWaitsForEver ==
  \A c \in Conns : conn[c] = "queued" ~> conn[c] \in {"served", "skipped"} \/ ~up
=============================================================================
