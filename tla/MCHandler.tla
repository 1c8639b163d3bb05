----------------------------- MODULE MCHandler -----------------------------
(* Instances of Handler for TLC: the requests the clients may send. *)
EXTENDS HandlerProperties

CONSTANTS c1, c2

Good == [method |-> "POST", path |-> "route", head |-> 2, body |-> 1, length |-> 1,
         wellFormed |-> TRUE, goodJson |-> TRUE]
NoBody == [Good EXCEPT !.body = 0, !.length = None, !.goodJson = FALSE]

\* A head that never fits request_buffer.
TooLarge == [NoBody EXCEPT !.head = 5]

\* A Content-Length of nothing, of more than there is, of more than the buffer holds.
Lying == {[Good EXCEPT !.length = n] : n \in {0, 2, 3}}

AllKinds == Lying \cup
            {Good, NoBody, TooLarge, [NoBody EXCEPT !.wellFormed = FALSE], [NoBody EXCEPT !.method = "GET"],
             [Good EXCEPT !.goodJson = FALSE], [Good EXCEPT !.method = "post"],
             [Good EXCEPT !.path = "other"]}

\* One client sends anything and breaks in every way, beside a good one with a short head.
AnyBesideGood == [c \in Conns |-> IF c = c1 THEN AllKinds ELSE {[Good EXCEPT !.head = 1]}]
OneBreaks == [c \in Conns |-> IF c = c1 THEN {"reset", "mod", "finish"} ELSE {}]

AllGood == [c \in Conns |-> {Good}]
NoneBreaks == [c \in Conns |-> {}]
=============================================================================
