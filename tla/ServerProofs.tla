----------------------------- MODULE ServerProofs -----------------------------
(***************************************************************************)
(* Theorems about Server, for any connections, descriptors, handlers and   *)
(* any backlog.                                                            *)
(***************************************************************************)
EXTENDS Server, FiniteSetTheorems, WellFoundedInduction, TLAPS

(* The kernel gives out a free descriptor. *)

\* A nonempty set of naturals has a least element, and Min returns it.
LEMMA LeastDescriptor ==
    ASSUME NEW S \in SUBSET Nat, S # {}
    PROVE  Min(S) \in S
<1>1. PICK n \in S : TRUE
  OBVIOUS
<1> DEFINE below == {0..x : x \in {y \in S : y <= n}}
<1>2. below \subseteq SUBSET (0..n) /\ below # {}
  <2>1. \A x \in S : x <= n => 0..x \subseteq 0..n
    OBVIOUS
  <2>2. 0..n \in below
    OBVIOUS
  <2> QED  BY <2>1, <2>2
<1>3. IsWellFoundedOn(StrictSubsetOrdering(0..n), SUBSET (0..n))
  <2>1. IsFiniteSet(0..n)
    BY FS_Interval
  <2> QED  BY <2>1, FS_FiniteSubsetsOfFinite, FS_StrictSubsetOrderingWellFounded, Zenon
<1> HIDE DEF below
<1>4. PICK b \in below : \A c \in below : ~(<<c, b>> \in StrictSubsetOrdering(0..n))
  BY <1>2, <1>3, WFMin, Zenon
<1>5. PICK m \in S : m <= n /\ b = 0..m
  BY <1>4 DEF below
<1>6. \A x \in S : m =< x
  <2>1. SUFFICES ASSUME NEW x \in S, x < m  PROVE FALSE
    OBVIOUS
  <2>2. 0..x \in below /\ 0..x \subseteq 0..m /\ 0..x # 0..m
    BY <1>5, <2>1 DEF below
  <2> QED  BY <1>2, <1>4, <1>5, <2>2 DEF StrictSubsetOrdering
<1> QED  BY <1>6 DEF Min

-------------------------------------------------------------------------------
(* Types, and how far each connection is. *)

States == {"new", "queued", "dealt", "skipped", "served"}

Types ==
    /\ conn \in [Conns -> States] /\ fdOf \in [Conns -> Fds \cup {-1}]
    /\ backlog \in Seq(Conns) /\ client \in Conns \cup {None}
    /\ selector \in Handlers
    /\ interest \in [Handlers -> SUBSET (Fds \X Conns)]
    /\ closing \in [Handlers -> [conn : Conns, fd : Fds, step : {"del", "close"}]
                                  \cup {Nobody}]
    /\ dealt \in [Handlers -> SUBSET Conns]

\* A connection is in one place on its way to a handler: in the backlog, in
\* client_fd, or dealt to one handler.
OnItsWay ==
    /\ \A i, k \in 1..Len(backlog) : backlog[i] = backlog[k] => i = k
    /\ \A i \in 1..Len(backlog) : conn[backlog[i]] = "queued" /\ backlog[i] # client
    /\ client # None => conn[client] = "queued"
    /\ \A h \in Handlers : \A c \in dealt[h] : conn[c] \in {"dealt", "skipped", "served"}
    /\ \A g, h \in Handlers : g # h => dealt[g] \cap dealt[h] = {}

\* Two connections never share a descriptor, and none is without that needs one.
Descriptors ==
    /\ \A c, d \in Conns : fdOf[c] # -1 /\ fdOf[c] = fdOf[d] => c = d
    /\ \A c \in Conns : conn[c] \in {"dealt", "skipped"} \/ c = client => fdOf[c] # -1

\* An interest list has the connections dealt to its handler, each under its own
\* descriptor, but not the one that is being closed.
Watched ==
    /\ \A h \in Handlers : \A e \in interest[h] :
         /\ e[1] = fdOf[e[2]] /\ e[2] \in dealt[h]
         /\ conn[e[2]] \in {"dealt", "skipped"}
         /\ closing[h].step = "close" => e[2] # closing[h].conn
    /\ \A h \in Handlers : closing[h] # Nobody =>
         /\ closing[h].fd = fdOf[closing[h].conn]
         /\ closing[h].conn \in dealt[h] /\ conn[closing[h].conn] = "dealt"
    /\ \A c \in Conns : conn[c] \in {"dealt", "skipped"} =>
         \E h \in Handlers :
           /\ c \in dealt[h]
           /\ <<fdOf[c], c>> \in interest[h]
                \/ (closing[h].conn = c /\ closing[h].step = "close")

ServerInv == Types /\ OnItsWay /\ Descriptors /\ Watched

\* The process starts with nothing on its way.
LEMMA ServerInit == Init => ServerInv
<1> SUFFICES ASSUME Init  PROVE ServerInv
  OBVIOUS
<1>1. 0 \in Handlers
  BY ServerAssumption DEF Handlers
<1>2. Types
  BY <1>1 DEF Init, Types, States
<1>3. OnItsWay /\ Descriptors /\ Watched
  BY ServerAssumption DEF Init, OnItsWay, Descriptors, Watched
<1> QED  BY <1>2, <1>3 DEF ServerInv

\* A client connects.
LEMMA ConnectKeeps ==
    ASSUME ServerInv, NEW c \in Conns, Connect(c)
    PROVE  ServerInv'
<1> USE DEF ServerInv
<1>1. /\ conn[c] = "new" /\ conn' = [conn EXCEPT ![c] = "queued"]
      /\ backlog' = Append(backlog, c)
      /\ UNCHANGED <<fdOf, client, selector, interest, closing, dealt>>
      /\ backlog \in Seq(Conns) /\ conn \in [Conns -> States]
  BY DEF Connect, Types
<1>2. /\ backlog' \in Seq(Conns) /\ Len(backlog') = Len(backlog) + 1
      /\ \A i \in 1..Len(backlog) : backlog'[i] = backlog[i]
      /\ backlog'[Len(backlog) + 1] = c
  BY <1>1
<1>3. Types'
  BY <1>1, <1>2 DEF Types, States
<1>4. \A i \in 1..Len(backlog) : backlog[i] # c
  BY <1>1 DEF OnItsWay
<1>5. c # client /\ \A h \in Handlers : c \notin dealt[h]
  BY <1>1, ServerAssumption DEF OnItsWay
<1>6. OnItsWay'
  <2>1. \A i \in 1..Len(backlog)' : i \in 1..Len(backlog) \/ i = Len(backlog) + 1
    BY <1>1, <1>2
  <2>2. (\A i, k \in 1..Len(backlog) : backlog[i] = backlog[k] => i = k)'
    BY <1>2, <1>4, <2>1 DEF OnItsWay
  <2>3. (\A i \in 1..Len(backlog) : conn[backlog[i]] = "queued" /\ backlog[i] # client)'
    BY <1>1, <1>2, <1>5, <2>1 DEF OnItsWay
  <2>4. (client # None => conn[client] = "queued")'
    BY <1>1 DEF OnItsWay, Types
  <2>5. (\A h \in Handlers : \A d \in dealt[h] : conn[d] \in {"dealt", "skipped", "served"})'
    BY <1>1, <1>5 DEF OnItsWay, Types
  <2> QED  BY <1>1, <2>2, <2>3, <2>4, <2>5 DEF OnItsWay
<1>7. \A d \in Conns : conn'[d] \in {"dealt", "skipped"} <=> conn[d] \in {"dealt", "skipped"}
  BY <1>1
<1>8. Descriptors'
  BY <1>1, <1>7 DEF Descriptors
<1>9. Watched'
  <2>1. \A d \in Conns : conn[d] = "dealt" => conn'[d] = "dealt"
    BY <1>1
  <2> QED  BY <1>1, <1>7, <2>1 DEF Watched, Types
<1> QED  BY <1>3, <1>6, <1>8, <1>9

\* accept returns the oldest connection of the backlog, under a free descriptor.
LEMMA AcceptKeeps ==
    ASSUME ServerInv, Accept
    PROVE  ServerInv'
<1> USE DEF ServerInv
<1>1. /\ client = None /\ backlog # <<>> /\ client' = Head(backlog)
      /\ backlog' = Tail(backlog) /\ fdOf' = [fdOf EXCEPT ![client'] = Min(Free)]
      /\ UNCHANGED <<conn, selector, interest, closing, dealt>>
      /\ backlog \in Seq(Conns) /\ fdOf \in [Conns -> Fds \cup {-1}]
  BY DEF Accept, Types
<1>2. Min(Free) \in Free
  BY ServerAssumption, LeastDescriptor DEF Accept, Free
<1>3. PICK c \in Conns : c = Head(backlog)
  BY <1>1
<1>4. /\ c = backlog[1] /\ 1 \in 1..Len(backlog) /\ conn[c] = "queued"
      /\ backlog' \in Seq(Conns) /\ Len(backlog') = Len(backlog) - 1
      /\ \A i \in 1..Len(backlog') : /\ backlog'[i] = backlog[i + 1]
                                     /\ i + 1 \in 1..Len(backlog)
  BY <1>1, <1>3 DEF OnItsWay
<1>5. /\ fdOf'[c] \in Fds /\ fdOf'[c] # -1
      /\ \A d \in Conns \ {c} : fdOf'[d] = fdOf[d] /\ fdOf'[c] # fdOf[d]
  <2>1. PICK m \in Free : m = Min(Free)
    BY <1>2
  <2>2. m \in Fds /\ m # -1 /\ \A d \in Conns : fdOf[d] # m
    BY ServerAssumption DEF Free
  <2>3. fdOf' = [fdOf EXCEPT ![c] = m]
    BY <1>1, <1>3, <2>1
  <2>4. fdOf'[c] = m /\ \A d \in Conns \ {c} : fdOf'[d] = fdOf[d]
    BY <1>1, <2>3
  <2> QED  BY <2>2, <2>4
<1>6. Types'
  BY <1>1, <1>2, <1>3, <1>4 DEF Types, Free
<1>7. OnItsWay'
  <2>1. \A i, k \in 1..Len(backlog') : backlog'[i] = backlog'[k] => i = k
    <3> SUFFICES ASSUME NEW i \in 1..Len(backlog'), NEW k \in 1..Len(backlog'),
                        backlog'[i] = backlog'[k]
                 PROVE  i = k
      OBVIOUS
    <3>1. i + 1 = k + 1
      BY SMTT(60), <1>4 DEF OnItsWay
    <3> QED  BY <1>4, <3>1
  <2>2. \A i \in 1..Len(backlog') : conn[backlog'[i]] = "queued" /\ backlog'[i] # c
    <3> SUFFICES ASSUME NEW i \in 1..Len(backlog')
                 PROVE  conn[backlog'[i]] = "queued" /\ backlog'[i] # c
      OBVIOUS
    <3>1. i + 1 # 1
      BY <1>4
    <3> QED  BY <1>4, <3>1 DEF OnItsWay
  <2> QED  BY <1>1, <1>3, <1>4, <2>1, <2>2 DEF OnItsWay
<1>8. Descriptors'
  BY <1>1, <1>3, <1>5, ServerAssumption DEF Descriptors
<1>9. \A h \in Handlers : c \notin dealt[h]
  BY <1>4 DEF OnItsWay
<1>10. \A d \in Conns : conn[d] \in {"dealt", "skipped"} => d # c
  BY <1>4
<1>11. Watched'
  <2>1. \A h \in Handlers : \A e \in interest[h] : fdOf'[e[2]] = fdOf[e[2]]
    BY <1>5, <1>9 DEF Watched, Types
  <2>2. \A h \in Handlers : closing[h] # Nobody =>
          fdOf'[closing[h].conn] = fdOf[closing[h].conn]
    BY <1>5, <1>9 DEF Watched, Types
  <2>3. \A d \in Conns : conn[d] \in {"dealt", "skipped"} => fdOf'[d] = fdOf[d]
    BY <1>5, <1>10
  <2> QED  BY <1>1, <2>1, <2>2, <2>3 DEF Watched
<1> QED  BY <1>6, <1>7, <1>8, <1>11

\* The accept loop deals the connection to the selected handler.
LEMMA DealKeeps ==
    ASSUME ServerInv, Deal
    PROVE  ServerInv'
<1> USE DEF ServerInv
<1>1. PICK c \in Conns : c = client
  BY DEF Deal, Types
<1>2. PICK h \in Handlers : h = selector
  BY DEF Types
<1>3. /\ interest' = [interest EXCEPT ![h] = interest[h] \cup {<<fdOf[c], c>>}]
      /\ dealt' = [dealt EXCEPT ![h] = dealt[h] \cup {c}]
      /\ conn' = [conn EXCEPT ![c] = "dealt"]
      /\ selector' = NextHandler /\ client' = None
      /\ UNCHANGED <<fdOf, backlog, closing>>
  BY <1>1, <1>2 DEF Deal, Types
<1>4. /\ conn \in [Conns -> States] /\ dealt \in [Handlers -> SUBSET Conns]
      /\ interest \in [Handlers -> SUBSET (Fds \X Conns)]
      /\ fdOf \in [Conns -> Fds \cup {-1}] /\ backlog \in Seq(Conns)
      /\ conn[c] = "queued" /\ fdOf[c] # -1 /\ c # None
      /\ \A g \in Handlers : c \notin dealt[g]
  BY <1>1, ServerAssumption DEF Types, OnItsWay, Descriptors
<1>5. /\ dealt'[h] = dealt[h] \cup {c} /\ interest'[h] = interest[h] \cup {<<fdOf[c], c>>}
      /\ \A g \in Handlers \ {h} : dealt'[g] = dealt[g] /\ interest'[g] = interest[g]
      /\ conn'[c] = "dealt" /\ \A d \in Conns \ {c} : conn'[d] = conn[d]
  BY <1>3, <1>4
<1>6. Types'
  <2>1. NextHandler \in Handlers
    BY <1>2, ServerAssumption DEF NextHandler, Handlers
  <2>2. interest' \in [Handlers -> SUBSET (Fds \X Conns)]
    BY <1>3, <1>4
  <2>3. dealt' \in [Handlers -> SUBSET Conns] /\ conn' \in [Conns -> States]
    BY <1>3, <1>4 DEF States
  <2> QED  BY <1>3, <2>1, <2>2, <2>3 DEF Types
<1>7. OnItsWay'
  <2>1. \A i \in 1..Len(backlog) : backlog[i] # c /\ backlog[i] \in Conns
    BY <1>1, <1>4 DEF OnItsWay
  <2>2. \A i \in 1..Len(backlog) : backlog[i] # None
    BY <2>1, ServerAssumption
  <2>3. (\A i \in 1..Len(backlog) : conn[backlog[i]] = "queued" /\ backlog[i] # client)'
    BY <1>3, <1>5, <2>1, <2>2 DEF OnItsWay
  <2>4. (\A g \in Handlers : \A d \in dealt[g] : conn[d] \in {"dealt", "skipped", "served"})'
    BY <1>4, <1>5 DEF OnItsWay
  <2>5. (\A f, g \in Handlers : f # g => dealt[f] \cap dealt[g] = {})'
    BY <1>4, <1>5 DEF OnItsWay
  <2> QED  BY <1>3, <2>3, <2>4, <2>5 DEF OnItsWay
<1>8. Descriptors'
  BY <1>3, <1>4, <1>5, ServerAssumption DEF Descriptors
<1>9. Watched'
  <2>1. ASSUME NEW g \in Handlers, NEW e \in interest'[g]
        PROVE  /\ e[1] = fdOf[e[2]] /\ e[2] \in dealt'[g]
               /\ conn'[e[2]] \in {"dealt", "skipped"}
               /\ closing[g].step = "close" => e[2] # closing[g].conn
    <3>1. CASE e \in interest[g]
      <4>1. /\ e[1] = fdOf[e[2]] /\ e[2] \in dealt[g] /\ conn[e[2]] \in {"dealt", "skipped"}
            /\ closing[g].step = "close" => e[2] # closing[g].conn
        BY <3>1 DEF Watched
      <4>2. e[2] # c /\ e[2] \in Conns
        BY <1>4, <4>1
      <4> QED  BY <1>5, <4>1, <4>2
    <3>2. CASE e = <<fdOf[c], c>> /\ g = h
      <4>1. closing[g].step = "close" => closing[g] # Nobody
        BY DEF Nobody
      <4>2. closing[g].step = "close" => closing[g].conn # c
        BY <1>4, <4>1 DEF Watched
      <4> QED  BY <1>5, <3>2, <4>2
    <3> QED  BY <1>5, <3>1, <3>2
  <2>2. ASSUME NEW g \in Handlers, closing[g] # Nobody
        PROVE  /\ closing[g].fd = fdOf[closing[g].conn]
               /\ closing[g].conn \in dealt'[g] /\ conn'[closing[g].conn] = "dealt"
    <3>1. /\ closing[g].fd = fdOf[closing[g].conn]
          /\ closing[g].conn \in dealt[g] /\ conn[closing[g].conn] = "dealt"
      BY <2>2 DEF Watched
    <3> QED  BY <1>4, <1>5, <3>1
  <2>3. ASSUME NEW d \in Conns, conn'[d] \in {"dealt", "skipped"}
        PROVE  \E g \in Handlers :
                 /\ d \in dealt'[g]
                 /\ <<fdOf[d], d>> \in interest'[g]
                      \/ (closing[g].conn = d /\ closing[g].step = "close")
    <3>1. CASE d = c
      BY <1>5, <3>1
    <3>2. CASE d # c
      <4>1. PICK g \in Handlers :
                 /\ d \in dealt[g]
                 /\ <<fdOf[d], d>> \in interest[g]
                      \/ (closing[g].conn = d /\ closing[g].step = "close")
        BY <1>5, <2>3, <3>2 DEF Watched
      <4> QED  BY <1>5, <4>1
    <3> QED  BY <3>1, <3>2
  <2> QED  BY <1>3, <2>1, <2>2, <2>3 DEF Watched
<1> QED  BY <1>6, <1>7, <1>8, <1>9

\* A handler skips a request.
LEMMA SkipKeeps ==
    ASSUME ServerInv, NEW h \in Handlers, Skip(h)
    PROVE  ServerInv'
<1> USE DEF ServerInv
<1>1. PICK c \in Conns : conn[c] = "dealt" /\ conn' = [conn EXCEPT ![c] = "skipped"]
                           /\ c \in dealt[h]
  BY DEF Skip, Watched, Types
<1>2. /\ UNCHANGED <<fdOf, backlog, client, selector, interest, closing, dealt>>
      /\ closing[h] = Nobody /\ conn \in [Conns -> States]
  BY DEF Skip, Types
<1>3. /\ conn'[c] = "skipped" /\ \A d \in Conns \ {c} : conn'[d] = conn[d]
      /\ \A d \in Conns : conn'[d] \in {"dealt", "skipped"} <=> conn[d] \in {"dealt", "skipped"}
      /\ \A d \in Conns : conn[d] = "queued" => conn'[d] = "queued"
  BY <1>1, <1>2
<1>4. Types'
  BY <1>1, <1>2 DEF Types, States
<1>5. OnItsWay'
  <2>1. \A i \in 1..Len(backlog) : backlog[i] \in Conns
    BY DEF Types
  <2>2. \A g \in Handlers : \A d \in dealt[g] : conn'[d] \in {"dealt", "skipped", "served"}
    BY <1>3 DEF OnItsWay, Types
  <2>3. client # None => conn'[client] = "queued"
    BY <1>3 DEF OnItsWay, Types
  <2> QED  BY <1>2, <1>3, <2>1, <2>2, <2>3 DEF OnItsWay
<1>6. Descriptors'
  BY <1>2, <1>3 DEF Descriptors
<1>7. \A g \in Handlers : closing[g] # Nobody => closing[g].conn # c /\ closing[g].conn \in Conns
  BY <1>1, <1>2 DEF Watched, OnItsWay, Types
<1>8. Watched'
  <2>1. \A g \in Handlers : \A e \in interest[g] : e[2] \in Conns
    BY DEF Types
  <2> QED  BY <1>2, <1>3, <1>7, <2>1 DEF Watched
<1> QED  BY <1>4, <1>5, <1>6, <1>8

\* A handler has sent its answer, or the client is gone.
LEMMA FinishKeeps ==
    ASSUME ServerInv, NEW h \in Handlers, Finish(h)
    PROVE  ServerInv'
<1> USE DEF ServerInv
<1>1. PICK e \in interest[h] :
        /\ conn[e[2]] = "dealt"
        /\ closing' = [closing EXCEPT ![h] = [conn |-> e[2], fd |-> e[1], step |-> "del"]]
  BY DEF Finish
<1>2. /\ UNCHANGED <<conn, fdOf, backlog, client, selector, interest, dealt>>
      /\ closing[h] = Nobody
  BY DEF Finish
<1>3. e[1] \in Fds /\ e[2] \in Conns /\ e[1] = fdOf[e[2]] /\ e[2] \in dealt[h]
  BY DEF Types, Watched
<1>4. closing' \in [Handlers -> [conn : Conns, fd : Fds, step : {"del", "close"}]
                                  \cup {Nobody}]
  BY <1>1, <1>3 DEF Types
<1>5. /\ closing'[h] = [conn |-> e[2], fd |-> e[1], step |-> "del"]
      /\ \A g \in Handlers \ {h} : closing'[g] = closing[g]
  BY <1>1 DEF Types
<1>6. closing[h].step # "close" /\ closing'[h].step # "close"
  BY <1>2, <1>5 DEF Nobody
<1>7. Types' /\ OnItsWay' /\ Descriptors'
  BY <1>2, <1>4 DEF Types, OnItsWay, Descriptors
<1>8. Watched'
  <2>1. (\A g \in Handlers : closing[g] # Nobody =>
           /\ closing[g].fd = fdOf[closing[g].conn]
           /\ closing[g].conn \in dealt[g] /\ conn[closing[g].conn] = "dealt")'
    BY <1>1, <1>2, <1>3, <1>5 DEF Watched
  <2>2. \A g \in Handlers : closing'[g].step = "close" =>
          closing[g].step = "close" /\ closing'[g] = closing[g]
    BY <1>5, <1>6
  <2>3. \A g \in Handlers : closing[g].step = "close" => closing'[g] = closing[g]
    BY <1>5, <1>6
  <2> QED  BY <1>2, <2>1, <2>2, <2>3 DEF Watched
<1> QED  BY <1>7, <1>8

\* EPOLL_CTL_DEL removes the connection that is being closed, and no other.
LEMMA EpollDelKeeps ==
    ASSUME ServerInv, NEW h \in Handlers, EpollDel(h)
    PROVE  ServerInv'
<1> USE DEF ServerInv
<1>1. closing[h].step = "del" /\ closing[h] # Nobody
  BY DEF EpollDel, Nobody
<1>2. PICK c \in Conns, f \in Fds : closing[h] = [conn |-> c, fd |-> f, step |-> "del"]
  BY <1>1 DEF Types
<1>3. /\ interest' = [interest EXCEPT ![h] = {e \in interest[h] : e[1] # f}]
      /\ closing' = [closing EXCEPT ![h].step = "close"]
      /\ UNCHANGED <<conn, fdOf, backlog, client, selector, dealt>>
  BY <1>2 DEF EpollDel, Types
<1>4. f = fdOf[c] /\ c \in dealt[h] /\ conn[c] = "dealt" /\ f # -1
  BY <1>1, <1>2 DEF Watched, Descriptors
<1>5. /\ closing'[h] = [conn |-> c, fd |-> f, step |-> "close"]
      /\ \A g \in Handlers \ {h} : closing'[g] = closing[g]
      /\ interest'[h] = {e \in interest[h] : e[1] # f}
      /\ \A g \in Handlers \ {h} : interest'[g] = interest[g]
  BY <1>2, <1>3 DEF Types
<1>6. Types'
  <2>1. closing' \in [Handlers -> [conn : Conns, fd : Fds, step : {"del", "close"}]
                                    \cup {Nobody}]
    BY <1>2, <1>3, <1>5 DEF Types
  <2>2. interest' \in [Handlers -> SUBSET (Fds \X Conns)]
    BY <1>3 DEF Types
  <2> QED  BY <1>3, <2>1, <2>2 DEF Types
<1>7. OnItsWay' /\ Descriptors'
  BY <1>3 DEF OnItsWay, Descriptors
<1>8. Watched'
  <2>1. ASSUME NEW g \in Handlers, NEW e \in interest'[g]
        PROVE  /\ e[1] = fdOf[e[2]] /\ e[2] \in dealt[g]
               /\ conn[e[2]] \in {"dealt", "skipped"}
               /\ closing'[g].step = "close" => e[2] # closing'[g].conn
    <3>1. e \in interest[g] /\ e[1] = fdOf[e[2]]
      BY <1>5 DEF Watched
    <3>2. closing'[g].step = "close" => e[2] # closing'[g].conn
      BY <1>4, <1>5, <3>1 DEF Watched
    <3> QED  BY <3>1, <3>2 DEF Watched
  <2>2. ASSUME NEW g \in Handlers, closing'[g] # Nobody
        PROVE  /\ closing'[g].fd = fdOf[closing'[g].conn]
               /\ closing'[g].conn \in dealt[g] /\ conn[closing'[g].conn] = "dealt"
    <3>1. CASE g = h
      BY <1>4, <1>5, <3>1
    <3>2. CASE g # h
      BY <1>5, <2>2, <3>2 DEF Watched
    <3> QED  BY <3>1, <3>2
  <2>3. ASSUME NEW d \in Conns, conn[d] \in {"dealt", "skipped"}
        PROVE  \E g \in Handlers :
                 /\ d \in dealt[g]
                 /\ <<fdOf[d], d>> \in interest'[g]
                      \/ (closing'[g].conn = d /\ closing'[g].step = "close")
    <3>1. CASE d = c
      BY <1>4, <1>5, <3>1
    <3>2. CASE d # c
      <4>1. PICK g \in Handlers :
                 /\ d \in dealt[g]
                 /\ <<fdOf[d], d>> \in interest[g]
                      \/ (closing[g].conn = d /\ closing[g].step = "close")
        BY <2>3 DEF Watched
      <4>2. CASE g # h
        BY <1>5, <4>1, <4>2
      <4>3. CASE g = h
        <5>1. <<fdOf[d], d>> \in interest[h]
          BY <1>1, <4>1, <4>3
        <5>2. fdOf[d] # f
          BY <1>4, <3>2 DEF Descriptors
        <5> QED  BY <1>5, <4>1, <4>3, <5>1, <5>2
      <4> QED  BY <4>2, <4>3
    <3> QED  BY <3>1, <3>2
  <2> QED  BY <1>3, <2>1, <2>2, <2>3 DEF Watched
<1> QED  BY <1>6, <1>7, <1>8

\* close gives the descriptor back; nothing watches it any more.
LEMMA CloseKeeps ==
    ASSUME ServerInv, NEW h \in Handlers, Close(h)
    PROVE  ServerInv'
<1> USE DEF ServerInv
<1>1. closing[h].step = "close" /\ closing[h] # Nobody
  BY DEF Close, Nobody
<1>2. PICK c \in Conns, f \in Fds : closing[h] = [conn |-> c, fd |-> f, step |-> "close"]
  BY <1>1 DEF Types
<1>3. /\ fdOf' = [fdOf EXCEPT ![c] = -1] /\ conn' = [conn EXCEPT ![c] = "served"]
      /\ closing' = [closing EXCEPT ![h] = Nobody]
      /\ UNCHANGED <<interest, backlog, client, selector, dealt>>
  BY <1>2 DEF Close, CloseOf
<1>4. f = fdOf[c] /\ c \in dealt[h] /\ conn[c] = "dealt" /\ c # client
  BY <1>1, <1>2, ServerAssumption DEF Watched, OnItsWay
<1>5. /\ closing'[h] = Nobody /\ \A g \in Handlers \ {h} : closing'[g] = closing[g]
      /\ fdOf'[c] = -1 /\ \A d \in Conns \ {c} : fdOf'[d] = fdOf[d]
      /\ conn'[c] = "served" /\ \A d \in Conns \ {c} : conn'[d] = conn[d]
  BY <1>3 DEF Types
<1>6. \A g \in Handlers : \A e \in interest[g] : e[2] # c /\ e[2] \in Conns
  <2> SUFFICES ASSUME NEW g \in Handlers, NEW e \in interest[g]
               PROVE  e[2] # c /\ e[2] \in Conns
    OBVIOUS
  <2>1. e[2] \in dealt[g] /\ (closing[g].step = "close" => e[2] # closing[g].conn)
    BY DEF Watched
  <2>2. CASE g = h
    BY <1>2, <2>1, <2>2 DEF Types
  <2>3. CASE g # h
    BY <1>4, <2>1, <2>3 DEF OnItsWay, Types
  <2> QED  BY <2>2, <2>3
<1>7. \A g \in Handlers : closing'[g] # Nobody =>
        g # h /\ closing[g] # Nobody /\ closing[g].conn # c /\ closing[g].conn \in Conns
  BY <1>4, <1>5 DEF Watched, OnItsWay, Types
<1>8. Types'
  <2>1. closing' \in [Handlers -> [conn : Conns, fd : Fds, step : {"del", "close"}]
                                    \cup {Nobody}]
    BY <1>3 DEF Types
  <2>2. conn' \in [Conns -> States] /\ fdOf' \in [Conns -> Fds \cup {-1}]
    BY <1>3 DEF Types, States
  <2> QED  BY <1>3, <2>1, <2>2 DEF Types
<1>9. OnItsWay'
  <2>1. \A i \in 1..Len(backlog) : backlog[i] \in Conns /\ backlog[i] # c
    BY <1>4 DEF OnItsWay, Types
  <2>2. client # None => conn'[client] = "queued"
    BY <1>4, <1>5 DEF OnItsWay, Types
  <2>3. \A g \in Handlers : \A d \in dealt[g] : conn'[d] \in {"dealt", "skipped", "served"}
    BY <1>5 DEF OnItsWay, Types
  <2> QED  BY <1>3, <1>5, <2>1, <2>2, <2>3 DEF OnItsWay
<1>10. Descriptors'
  BY <1>3, <1>4, <1>5 DEF Descriptors
<1>11. Watched'
  <2>1. ASSUME NEW g \in Handlers, NEW e \in interest[g]
        PROVE  /\ e[1] = fdOf'[e[2]] /\ e[2] \in dealt[g]
               /\ conn'[e[2]] \in {"dealt", "skipped"}
               /\ closing'[g].step = "close" => e[2] # closing'[g].conn
    <3>1. closing'[g].step = "close" => closing'[g] = closing[g]
      BY <1>5 DEF Nobody
    <3> QED  BY <1>5, <1>6, <3>1 DEF Watched
  <2>2. ASSUME NEW g \in Handlers, closing'[g] # Nobody
        PROVE  /\ closing'[g].fd = fdOf'[closing'[g].conn]
               /\ closing'[g].conn \in dealt[g] /\ conn'[closing'[g].conn] = "dealt"
    BY <1>5, <1>7, <2>2 DEF Watched
  <2>3. ASSUME NEW d \in Conns, conn'[d] \in {"dealt", "skipped"}
        PROVE  \E g \in Handlers :
                 /\ d \in dealt[g]
                 /\ <<fdOf'[d], d>> \in interest[g]
                      \/ (closing'[g].conn = d /\ closing'[g].step = "close")
    <3>1. d # c
      BY <1>5, <2>3
    <3>2. PICK g \in Handlers :
                 /\ d \in dealt[g]
                 /\ <<fdOf[d], d>> \in interest[g]
                      \/ (closing[g].conn = d /\ closing[g].step = "close")
      BY <1>5, <2>3, <3>1 DEF Watched
    <3>3. closing[g].conn = d => g # h
      BY <1>2, <3>1
    <3> QED  BY <1>5, <3>1, <3>2, <3>3
  <2> QED  BY <1>3, <2>1, <2>2, <2>3 DEF Watched
<1> QED  BY <1>8, <1>9, <1>10, <1>11

\* Every step of the accept loop and of the handlers keeps the invariant.
LEMMA ServerNext == ServerInv /\ [Next]_vars => ServerInv'
<1> SUFFICES ASSUME ServerInv, [Next]_vars  PROVE ServerInv'
  OBVIOUS
<1>1. CASE Accept
  BY <1>1, AcceptKeeps
<1>2. CASE AcceptFails
  BY <1>2 DEF AcceptFails, ServerInv, Types, OnItsWay, Descriptors, Watched
<1>3. CASE Deal
  BY <1>3, DealKeeps
<1>4. CASE \E c \in Conns : Connect(c)
  BY <1>4, ConnectKeeps
<1>5. CASE \E h \in Handlers : Skip(h)
  BY <1>5, SkipKeeps
<1>6. CASE \E h \in Handlers : Finish(h)
  BY <1>6, FinishKeeps
<1>7. CASE \E h \in Handlers : EpollDel(h)
  BY <1>7, EpollDelKeeps
<1>8. CASE \E h \in Handlers : Close(h)
  BY <1>8, CloseKeeps
<1>9. CASE UNCHANGED vars
  BY <1>9 DEF vars, ServerInv, Types, OnItsWay, Descriptors, Watched
<1> QED  BY <1>1, <1>2, <1>3, <1>4, <1>5, <1>6, <1>7, <1>8, <1>9 DEF Next, HandlerClose

(* Types, places, descriptors and interest lists agree in every reachable state.   *)
THEOREM ServerInvariant == Spec => []ServerInv
<1> QED  BY ServerInit, ServerNext, PTL DEF Spec

(* Nobody is dropped: whoever was dealt and is not finished is watched under its own
   descriptor by its own handler, and by no other, whatever descriptors are reused.  *)
THEOREM NotDropped == Spec => []NobodyIsDropped
<1>1. ServerInv => NobodyIsDropped
  <2> SUFFICES ASSUME ServerInv, NEW c \in Conns, conn[c] \in {"dealt", "skipped"}
               PROVE  \E h \in Handlers :
                        /\ c \in dealt[h]
                        /\ <<fdOf[c], c>> \in interest[h]
                             \/ (closing[h].conn = c /\ closing[h].step = "close")
                        /\ \A g \in Handlers \ {h} :
                             \A e \in interest[g] : e[2] # c /\ e[1] # fdOf[c]
    BY DEF NobodyIsDropped
  <2>1. PICK h \in Handlers :
                        /\ c \in dealt[h]
                        /\ <<fdOf[c], c>> \in interest[h]
                             \/ (closing[h].conn = c /\ closing[h].step = "close")
    BY DEF ServerInv, Watched
  <2>2. ASSUME NEW g \in Handlers \ {h}, NEW e \in interest[g]
        PROVE  e[2] # c /\ e[1] # fdOf[c]
    <3>1. e[1] = fdOf[e[2]] /\ e[2] \in dealt[g] /\ e[2] \in Conns
      BY DEF ServerInv, Watched, Types
    <3>2. e[2] # c
      BY <2>1, <3>1 DEF ServerInv, OnItsWay
    <3> QED  BY <3>1, <3>2 DEF ServerInv, Descriptors
  <2> QED  BY <2>1, <2>2
<1> QED  BY <1>1, ServerInvariant, PTL

-------------------------------------------------------------------------------
(* Dealing in turn. *)

\* The handlers before the selector are one connection ahead of the others.
Ahead(k, h) == IF h < selector THEN k + 1 ELSE k
InTurn ==
    /\ \A h \in Handlers : IsFiniteSet(dealt[h])
    /\ \E k \in Nat : \A h \in Handlers : Cardinality(dealt[h]) = Ahead(k, h)

\* A deal makes the selected handler catch up with those before it.
LEMMA DealInTurn ==
    ASSUME ServerInv, InTurn, Deal
    PROVE  InTurn'
<1>1. /\ selector \in Handlers /\ client \in Conns
      /\ dealt \in [Handlers -> SUBSET Conns] /\ client \notin dealt[selector]
  BY DEF Deal, ServerInv, Types, OnItsWay
<1>2. /\ dealt'[selector] = dealt[selector] \cup {client}
      /\ \A h \in Handlers \ {selector} : dealt'[h] = dealt[h]
      /\ selector' = NextHandler
  BY <1>1 DEF Deal
<1>3. PICK k \in Nat : \A h \in Handlers : Cardinality(dealt[h]) = Ahead(k, h)
  BY DEF InTurn
<1>4. /\ IsFiniteSet(dealt'[selector])
      /\ Cardinality(dealt'[selector]) = Cardinality(dealt[selector]) + 1
  <2>1. IsFiniteSet(dealt[selector])
    BY <1>1 DEF InTurn
  <2>2. /\ IsFiniteSet(dealt[selector] \cup {client})
        /\ Cardinality(dealt[selector] \cup {client}) = Cardinality(dealt[selector]) + 1
    BY <1>1, <2>1, FS_AddElement
  <2> QED  BY <1>2, <2>2
<1>5. Cardinality(dealt'[selector]) = k + 1
  BY <1>1, <1>3, <1>4 DEF Ahead, Handlers
<1>6. \A h \in Handlers \ {selector} :
        Cardinality(dealt'[h]) = IF h < selector THEN k + 1 ELSE k
  BY <1>2, <1>3 DEF Ahead
<1>7. CASE selector + 1 < NumHandlers
  <2>1. selector' = selector + 1
    BY <1>1, <1>2, <1>7, ServerAssumption DEF NextHandler, Handlers
  <2>2. \A h \in Handlers : Cardinality(dealt'[h]) = Ahead(k, h)'
    BY <1>1, <1>5, <1>6, <2>1, ServerAssumption DEF Ahead, Handlers
  <2> QED  BY <1>2, <1>4, <2>2 DEF InTurn
<1>8. CASE selector + 1 = NumHandlers
  <2>1. selector' = 0
    BY <1>1, <1>2, <1>8, ServerAssumption DEF NextHandler, Handlers
  <2>2. \A h \in Handlers : Cardinality(dealt'[h]) = Ahead(k + 1, h)'
    BY <1>1, <1>5, <1>6, <1>8, <2>1, ServerAssumption DEF Ahead, Handlers
  <2> QED  BY <1>2, <1>4, <2>2 DEF InTurn
<1> QED  BY <1>1, <1>7, <1>8, ServerAssumption DEF Handlers

(* Connections are dealt in turn: at any moment no handler has had more than one
   connection more than another, however many there are of either.  *)
THEOREM DealsInTurn == Spec => []DealtInTurn
<1>1. Init => InTurn
  <2> SUFFICES ASSUME Init  PROVE InTurn
    OBVIOUS
  <2>1. \A h \in Handlers : IsFiniteSet(dealt[h]) /\ Cardinality(dealt[h]) = 0
    BY FS_EmptySet DEF Init
  <2>2. \A h \in Handlers : Ahead(0, h) = 0
    BY ServerAssumption DEF Init, Ahead, Handlers
  <2> QED  BY <2>1, <2>2 DEF InTurn
<1>2. ServerInv /\ InTurn /\ [Next]_vars => InTurn'
  <2> SUFFICES ASSUME ServerInv, InTurn, [Next]_vars  PROVE InTurn'
    OBVIOUS
  <2>1. CASE Deal
    BY <2>1, DealInTurn
  <2>2. CASE ~Deal
    <3>1. UNCHANGED <<dealt, selector>>
      BY <2>2 DEF Next, vars, Connect, Accept, AcceptFails, Skip, Finish, HandlerClose,
                  EpollDel, Close, CloseOf
    <3> QED  BY <3>1 DEF InTurn, Ahead
  <2> QED  BY <2>1, <2>2
<1>3. ServerInv /\ InTurn => DealtInTurn
  <2> SUFFICES ASSUME InTurn, NEW g \in Handlers, NEW h \in Handlers
               PROVE  Cardinality(dealt[g]) <= Cardinality(dealt[h]) + 1
    BY DEF DealtInTurn
  <2> QED  BY DEF InTurn, Ahead
<1> QED  BY <1>1, <1>2, <1>3, ServerInvariant, PTL DEF Spec
=============================================================================
