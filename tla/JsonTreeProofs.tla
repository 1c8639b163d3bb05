--------------------------- MODULE JsonTreeProofs ---------------------------
(***************************************************************************)
(* The items of JsonTree, for any number of them: whatever operations were *)
(* called, the lists are sound, every item has one owner and is below one  *)
(* that the caller holds, the lookups agree, and the pointers do what      *)
(* JsonForest says of sequences.                                           *)
(***************************************************************************)
EXTENDS JsonTree, FiniteSetTheorems, WellFoundedInduction, TLAPS

-------------------------------------------------------------------------------
(* The inductive invariant, of the lists K that Kids returns. *)

Place == Items \cup {NULL}
Record == [kind : Kinds \cup {"free", "array"}, ref : BOOLEAN, name : Names \cup {NULL},
           child : Place, next : Place, prev : Place]
Heap == [Items -> Record]

\* An item has a list of its own, unless it refers to the list of another.
Owner(h, p) == p \in LiveIn(h) /\ ~h[p].ref

\* s is linked from the child of p on, and backwards all around.
Forwards(h, p, s) ==
    /\ h[p].child = IF s = <<>> THEN NULL ELSE s[1]
    /\ \A i \in 1..Len(s) : h[s[i]].next = IF i = Len(s) THEN NULL ELSE s[i + 1]
Backwards(h, s) ==
    \A i \in 1..Len(s) : h[s[i]].prev = s[IF i = 1 THEN Len(s) ELSE i - 1]

Linked(h, K) == \A p \in Items :
    IF Owner(h, p) THEN Forwards(h, p, K[p]) /\ Backwards(h, K[p]) ELSE K[p] = <<>>

\* No item is in two lists, or twice in one.
Disjoint(K) == \A p, q \in Items : \A i \in 1..Len(K[p]), j \in 1..Len(K[q]) :
    K[p][i] = K[q][j] => p = q /\ i = j

\* An item is in a list or in the caller's hands, and there it is the end of a list.
Within(K, x) == \E p \in Items : \E i \in 1..Len(K[p]) : K[p][i] = x
Placed(h, R, K) ==
    /\ \A x \in Items : x \in LiveIn(h) <=> x \in R \/ Within(K, x)
    /\ \A x \in R : ~Within(K, x) /\ h[x].next = NULL

\* A reference leads to the first item of a list.
RefersTo(h, K, r) ==
    h[r].child = NULL \/ \E p \in Items : K[p] # <<>> /\ h[r].child = K[p][1]
Referring(h, K) == \A r \in LiveIn(h) : h[r].ref => RefersTo(h, K, r)

TreeOf(h, R, K) ==
    /\ h \in Heap /\ R \subseteq Items /\ K \in [Items -> Seq(Items)]
    /\ Linked(h, K) /\ Disjoint(K) /\ Placed(h, R, K) /\ Referring(h, K)

TreeInv == TreeOf(heap, roots, Kids(heap))

-------------------------------------------------------------------------------
(* Following next. *)

\* A nonempty set of naturals has a least element, and Min returns it.
LEMMA MinOfNaturals ==
    ASSUME NEW S \in SUBSET Nat, S # {}
    PROVE  /\ Min(S) \in S
           /\ \A x \in S : Min(S) <= x
<1>1. PICK n \in S : TRUE
  OBVIOUS
<1> DEFINE below == {0..x : x \in {y \in S : y <= n}}
<1>2. below \subseteq SUBSET (0..n) /\ below # {}
  <2>1. \A x \in S : x <= n => 0..x \subseteq 0..n
    OBVIOUS
  <2>2. 0..n \in below
    OBVIOUS
  <2> QED  BY <2>1, <2>2
<1>3. IsWellFoundedOn(StrictSubsetOrdering(0..n), SUBSET (0..n))
  <2>1. IsFiniteSet(0..n)
    BY FS_Interval
  <2> QED  BY <2>1, FS_FiniteSubsetsOfFinite, FS_StrictSubsetOrderingWellFounded, Zenon
<1> HIDE DEF below
<1>6. PICK b \in below : \A c \in below : ~(<<c, b>> \in StrictSubsetOrdering(0..n))
  BY <1>2, <1>3, WFMin, Zenon
<1>4. PICK m \in S : m <= n /\ b = 0..m
  BY <1>6 DEF below
<1>5. \A x \in S : m =< x
  <2>1. SUFFICES ASSUME NEW x \in S, x < m  PROVE FALSE
    OBVIOUS
  <2>2. 0..x \in below /\ 0..x \subseteq 0..m /\ 0..x # 0..m
    BY <1>4, <2>1 DEF below
  <2> QED  BY <1>2, <1>4, <1>6, <2>2 DEF StrictSubsetOrdering
<1> QED  BY <1>5 DEF Min

\* No item occurs twice in s.
Once(s) == \A i, j \in 1..Len(s) : s[i] = s[j] => i = j

\* Such a sequence is no longer than there are items.
LEMMA ShortEnough ==
    ASSUME NEW s \in Seq(Items), Once(s)
    PROVE  Len(s) <= Cardinality(Items) /\ Cardinality(Items) \in Nat
<1>1. IsFiniteSet(Items) /\ Cardinality(Items) \in Nat
  BY JsonTreeAssumption, FS_CardinalityType
<1>2. IsFiniteSet(1..Len(s)) /\ Cardinality(1..Len(s)) = Len(s)
  <2>1. PICK n \in Nat : n = Len(s)
    OBVIOUS
  <2>2. IsFiniteSet(1..n) /\ Cardinality(1..n) = n
    BY FS_Interval
  <2> QED  BY <2>1, <2>2
<1>3. s \in [1..Len(s) -> Items]
  OBVIOUS
<1>4. ~(Cardinality(Items) < Len(s))
  BY <1>1, <1>2, <1>3, FS_PigeonHole DEF Once
<1> QED  BY <1>1, <1>4

\* Chain is the sequence that is linked.
LEMMA LinkedIsChain ==
    ASSUME NEW h, NEW p, NEW s \in Seq(Items), Once(s), Forwards(h, p, s)
    PROVE  Chain(h, p) = s
<1> DEFINE N == Cardinality(Items) + 1
           first(k) == SubSeq(s, 1, IF k <= Len(s) THEN k ELSE Len(s))
           after(q) == IF q = <<>> THEN h[p].child ELSE h[Last(q)].next
           longer(q) == IF after(q) = NULL THEN q ELSE Append(q, after(q))
           step(f) == [k \in 0..N |-> IF k = 0 THEN <<>> ELSE longer(f[k - 1])]
           walk == CHOOSE f : f = step(f)
<1>0. Chain(h, p) = walk[N]
  BY DEF Chain
<1> HIDE DEF walk
<1>1. /\ s \in Seq(Items) /\ NULL \notin Items
      /\ h[p].child = IF s = <<>> THEN NULL ELSE s[1]
      /\ \A i \in 1..Len(s) : h[s[i]].next = IF i = Len(s) THEN NULL ELSE s[i + 1]
  BY JsonTreeAssumption DEF Forwards
<1>2. Len(s) \in 0..N /\ N \in Nat
  BY ShortEnough
<1> HIDE DEF N
<1>3. ASSUME NEW k \in 1..N
      PROVE  first(k) = longer(first(k - 1))
  <2>1. CASE k <= Len(s)
    <3>1. /\ first(k) = SubSeq(s, 1, k) /\ first(k - 1) = SubSeq(s, 1, k - 1)
          /\ k - 1 \in 0..Len(s)
      BY <1>2, <2>1
    <3>2. after(first(k - 1)) = s[k]
      <4>1. CASE k = 1
        BY <1>1, <2>1, <3>1, <4>1
      <4>2. CASE k # 1
        <5>1. k - 1 \in 1..Len(s) /\ k - 1 # Len(s) /\ (k - 1) + 1 = k
          BY <1>1, <2>1, <4>2
        <5>2. SubSeq(s, 1, k - 1) # <<>> /\ Last(SubSeq(s, 1, k - 1)) = s[k - 1]
          BY SMTT(60), <1>1, <5>1 DEF Last
        <5>3. h[s[k - 1]].next = s[k]
          BY <1>1, <5>1
        <5> QED  BY <3>1, <5>2, <5>3
      <4> QED  BY <4>1, <4>2
    <3>3. s[k] \in Items
      BY <1>1, <2>1
    <3>4. SubSeq(s, 1, k) = Append(SubSeq(s, 1, k - 1), s[k])
      BY <1>1, <2>1
    <3> QED  BY <1>1, <3>1, <3>2, <3>3, <3>4
  <2>2. CASE k > Len(s)
    <3>1. first(k) = s /\ first(k - 1) = s
      BY <1>1, <1>2, <2>2
    <3>2. CASE s = <<>>
      BY <1>1, <3>1, <3>2
    <3>3. CASE s # <<>>
      <4>1. Len(s) \in 1..Len(s)
        BY <1>1, <3>3
      <4>2. h[Last(s)].next = NULL
        BY <1>1, <4>1 DEF Last
      <4>3. longer(s) = s
        BY <3>3, <4>2
      <4> HIDE DEF first, longer
      <4> QED  BY <3>1, <4>3
    <3> QED  BY <3>2, <3>3
  <2> QED  BY <1>1, <2>1, <2>2
<1> HIDE DEF longer
<1>4. first(0) = <<>> /\ first(N) = s
  BY <1>1, <1>2
<1>5. PICK g : g = [k \in 0..N |-> first(k)]
  OBVIOUS
<1> HIDE DEF first
<1>6. g = step(g)
  <2>1. \A k \in 1..N : k - 1 \in 0..N /\ k \in 0..N
    BY <1>2
  <2>2. \A k \in 0..N : g[k] = IF k = 0 THEN <<>> ELSE longer(g[k - 1])
    BY <1>2, <1>3, <1>4, <1>5, <2>1
  <2> QED  BY <1>5, <2>2
<1>7. walk = step(walk)
  <2> USE DEF walk
  <2> HIDE DEF step
  <2> QED  BY <1>6
<1>8. walk[N] = g[N]
  <2> DEFINE wrong == {k \in 0..N : walk[k] # g[k]}
  <2>1. SUFFICES ASSUME wrong # {}  PROVE FALSE
    BY <1>2
  <2>2. wrong \in SUBSET Nat
    OBVIOUS
  <2>3. PICK k \in wrong : \A m \in wrong : k <= m
    BY <2>1, <2>2, MinOfNaturals
  <2>4. k \in 1..N /\ k - 1 \in 0..N /\ k - 1 \notin wrong
    <3>1. k \in 0..N /\ walk[k] # g[k]
      BY <2>3
    <3>2. walk[0] = <<>> /\ g[0] = <<>>
      BY <1>2, <1>6, <1>7
    <3>3. k \in 1..N
      BY <1>2, <3>1, <3>2
    <3> QED  BY <1>2, <2>3, <3>3
  <2> QED  BY <1>6, <1>7, <2>3, <2>4
<1> QED  BY <1>0, <1>2, <1>4, <1>5, <1>8

-------------------------------------------------------------------------------
(* A change of one list. *)

\* Between h and h2 at most names, the child of p and the neighbours of S differ.
SameBut(h, h2, p, S) ==
    /\ \A y \in Items : h2[y].kind = h[y].kind /\ h2[y].ref = h[y].ref
    /\ \A y \in Items \ {p} : h2[y].child = h[y].child
    /\ \A y \in Items \ S : h2[y].next = h[y].next /\ h2[y].prev = h[y].prev

\* No reference leads to the list of p.
Alone(h, p) == \A r \in LiveIn(h) : h[r].ref => h[r].child = NULL \/ h[r].child # h[p].child

\* The members of a sequence are what is at its indices.
LEMMA MembersOf ==
    ASSUME NEW s \in Seq(Items)
    PROVE  \A x : x \in ToSet(s) <=> \E i \in 1..Len(s) : s[i] = x
  BY DEF ToSet

\* The list of p becomes s: the items In are put in, the items Out are taken out.
LEMMA Relisted ==
    ASSUME NEW h, NEW R, NEW K, TreeOf(h, R, K),
           NEW p \in Items, Owner(h, p), Alone(h, p),
           NEW h2 \in Heap, NEW s \in Seq(Items), NEW In \in SUBSET R, NEW Out \in SUBSET Items,
           SameBut(h, h2, p, ToSet(K[p]) \cup In),
           Once(s), Forwards(h2, p, s), Backwards(h2, s),
           Out \subseteq ToSet(K[p]), ToSet(s) = (ToSet(K[p]) \ Out) \cup In,
           \A y \in Out : h2[y].next = NULL
    PROVE  TreeOf(h2, (R \ In) \cup Out, [K EXCEPT ![p] = s])
<1> DEFINE K2 == [K EXCEPT ![p] = s]
           R2 == (R \ In) \cup Out
<1>1. /\ h \in Heap /\ R \subseteq Items /\ K \in [Items -> Seq(Items)]
      /\ Linked(h, K) /\ Disjoint(K) /\ Placed(h, R, K) /\ Referring(h, K)
  BY DEF TreeOf
<1>2. /\ K2 \in [Items -> Seq(Items)] /\ K2[p] = s
      /\ \A q \in Items \ {p} : K2[q] = K[q]
  BY <1>1
<1> HIDE DEF K2
<1>3. LiveIn(h2) = LiveIn(h) /\ \A q \in Items : Owner(h2, q) <=> Owner(h, q)
  BY DEF LiveIn, Owner, SameBut
<1>4. /\ \A x : x \in ToSet(s) <=> \E i \in 1..Len(s) : s[i] = x
      /\ \A x : x \in ToSet(K[p]) <=> \E i \in 1..Len(K[p]) : K[p][i] = x
      /\ K[p] \in Seq(Items)
  BY <1>1, MembersOf
<1>5. /\ \A x \in In : ~Within(K, x)
      /\ \A x \in ToSet(K[p]) : Within(K, x)
      /\ \A q \in Items : \A i \in 1..Len(K[q]) : Within(K, K[q][i]) /\ K[q][i] \in Items
  BY <1>1, <1>4 DEF Placed, Within
<1>6. ASSUME NEW q \in Items \ {p}, NEW i \in 1..Len(K[q])
      PROVE  K[q][i] \in Items \ (ToSet(K[p]) \cup In)
  BY SMTT(60), <1>1, <1>4, <1>5 DEF Disjoint
<1>7. Linked(h2, K2)
  <2> SUFFICES ASSUME NEW q \in Items
               PROVE  IF Owner(h2, q) THEN Forwards(h2, q, K2[q]) /\ Backwards(h2, K2[q])
                      ELSE K2[q] = <<>>
    BY DEF Linked
  <2>1. CASE q = p
    BY <1>2, <1>3, <2>1
  <2>2. CASE q # p
    <3>1. K2[q] = K[q] /\ h2[q].child = h[q].child
      BY <1>2, <2>2 DEF SameBut
    <3>2. \A i \in 1..Len(K[q]) : /\ h2[K[q][i]].next = h[K[q][i]].next
                                  /\ h2[K[q][i]].prev = h[K[q][i]].prev
      BY <1>6, <2>2 DEF SameBut
    <3>3. CASE Owner(h, q)
      <4>1. Forwards(h, q, K[q]) /\ Backwards(h, K[q])
        BY <1>1, <3>3 DEF Linked
      <4>2. Forwards(h2, q, K[q]) /\ Backwards(h2, K[q])
        BY <3>1, <3>2, <4>1 DEF Forwards, Backwards
      <4> QED  BY <1>3, <3>1, <3>3, <4>2
    <3>4. CASE ~Owner(h, q)
      BY <1>1, <1>3, <3>1, <3>4 DEF Linked
    <3> QED  BY <3>3, <3>4
  <2> QED  BY <2>1, <2>2
<1>8. Disjoint(K2)
  <2> SUFFICES ASSUME NEW q \in Items, NEW r \in Items,
                      NEW i \in 1..Len(K2[q]), NEW j \in 1..Len(K2[r]), K2[q][i] = K2[r][j]
               PROVE  q = r /\ i = j
    BY DEF Disjoint
  <2>1. CASE q = p /\ r = p
    BY <1>2, <2>1 DEF Once
  <2>2. CASE q # p /\ r # p
    BY SMTT(60), <1>1, <1>2, <2>2 DEF Disjoint
  <2>3. CASE q = p /\ r # p
    <3>1. s[i] \in ToSet(K[p]) \cup In
      BY <1>2, <1>4, <2>3
    <3>2. K2[r] = K[r] /\ K2[q] = s /\ r \in Items \ {p} /\ j \in 1..Len(K[r])
      BY <1>2, <2>3
    <3>3. K[r][j] \notin ToSet(K[p]) \cup In
      BY <1>6, <3>2
    <3> QED  BY <3>1, <3>2, <3>3
  <2>4. CASE q # p /\ r = p
    <3>1. s[j] \in ToSet(K[p]) \cup In
      BY <1>2, <1>4, <2>4
    <3> QED  BY <1>2, <1>6, <2>4, <3>1
  <2> QED  BY <2>1, <2>2, <2>3, <2>4
<1>9. \A x : Within(K2, x) <=> x \in ToSet(s) \/ (x \notin ToSet(K[p]) /\ Within(K, x))
  <2> TAKE x
  <2>1. Within(K2, x) <=> \/ \E i \in 1..Len(s) : s[i] = x
                          \/ \E q \in Items \ {p} : \E i \in 1..Len(K[q]) : K[q][i] = x
    BY <1>2 DEF Within
  <2>2. Within(K, x) <=> \/ \E i \in 1..Len(K[p]) : K[p][i] = x
                         \/ \E q \in Items \ {p} : \E i \in 1..Len(K[q]) : K[q][i] = x
    BY DEF Within
  <2> QED  BY <1>4, <1>6, <2>1, <2>2
<1>10. Placed(h2, R2, K2)
  <2>1. ASSUME NEW x \in Items  PROVE x \in LiveIn(h2) <=> x \in R2 \/ Within(K2, x)
    <3>1. x \in LiveIn(h) <=> x \in R \/ Within(K, x)
      BY <1>1 DEF Placed
    <3> QED  BY <1>3, <1>5, <1>9, <3>1
  <2>2. ASSUME NEW x \in R2  PROVE ~Within(K2, x) /\ h2[x].next = NULL
    <3>1. CASE x \in R \ In
      <4>1. x \in Items /\ ~Within(K, x) /\ h[x].next = NULL /\ x \notin ToSet(K[p])
        BY <1>1, <1>5, <3>1 DEF Placed
      <4> QED  BY <1>9, <3>1, <4>1 DEF SameBut
    <3>2. CASE x \in Out
      BY <1>5, <1>9, <3>2
    <3> QED  BY <3>1, <3>2
  <2> QED  BY <2>1, <2>2 DEF Placed
<1>11. Referring(h2, K2)
  <2>0. \A r \in LiveIn(h) : /\ r \in Items /\ h2[r].ref = h[r].ref
                             /\ h[r].ref => h2[r].child = h[r].child
    BY DEF LiveIn, Owner, SameBut
  <2> SUFFICES ASSUME NEW r \in LiveIn(h), h[r].ref, h[r].child # NULL
               PROVE  \E q \in Items : K2[q] # <<>> /\ h2[r].child = K2[q][1]
    BY <1>3, <2>0 DEF Referring, RefersTo
  <2>1. r \in Items \ {p} /\ h2[r].child = h[r].child
    BY DEF Owner, LiveIn, SameBut
  <2>2. PICK q \in Items : K[q] # <<>> /\ h[r].child = K[q][1]
    BY <1>1 DEF Referring, RefersTo
  <2>3. q # p
    <3>1. K[p] # <<>> => h[p].child = K[p][1]
      BY <1>1 DEF Linked, Forwards
    <3> QED  BY <2>2, <3>1 DEF Alone
  <2> QED  BY <1>2, <2>1, <2>2, <2>3
<1>12. R2 \subseteq Items
  BY <1>1
<1> QED  BY <1>2, <1>7, <1>8, <1>10, <1>11, <1>12 DEF TreeOf, K2

\* What an assignment to a pointer does.
NextIs(h, h2, a, v) ==
    /\ h2 \in Heap
    /\ \A y \in Items :
         /\ h2[y].next = (IF y = a THEN v ELSE h[y].next)
         /\ h2[y].prev = h[y].prev /\ h2[y].child = h[y].child
         /\ h2[y].kind = h[y].kind /\ h2[y].ref = h[y].ref
PrevIs(h, h2, a, v) ==
    /\ h2 \in Heap
    /\ \A y \in Items :
         /\ h2[y].prev = (IF y = a THEN v ELSE h[y].prev)
         /\ h2[y].next = h[y].next /\ h2[y].child = h[y].child
         /\ h2[y].kind = h[y].kind /\ h2[y].ref = h[y].ref
ChildIs(h, h2, a, v) ==
    /\ h2 \in Heap
    /\ \A y \in Items :
         /\ h2[y].child = (IF y = a THEN v ELSE h[y].child)
         /\ h2[y].next = h[y].next /\ h2[y].prev = h[y].prev
         /\ h2[y].kind = h[y].kind /\ h2[y].ref = h[y].ref

\* A next pointer that is written leads where it was told to, and nothing else changes.
LEMMA SetNext ==
    ASSUME NEW h \in Heap, NEW a \in Items, NEW v \in Place,
           NEW h2, h2 = [h EXCEPT ![a].next = v]
    PROVE  h2 \in Heap /\ NextIs(h, h2, a, v)
  BY DEF NextIs, Heap, Record, Place

\* The same of a prev pointer.
LEMMA SetPrev ==
    ASSUME NEW h \in Heap, NEW a \in Items, NEW v \in Place,
           NEW h2, h2 = [h EXCEPT ![a].prev = v]
    PROVE  h2 \in Heap /\ PrevIs(h, h2, a, v)
  BY DEF PrevIs, Heap, Record, Place

\* The same of the child pointer.
LEMMA SetChild ==
    ASSUME NEW h \in Heap, NEW a \in Items, NEW v \in Place,
           NEW h2, h2 = [h EXCEPT ![a].child = v]
    PROVE  h2 \in Heap /\ ChildIs(h, h2, a, v)
  BY DEF ChildIs, Heap, Record, Place

-------------------------------------------------------------------------------
(* The operations on one list. *)

\* A sequence with one item more at its end.
LEMMA AppendShape ==
    ASSUME NEW q \in Seq(Items), Once(q), NEW x \in Items, x \notin ToSet(q),
           NEW s, s = Append(q, x)
    PROVE  /\ s \in Seq(Items) /\ Once(s) /\ ToSet(s) = ToSet(q) \cup {x}
           /\ Len(s) = Len(q) + 1 /\ s[Len(q) + 1] = x /\ \A i \in 1..Len(q) : s[i] = q[i]
<1>1. /\ s \in Seq(Items) /\ Len(s) = Len(q) + 1 /\ Len(q) \in Nat
      /\ s[Len(q) + 1] = x /\ \A i \in 1..Len(q) : s[i] = q[i]
  OBVIOUS
<1>2. \A i \in 1..Len(s) : i \in 1..Len(q) \/ i = Len(q) + 1
  BY <1>1
<1>3. \A i \in 1..Len(q) : i \in 1..Len(s) /\ Len(q) + 1 \in 1..Len(s)
  BY <1>1
<1>4. /\ \A y : y \in ToSet(q) <=> \E i \in 1..Len(q) : q[i] = y
      /\ \A y : y \in ToSet(s) <=> \E i \in 1..Len(s) : s[i] = y
  BY <1>1, MembersOf
<1>5. Len(q) + 1 \in 1..Len(s)
  BY <1>1
<1>6. ToSet(s) = ToSet(q) \cup {x}
  BY <1>1, <1>2, <1>3, <1>4, <1>5
<1>7. Once(s)
  BY <1>1, <1>2, <1>4 DEF Once
<1> QED  BY <1>1, <1>6, <1>7

\* The list of an owner.
LEMMA ListOf ==
    ASSUME NEW h, NEW R, NEW K, TreeOf(h, R, K), NEW p \in Items, Owner(h, p)
    PROVE  /\ h \in Heap /\ R \subseteq Items /\ NULL \notin Items
           /\ K[p] \in Seq(Items) /\ Once(K[p]) /\ Forwards(h, p, K[p]) /\ Backwards(h, K[p])
           /\ \A x \in R : x \notin ToSet(K[p]) /\ h[x].next = NULL
           /\ \A i \in 1..Len(K[p]) : K[p][i] \in Items /\ K[p][i] \in ToSet(K[p])
<1>1. K[p] \in Seq(Items)
  BY DEF TreeOf
<1>2. \A x \in ToSet(K[p]) : Within(K, x)
  BY <1>1, MembersOf DEF Within
<1> QED  BY <1>1, <1>2, MembersOf, JsonTreeAssumption
         DEF TreeOf, Placed, Linked, Disjoint, Once

\* x is added behind the list of p.
LEMMA Added ==
    ASSUME NEW h, NEW R, NEW K, TreeOf(h, R, K),
           NEW p \in Items, Owner(h, p), Alone(h, p), NEW x \in R, x # p
    PROVE  TreeOf(add_item_to_array(h, p, x), R \ {x}, [K EXCEPT ![p] = Append(K[p], x)])
<1>0. PICK q, s : q = K[p] /\ s = Append(q, x)
  OBVIOUS
<1>1. /\ h \in Heap /\ x \in Items /\ q \in Seq(Items) /\ Once(q)
      /\ NULL \notin Items /\ x \notin ToSet(q) /\ h[x].next = NULL
      /\ Forwards(h, p, q) /\ Backwards(h, q)
  BY <1>0, ListOf
<1>2. /\ s \in Seq(Items) /\ Len(s) = Len(q) + 1 /\ s[Len(q) + 1] = x
      /\ \A i \in 1..Len(q) : s[i] = q[i] /\ q[i] \in Items /\ q[i] \in ToSet(q)
  BY <1>0, <1>1, AppendShape, ListOf
<1>3. ToSet(s) = ToSet(q) \cup {x} /\ Once(s)
  BY <1>0, <1>1, AppendShape
<1>4. x \in Place /\ NULL \in Place /\ \A y \in Items : y \in Place
  BY <1>1 DEF Place
<1>5. ASSUME NEW h2 \in Heap, h2 = add_item_to_array(h, p, x),
             SameBut(h, h2, p, ToSet(q) \cup {x}), Forwards(h2, p, s), Backwards(h2, s)
      PROVE  TreeOf(add_item_to_array(h, p, x), R \ {x}, [K EXCEPT ![p] = s])
  <2>1. TreeOf(h2, (R \ {x}) \cup {}, [K EXCEPT ![p] = s])
    <3>1. {x} \in SUBSET R /\ {} \in SUBSET Items /\ ToSet(s) = (ToSet(K[p]) \ {}) \cup {x}
      BY <1>0, <1>3
    <3> QED  BY <1>0, <1>2, <1>3, <1>5, <3>1, Relisted
  <2> QED  BY <1>5, <2>1
<1>6. CASE q = <<>>
  <2>1. PICK h1 : h1 = [h EXCEPT ![p].child = x]
    OBVIOUS
  <2>2. PICK h2 : h2 = [h1 EXCEPT ![x].prev = x]
    OBVIOUS
  <2>3. PICK h3 : h3 = [h2 EXCEPT ![x].next = NULL]
    OBVIOUS
  <2>4. ChildIs(h, h1, p, x) /\ h1 \in Heap
    BY <1>1, <1>4, <2>1, SetChild
  <2>5. PrevIs(h1, h2, x, x) /\ h2 \in Heap
    BY <1>1, <1>4, <2>2, <2>4, SetPrev
  <2>6. NextIs(h2, h3, x, NULL) /\ h3 \in Heap
    BY <1>1, <1>4, <2>3, <2>5, SetNext
  <2>7. h3 = add_item_to_array(h, p, x)
    <3>1. h[p].child = NULL
      BY <1>1, <1>6 DEF Forwards
    <3> QED  BY <2>1, <2>2, <2>3, <3>1 DEF add_item_to_array
  <2>8. SameBut(h, h3, p, ToSet(q) \cup {x})
    BY <2>4, <2>5, <2>6 DEF ChildIs, PrevIs, NextIs, SameBut
  <2>9. Forwards(h3, p, s) /\ Backwards(h3, s)
    <3>1. Len(s) = 1 /\ s[1] = x /\ s # <<>>
      BY <1>2, <1>6
    <3>2. h3[p].child = x /\ h3[x].next = NULL /\ h3[x].prev = x
      BY <1>1, <2>4, <2>5, <2>6 DEF ChildIs, PrevIs, NextIs
    <3> QED  BY <3>1, <3>2 DEF Forwards, Backwards
  <2> QED  BY <1>0, <1>5, <2>6, <2>7, <2>8, <2>9
<1>7. CASE q # <<>>
  <2>z. PICK first, last : first = q[1] /\ last = q[Len(q)]
    OBVIOUS
  <2>0. /\ 1 \in 1..Len(q) /\ Len(q) \in 1..Len(q)
        /\ first \in Items /\ last \in Items /\ h[p].child = first /\ h[first].prev = last
    BY <1>1, <1>2, <1>7, <2>z DEF Forwards, Backwards
  <2>1. PICK h1 : h1 = [h EXCEPT ![last].next = x]
    OBVIOUS
  <2>2. PICK h2 : h2 = [h1 EXCEPT ![x].prev = last]
    OBVIOUS
  <2>3. PICK h3 : h3 = [h2 EXCEPT ![first].prev = x]
    OBVIOUS
  <2>4. NextIs(h, h1, last, x) /\ h1 \in Heap
    BY <1>1, <1>4, <2>0, <2>1, SetNext
  <2>5. PrevIs(h1, h2, x, last) /\ h2 \in Heap
    BY <1>1, <1>4, <2>0, <2>2, <2>4, SetPrev
  <2>6. PrevIs(h2, h3, first, x) /\ h3 \in Heap
    BY <1>1, <1>4, <2>0, <2>3, <2>5, SetPrev
  <2>7. h3 = add_item_to_array(h, p, x)
    BY <1>1, <2>0, <2>1, <2>2, <2>3 DEF add_item_to_array, suffix_object
  <2>8. SameBut(h, h3, p, ToSet(q) \cup {x})
    <3>1. first \in ToSet(q) /\ last \in ToSet(q)
      BY <1>2, <2>0, <2>z
    <3> QED  BY <2>4, <2>5, <2>6, <3>1 DEF PrevIs, NextIs, SameBut
  <2>9. /\ \A y \in Items : h3[y].next = IF y = last THEN x ELSE h[y].next
        /\ \A y \in Items : h3[y].prev = IF y = first THEN x ELSE IF y = x THEN last
                                         ELSE h[y].prev
        /\ h3[p].child = first
    BY <2>0, <2>4, <2>5, <2>6 DEF PrevIs, NextIs
  <2>10. Forwards(h3, p, s)
    <3>1. s # <<>> /\ s[1] = first
      BY <1>2, <2>0, <2>z
    <3>2. ASSUME NEW i \in 1..Len(s)
          PROVE  h3[s[i]].next = IF i = Len(s) THEN NULL ELSE s[i + 1]
      <4>1. CASE i = Len(s)
        BY <1>1, <1>2, <2>0, <2>9, <2>z, <4>1
      <4>2. CASE i = Len(q)
        BY <1>2, <2>0, <2>9, <2>z, <4>2
      <4>3. CASE i \in 1..(Len(q) - 1)
        <5>1. /\ i \in 1..Len(q) /\ i + 1 \in 1..Len(q) /\ i # Len(q) /\ i # Len(s)
              /\ q[i] # last
          BY <1>1, <1>2, <2>0, <2>z, <4>3 DEF Once
        <5>2. h[q[i]].next = q[i + 1]
          BY <1>1, <5>1 DEF Forwards
        <5> QED  BY <1>2, <2>9, <5>1, <5>2
      <4> QED  BY <1>2, <4>1, <4>2, <4>3
    <3> QED  BY <2>9, <3>1, <3>2 DEF Forwards
  <2>11. Backwards(h3, s)
    <3> SUFFICES ASSUME NEW i \in 1..Len(s)
                 PROVE  h3[s[i]].prev = s[IF i = 1 THEN Len(s) ELSE i - 1]
      BY DEF Backwards
    <3>1. CASE i = Len(s)
      BY <1>1, <1>2, <2>0, <2>9, <2>z, <3>1
    <3>2. CASE i = 1
      BY <1>2, <2>0, <2>9, <2>z, <3>2
    <3>3. CASE i \in 2..Len(q)
      <4>1. /\ i \in 1..Len(q) /\ i - 1 \in 1..Len(q) /\ i # 1
            /\ q[i] # first /\ q[i] # x
        BY <1>1, <1>2, <2>0, <2>z, <3>3 DEF Once
      <4>2. h[q[i]].prev = q[i - 1]
        BY <1>1, <4>1 DEF Backwards
      <4> QED  BY <1>2, <2>9, <4>1, <4>2
    <3> QED  BY <1>2, <3>1, <3>2, <3>3
  <2> QED  BY <1>0, <1>5, <2>6, <2>7, <2>8, <2>10, <2>11
<1> QED  BY <1>0, <1>6, <1>7

\* s is q without its item k.
IsRemoved(q, k, s) ==
    /\ s \in Seq(Items) /\ Once(s) /\ ToSet(s) = ToSet(q) \ {q[k]}
    /\ Len(s) = Len(q) - 1
    /\ \A i \in 1..(Len(q) - 1) : s[i] = IF i < k THEN q[i] ELSE q[i + 1]

\* What RemoveAt leaves, index by index.
LEMMA RemoveShape ==
    ASSUME NEW q \in Seq(Items), Once(q), NEW k \in 1..Len(q)
    PROVE  IsRemoved(q, k, RemoveAt(q, k))
<1>0. PICK s : s = RemoveAt(q, k)
  OBVIOUS
<1>1. PICK n \in Nat : n = Len(q)
  OBVIOUS
<1>2. /\ SubSeq(q, 1, k - 1) \in Seq(Items) /\ Len(SubSeq(q, 1, k - 1)) = k - 1
      /\ \A i \in 1..(k - 1) : SubSeq(q, 1, k - 1)[i] = q[i]
  BY <1>1
<1>3. /\ SubSeq(q, k + 1, n) \in Seq(Items) /\ Len(SubSeq(q, k + 1, n)) = n - k
      /\ \A i \in 1..(n - k) : SubSeq(q, k + 1, n)[i] = q[k + i]
  BY <1>1
<1>4. PICK a, b : a = SubSeq(q, 1, k - 1) /\ b = SubSeq(q, k + 1, n)
  OBVIOUS
<1>5. s = a \o b
  BY <1>0, <1>1, <1>4 DEF RemoveAt
<1>6. /\ s \in Seq(Items) /\ Len(s) = n - 1
      /\ \A i \in 1..(n - 1) : s[i] = IF i <= k - 1 THEN a[i] ELSE b[i - (k - 1)]
  <2>1. a \in Seq(Items) /\ b \in Seq(Items) /\ Len(a) = k - 1 /\ Len(b) = n - k
    BY <1>2, <1>3, <1>4
  <2>2. (a \o b) \in Seq(Items) /\ Len(a \o b) = n - 1
    BY <1>1, <2>1
  <2>3. \A i \in 1..(n - 1) : (a \o b)[i] = IF i <= k - 1 THEN a[i] ELSE b[i - (k - 1)]
    BY <1>1, <2>1
  <2> QED  BY <1>5, <2>2, <2>3
<1>7. \A i \in 1..(n - 1) : s[i] = IF i < k THEN q[i] ELSE q[i + 1]
  <2> TAKE i \in 1..(n - 1)
  <2>1. CASE i < k
    BY <1>1, <1>2, <1>4, <1>6, <2>1
  <2>2. CASE ~(i < k)
    <3>1. i - (k - 1) \in 1..(n - k) /\ k + (i - (k - 1)) = i + 1 /\ ~(i <= k - 1)
      BY <1>1, <2>2
    <3> QED  BY <1>3, <1>4, <1>6, <2>2, <3>1
  <2> QED  BY <2>1, <2>2
<1>8. \A i \in 1..(n - 1) : /\ i < k => i \in 1..n /\ i # k
                            /\ ~(i < k) => i + 1 \in 1..n /\ i + 1 # k
  BY <1>1
<1>9. Once(s)
  <2> SUFFICES ASSUME NEW i \in 1..(n - 1), NEW j \in 1..(n - 1), s[i] = s[j]
               PROVE  i = j
    BY <1>6 DEF Once
  <2>1. \A a1, b1 \in 1..n : q[a1] = q[b1] => a1 = b1
    BY <1>1 DEF Once
  <2> QED  BY <1>1, <1>7, <1>8, <2>1
<1>10. /\ \A y : y \in ToSet(q) <=> \E i \in 1..n : q[i] = y
       /\ \A y : y \in ToSet(s) <=> \E i \in 1..(n - 1) : s[i] = y
  BY <1>1, <1>6, MembersOf
<1>11. ToSet(s) \subseteq ToSet(q) \ {q[k]}
  <2>1. ASSUME NEW i \in 1..(n - 1)
        PROVE  s[i] \in ToSet(q) /\ s[i] # q[k]
    BY <1>1, <1>7, <1>8, <1>10 DEF Once
  <2> QED  BY <1>10, <2>1
<1>12. ToSet(q) \ {q[k]} \subseteq ToSet(s)
  <2>1. ASSUME NEW i \in 1..n, i # k
        PROVE  q[i] \in ToSet(s)
    <3>1. CASE i < k
      <4>1. i \in 1..(n - 1) /\ s[i] = q[i]
        BY <1>1, <1>7, <3>1
      <4> QED  BY <1>10, <4>1
    <3>2. CASE i > k
      <4>1. i - 1 \in 1..(n - 1) /\ s[i - 1] = q[i]
        BY <1>1, <1>7, <3>2
      <4> QED  BY <1>10, <4>1
    <3> QED  BY <1>1, <2>1, <3>1, <3>2
  <2> QED  BY <1>10, <2>1
<1> QED  BY <1>0, <1>1, <1>6, <1>7, <1>9, <1>11, <1>12 DEF IsRemoved

\* Detaching writes to the item before x, to the one behind it, to the list and to x.
Bypassed(h, p, x) == IF x # h[p].child THEN [h EXCEPT ![h[x].prev].next = h[x].next] ELSE h
Rejoined(h, g, x) == IF h[x].next # NULL THEN [g EXCEPT ![h[x].next].prev = h[x].prev] ELSE g
Listed(h, g, p, x) ==
    IF x = h[p].child THEN [g EXCEPT ![p].child = h[x].next]
    ELSE IF h[x].next = NULL THEN [g EXCEPT ![h[p].child].prev = h[x].prev] ELSE g
Cleared(g, x) == [g EXCEPT ![x].prev = NULL, ![x].next = NULL]

\* It does these writes one after the other.
LEMMA DetachingWrites ==
    ASSUME NEW h, NEW p, NEW x
    PROVE  DetachItemViaPointer(h, p, x) =
             Cleared(Listed(h, Rejoined(h, Bypassed(h, p, x), x), p, x), x)
  BY Zenon DEF DetachItemViaPointer, Cleared, Listed, Rejoined, Bypassed

\* Item k of the list of p is taken out.
LEMMA Detached ==
    ASSUME NEW h, NEW R, NEW K, TreeOf(h, R, K),
           NEW p \in Items, Owner(h, p), Alone(h, p), NEW k \in 1..Len(K[p])
    PROVE  TreeOf(DetachItemViaPointer(h, p, K[p][k]), R \cup {K[p][k]},
                  [K EXCEPT ![p] = RemoveAt(K[p], k)])
<1>0. PICK q, s, x, n, first :
        /\ q = K[p] /\ s = RemoveAt(q, k) /\ x = q[k] /\ n = Len(q) /\ first = q[1]
  OBVIOUS
<1>1. /\ h \in Heap /\ q \in Seq(Items) /\ Once(q) /\ NULL \notin Items
      /\ Forwards(h, p, q) /\ Backwards(h, q)
      /\ \A i \in 1..n : q[i] \in Items /\ q[i] \in ToSet(q)
  BY <1>0, ListOf
<1>2. /\ n \in Nat /\ k \in 1..n /\ 1 \in 1..n /\ n \in 1..n /\ q # <<>>
      /\ \A i, j \in 1..n : q[i] = q[j] => i = j
  BY <1>0, <1>1 DEF Once
<1>3. /\ s \in Seq(Items) /\ Once(s) /\ ToSet(s) = ToSet(q) \ {x} /\ Len(s) = n - 1
      /\ \A i \in 1..(n - 1) : s[i] = IF i < k THEN q[i] ELSE q[i + 1]
  <2>1. k \in 1..Len(q) /\ s = RemoveAt(q, k)
    BY <1>0
  <2>2. IsRemoved(q, k, s)
    BY <1>1, <2>1, RemoveShape, Zenon
  <2> QED  BY <1>0, <2>2 DEF IsRemoved
<1>4. /\ x \in Items /\ first \in Items /\ h[p].child = first
      /\ first = x <=> k = 1
  BY <1>0, <1>1, <1>2 DEF Forwards
<1>5. PICK nx, pv : nx = h[x].next /\ pv = h[x].prev
  OBVIOUS
<1>6. /\ nx = (IF k = n THEN NULL ELSE q[k + 1]) /\ nx \in Place
      /\ pv = (IF k = 1 THEN q[n] ELSE q[k - 1]) /\ pv \in Items /\ pv \in Place
      /\ NULL \in Place /\ (nx # NULL <=> k # n) /\ (nx # NULL => nx \in Items)
  <2>1. nx = IF k = n THEN NULL ELSE q[k + 1]
    BY <1>0, <1>1, <1>2, <1>5 DEF Forwards
  <2>2. pv = IF k = 1 THEN q[n] ELSE q[k - 1]
    BY <1>0, <1>1, <1>2, <1>5 DEF Backwards
  <2>3. (k # n => q[k + 1] \in Items) /\ (k # 1 => q[k - 1] \in Items) /\ q[n] \in Items
    BY <1>1, <1>2
  <2> QED  BY <1>1, <2>1, <2>2, <2>3 DEF Place
<1>7. PICK h1 : h1 = IF k # 1 THEN [h EXCEPT ![pv].next = nx] ELSE h
  OBVIOUS
<1>8. PICK h2 : h2 = IF nx # NULL THEN [h1 EXCEPT ![nx].prev = pv] ELSE h1
  OBVIOUS
<1>9. PICK h3 : h3 = IF k = 1 THEN [h2 EXCEPT ![p].child = nx]
                     ELSE IF nx = NULL THEN [h2 EXCEPT ![first].prev = pv] ELSE h2
  OBVIOUS
<1>10. PICK h4 : h4 = [h3 EXCEPT ![x].prev = NULL]
  BY ZenonT(60)
<1>11. PICK h5 : h5 = [h4 EXCEPT ![x].next = NULL]
  OBVIOUS
<1>12. h5 = DetachItemViaPointer(h, p, x)
  <2>1. x # h[p].child <=> k # 1
    BY <1>4
  <2>2. h1 = Bypassed(h, p, x)
    BY <1>5, <1>7, <2>1, Zenon DEF Bypassed
  <2>3. h2 = Rejoined(h, h1, x)
    BY <1>5, <1>8, Zenon DEF Rejoined
  <2>4. h3 = Listed(h, h2, p, x)
    <3>1. CASE k = 1
      BY <1>5, <1>9, <2>1, <3>1, Zenon DEF Listed
    <3>2. CASE k # 1
      BY <1>4, <1>5, <1>9, <2>1, <3>2, Zenon DEF Listed
    <3> QED  BY <3>1, <3>2
  <2>5. h5 = Cleared(h3, x)
    BY <1>10, <1>11, Zenon DEF Cleared
  <2> QED  BY <2>2, <2>3, <2>4, <2>5, DetachingWrites, Zenon
<1>13. h1 \in Heap /\ IF k # 1 THEN NextIs(h, h1, pv, nx) ELSE h1 = h
  BY <1>1, <1>6, <1>7, SetNext
<1>14. h2 \in Heap /\ IF nx # NULL THEN PrevIs(h1, h2, nx, pv) ELSE h2 = h1
  BY <1>6, <1>8, <1>13, SetPrev
<1>15. h3 \in Heap /\ IF k = 1 THEN ChildIs(h2, h3, p, nx)
                      ELSE IF nx = NULL THEN PrevIs(h2, h3, first, pv) ELSE h3 = h2
  BY <1>4, <1>6, <1>9, <1>14, SetPrev, SetChild
<1>16. h4 \in Heap /\ PrevIs(h3, h4, x, NULL)
  BY <1>4, <1>6, <1>10, <1>15, SetPrev
<1>17. h5 \in Heap /\ NextIs(h4, h5, x, NULL)
  BY <1>4, <1>6, <1>11, <1>16, SetNext
<1>18. \A y \in Items :
         /\ h5[y].next = IF y = x THEN NULL ELSE IF k # 1 /\ y = pv THEN nx ELSE h[y].next
         /\ h5[y].prev = IF y = x THEN NULL
                         ELSE IF k # 1 /\ nx = NULL /\ y = first THEN pv
                         ELSE IF nx # NULL /\ y = nx THEN pv ELSE h[y].prev
         /\ h5[y].child = IF k = 1 /\ y = p THEN nx ELSE h[y].child
         /\ h5[y].kind = h[y].kind /\ h5[y].ref = h[y].ref
  BY <1>13, <1>14, <1>15, <1>16, <1>17 DEF NextIs, PrevIs, ChildIs
<1>19. SameBut(h, h5, p, ToSet(q) \cup {})
  <2>1. x \in ToSet(q) /\ first \in ToSet(q) /\ pv \in ToSet(q) /\ (nx # NULL => nx \in ToSet(q))
    BY <1>0, <1>1, <1>2, <1>6
  <2> QED  BY <1>18, <2>1 DEF SameBut
<1>20. Forwards(h5, p, s)
  <2>1. h5[p].child = IF s = <<>> THEN NULL ELSE s[1]
    <3>1. CASE k # 1
      BY <1>0, <1>2, <1>3, <1>4, <1>18, <3>1
    <3>2. CASE k = 1
      <4>1. h5[p].child = nx
        BY <1>18, <3>2
      <4>2. s = <<>> <=> k = n
        BY <1>2, <1>3, <3>2
      <4>3. k # n => s[1] = q[k + 1]
        BY <1>2, <1>3, <3>2
      <4> QED  BY <1>6, <4>1, <4>2, <4>3
    <3> QED  BY <3>1, <3>2
  <2>2. ASSUME NEW j \in 1..(n - 1)
        PROVE  h5[s[j]].next = IF j = n - 1 THEN NULL ELSE s[j + 1]
    <3>1. CASE j < k - 1
      <4>1. /\ s[j] = q[j] /\ s[j + 1] = q[j + 1] /\ j \in 1..n /\ k - 1 \in 1..n
            /\ j # k /\ j # k - 1 /\ j # n - 1 /\ j # n /\ k # 1
        BY <1>2, <1>3, <3>1
      <4>2. q[j] # x /\ q[j] # pv /\ q[j] \in Items
        BY <1>0, <1>1, <1>2, <1>6, <4>1
      <4>3. h[q[j]].next = q[j + 1]
        BY <1>0, <1>1, <4>1 DEF Forwards
      <4> QED  BY <1>18, <4>1, <4>2, <4>3
    <3>2. CASE j = k - 1
      <4>1. /\ s[j] = q[k - 1] /\ k # 1 /\ k - 1 \in 1..n /\ q[k - 1] # x
            /\ j # n - 1 => s[j + 1] = q[k + 1]
            /\ j = n - 1 <=> k = n
        <5>1. k # 1 /\ k - 1 \in 1..n /\ k - 1 # k /\ k - 1 \in 1..(n - 1) /\ k - 1 < k
          BY <1>2, <3>2
        <5>2. j # n - 1 => k \in 1..(n - 1) /\ j + 1 = k
          BY <1>2, <3>2
        <5>3. j = n - 1 <=> k = n
          BY <1>2, <3>2
        <5>4. s[j] = q[k - 1] /\ j \in 1..(n - 1)
          BY <1>3, <3>2, <5>1
        <5>5. q[k - 1] # x
          BY <1>0, <1>2, <5>1
        <5>6. ASSUME j # n - 1  PROVE  s[j + 1] = q[k + 1]
          BY <1>3, <3>2, <5>2, <5>6
        <5> QED  BY <5>1, <5>3, <5>4, <5>5, <5>6
      <4> QED  BY <1>1, <1>6, <1>18, <4>1
    <3>3. CASE j >= k
      <4>1. /\ s[j] = q[j + 1] /\ j + 1 \in 1..n /\ j + 1 # k
            /\ j # n - 1 => s[j + 1] = q[j + 2]
            /\ j = n - 1 <=> j + 1 = n
            /\ (j + 1) + 1 = j + 2
        BY <1>2, <1>3, <3>3
      <4>2. q[j + 1] # x /\ q[j + 1] \in Items /\ (k # 1 => q[j + 1] # pv)
        BY <1>0, <1>1, <1>2, <1>6, <3>3, <4>1
      <4>3. h[q[j + 1]].next = IF j + 1 = n THEN NULL ELSE q[j + 2]
        BY <1>0, <1>1, <4>1 DEF Forwards
      <4> QED  BY <1>18, <4>1, <4>2, <4>3
    <3> QED  BY <1>2, <3>1, <3>2, <3>3
  <2> QED  BY <1>3, <2>1, <2>2 DEF Forwards
<1>21. Backwards(h5, s)
  <2> SUFFICES ASSUME NEW j \in 1..(n - 1)
               PROVE  h5[s[j]].prev = s[IF j = 1 THEN n - 1 ELSE j - 1]
    BY <1>3 DEF Backwards
  <2>1. CASE j < k /\ j = 1
    <3>1. s[j] = first /\ first # x /\ k # 1
      BY <1>0, <1>2, <1>3, <1>4, <2>1
    <3>2. CASE k = n
      <4>1. s[n - 1] = q[k - 1] /\ nx = NULL
        BY <1>2, <1>3, <1>6, <2>1, <3>2
      <4> QED  BY <1>4, <1>6, <1>18, <2>1, <3>1, <4>1
    <3>3. CASE k # n
      <4>1. s[n - 1] = q[n] /\ nx # NULL /\ nx # first
        <5>1. n - 1 \in 1..(n - 1) /\ ~(n - 1 < k) /\ (n - 1) + 1 = n /\ k + 1 \in 1..n /\ k + 1 # 1
          BY <1>2, <2>1, <3>3
        <5>2. s[n - 1] = q[n]
          BY <1>3, <5>1
        <5>3. q[k + 1] # q[1]
          BY <1>2, <5>1
        <5> QED  BY <1>0, <1>6, <3>3, <5>2, <5>3
      <4>2. h[first].prev = q[n]
        BY <1>0, <1>1, <1>2 DEF Backwards
      <4> QED  BY <1>4, <1>18, <2>1, <3>1, <4>1, <4>2
    <3> QED  BY <3>2, <3>3
  <2>2. CASE j < k /\ j # 1
    <3>1. /\ s[j] = q[j] /\ s[j - 1] = q[j - 1] /\ j \in 1..n /\ j # k /\ j # k + 1
      BY <1>2, <1>3, <2>2
    <3>2. q[j] # x /\ q[j] # first /\ q[j] \in Items /\ (nx # NULL => q[j] # nx)
      BY SMTT(60), <1>0, <1>1, <1>2, <1>6, <2>2, <3>1
    <3>3. h[q[j]].prev = q[j - 1]
      BY <1>0, <1>1, <2>2, <3>1 DEF Backwards
    <3> QED  BY <1>18, <2>2, <3>1, <3>2, <3>3
  <2>3. CASE j = k
    <3>1. s[j] = nx /\ nx # NULL /\ nx # x /\ nx \in Items
      BY <1>0, <1>2, <1>3, <1>6, <2>3
    <3>2. pv = s[IF j = 1 THEN n - 1 ELSE j - 1]
      BY <1>2, <1>3, <1>6, <2>3
    <3> QED  BY <1>18, <3>1, <3>2
  <2>4. CASE j > k
    <3>1. /\ s[j] = q[j + 1] /\ s[j - 1] = q[j] /\ j + 1 \in 1..n /\ j + 1 # k /\ j + 1 # k + 1
          /\ j # 1 /\ j + 1 # 1 /\ (j + 1) - 1 = j
      BY <1>2, <1>3, <2>4
    <3>2. q[j + 1] # x /\ q[j + 1] # first /\ q[j + 1] \in Items /\ (nx # NULL => q[j + 1] # nx)
      BY <1>0, <1>1, <1>2, <1>6, <2>4, <3>1
    <3>3. h[q[j + 1]].prev = q[j]
      BY <1>0, <1>1, <3>1 DEF Backwards
    <3> QED  BY <1>18, <3>1, <3>2, <3>3
  <2> QED  BY <1>2, <2>1, <2>2, <2>3, <2>4
<1>22. h5[x].next = NULL
  BY <1>4, <1>18
<1>23. TreeOf(h5, (R \ {}) \cup {x}, [K EXCEPT ![p] = s])
  <2>1. /\ {} \in SUBSET R /\ {x} \in SUBSET Items /\ {x} \subseteq ToSet(K[p])
        /\ ToSet(s) = (ToSet(K[p]) \ {x}) \cup {} /\ \A y \in {x} : h5[y].next = NULL
    BY <1>0, <1>1, <1>2, <1>3, <1>4, <1>22
  <2> QED  BY <1>0, <1>3, <1>17, <1>19, <1>20, <1>21, <2>1, Relisted
<1>24. (R \ {}) \cup {x} = R \cup {x}
  OBVIOUS
<1> QED  BY <1>0, <1>12, <1>23, <1>24

\* s is q with x before its item k.
IsInserted(q, k, x, s) ==
    /\ s \in Seq(Items) /\ Once(s) /\ ToSet(s) = ToSet(q) \cup {x}
    /\ Len(s) = Len(q) + 1
    /\ \A i \in 1..(Len(q) + 1) :
         s[i] = IF i < k THEN q[i] ELSE IF i = k THEN x ELSE q[i - 1]

\* Two sequences, one after the other.
LEMMA Joined ==
    ASSUME NEW a \in Seq(Items), NEW b \in Seq(Items)
    PROVE  (a \o b) \in Seq(Items) /\ Len(a \o b) = Len(a) + Len(b)
OBVIOUS

\* What InsertAt makes, index by index.
LEMMA InsertShape ==
    ASSUME NEW q \in Seq(Items), Once(q), NEW k \in 1..Len(q), NEW x \in Items, x \notin ToSet(q)
    PROVE  IsInserted(q, k, x, InsertAt(q, k, x))
<1>0. PICK s : s = InsertAt(q, k, x)
  OBVIOUS
<1>1. PICK n \in Nat : n = Len(q)
  OBVIOUS
<1>2. /\ SubSeq(q, 1, k - 1) \in Seq(Items) /\ Len(SubSeq(q, 1, k - 1)) = k - 1
      /\ \A i \in 1..(k - 1) : SubSeq(q, 1, k - 1)[i] = q[i]
  BY <1>1
<1>3. /\ SubSeq(q, k, n) \in Seq(Items) /\ Len(SubSeq(q, k, n)) = n - k + 1
      /\ \A i \in 1..(n - k + 1) : SubSeq(q, k, n)[i] = q[k + i - 1]
  BY <1>1
<1>4. PICK a, b, c : a = SubSeq(q, 1, k - 1) /\ b = SubSeq(q, k, n) /\ c = a \o <<x>>
  OBVIOUS
<1>5. s = c \o b
  BY <1>0, <1>1, <1>4 DEF InsertAt
<1>6. /\ a \in Seq(Items) /\ b \in Seq(Items) /\ Len(a) = k - 1 /\ Len(b) = n - k + 1
      /\ c \in Seq(Items) /\ Len(c) = k /\ c[k] = x /\ \A i \in 1..(k - 1) : c[i] = a[i]
  BY <1>1, <1>2, <1>3, <1>4
<1>7. /\ s \in Seq(Items) /\ Len(s) = n + 1
      /\ \A i \in 1..(n + 1) : s[i] = IF i <= k THEN c[i] ELSE b[i - k]
  <2>1. (c \o b) \in Seq(Items) /\ Len(c \o b) = n + 1
    <3>1. (c \o b) \in Seq(Items) /\ Len(c \o b) = Len(c) + Len(b)
      BY <1>6, Joined, Zenon
    <3>2. k + (n - k + 1) = n + 1
      BY <1>1
    <3> QED  BY <1>6, <3>1, <3>2
  <2>2. \A i \in 1..(n + 1) : (c \o b)[i] = IF i <= k THEN c[i] ELSE b[i - k]
    BY <1>1, <1>6
  <2> QED  BY <1>5, <2>1, <2>2
<1>8. \A i \in 1..(n + 1) : s[i] = IF i < k THEN q[i] ELSE IF i = k THEN x ELSE q[i - 1]
  <2> TAKE i \in 1..(n + 1)
  <2>1. CASE i < k
    <3>1. i \in 1..(k - 1) /\ i <= k
      BY <1>1, <2>1
    <3> QED  BY <1>2, <1>4, <1>6, <1>7, <2>1, <3>1
  <2>2. CASE i = k
    BY <1>1, <1>6, <1>7, <2>2
  <2>3. CASE i > k
    <3>1. i - k \in 1..(n - k + 1) /\ k + (i - k) - 1 = i - 1 /\ ~(i <= k) /\ ~(i < k) /\ i # k
      BY <1>1, <2>3
    <3> QED  BY <1>3, <1>4, <1>7, <3>1
  <2> QED  BY <2>1, <2>2, <2>3
<1>9. \A i \in 1..(n + 1) : /\ i < k => i \in 1..n
                            /\ i > k => i - 1 \in 1..n
                            /\ i < k \/ i = k \/ i > k
  BY <1>1
<1>10. /\ \A y : y \in ToSet(q) <=> \E i \in 1..n : q[i] = y
       /\ \A y : y \in ToSet(s) <=> \E i \in 1..(n + 1) : s[i] = y
       /\ \A i \in 1..n : q[i] # x
  BY <1>1, <1>7, MembersOf
<1>11. Once(s)
  <2> SUFFICES ASSUME NEW i \in 1..(n + 1), NEW j \in 1..(n + 1), s[i] = s[j]
               PROVE  i = j
    BY <1>7 DEF Once
  <2>1. \A a1, b1 \in 1..n : q[a1] = q[b1] => a1 = b1
    BY <1>1 DEF Once
  <2>2. CASE i = k \/ j = k
    BY <1>8, <1>9, <1>10, <2>2
  <2>3. CASE i # k /\ j # k
    BY <1>1, <1>8, <1>9, <2>1, <2>3
  <2> QED  BY <2>2, <2>3
<1>12. ToSet(s) \subseteq ToSet(q) \cup {x}
  <2>1. ASSUME NEW i \in 1..(n + 1)
        PROVE  s[i] \in ToSet(q) \cup {x}
    BY <1>1, <1>8, <1>9, <1>10
  <2> QED  BY <1>10, <2>1
<1>13. ToSet(q) \cup {x} \subseteq ToSet(s)
  <2>1. ASSUME NEW i \in 1..n
        PROVE  q[i] \in ToSet(s)
    <3>1. CASE i < k
      <4>1. i \in 1..(n + 1) /\ s[i] = q[i]
        BY <1>1, <1>8, <3>1
      <4> QED  BY <1>10, <4>1
    <3>2. CASE i >= k
      <4>1. i + 1 \in 1..(n + 1) /\ ~(i + 1 < k) /\ i + 1 # k /\ (i + 1) - 1 = i
        BY <1>1, <3>2
      <4>2. s[i + 1] = q[i]
        BY <1>8, <4>1
      <4> QED  BY <1>10, <4>1, <4>2
    <3> QED  BY <1>1, <3>1, <3>2
  <2>2. k \in 1..(n + 1) /\ s[k] = x
    BY <1>1, <1>8
  <2> QED  BY <1>10, <2>1, <2>2
<1> QED  BY <1>0, <1>1, <1>7, <1>8, <1>11, <1>12, <1>13 DEF IsInserted

\* x is put before item k of the list of p.
LEMMA Inserted ==
    ASSUME NEW h, NEW R, NEW K, TreeOf(h, R, K), NEW p \in Items, Owner(h, p), Alone(h, p),
           NEW k \in 1..Len(K[p]), NEW x \in R
    PROVE  TreeOf(InsertItem(h, p, K[p][k], x), R \ {x}, [K EXCEPT ![p] = InsertAt(K[p], k, x)])
<1>0. PICK q, s, at, n :
        q = K[p] /\ s = InsertAt(q, k, x) /\ at = q[k] /\ n = Len(q)
  OBVIOUS
<1>1. /\ h \in Heap /\ q \in Seq(Items) /\ Once(q) /\ NULL \notin Items
      /\ Forwards(h, p, q) /\ Backwards(h, q)
      /\ \A i \in 1..n : q[i] \in Items /\ q[i] \in ToSet(q)
      /\ x \in Items /\ x \notin ToSet(q)
  BY <1>0, ListOf
<1>2. /\ n \in Nat /\ k \in 1..n /\ 1 \in 1..n /\ n \in 1..n /\ q # <<>>
      /\ \A i, j \in 1..n : q[i] = q[j] => i = j
      /\ \A i \in 1..n : q[i] # x
  BY <1>0, <1>1 DEF Once
<1>3. /\ s \in Seq(Items) /\ Once(s) /\ ToSet(s) = ToSet(q) \cup {x} /\ Len(s) = n + 1
      /\ \A i \in 1..(n + 1) : s[i] = IF i < k THEN q[i] ELSE IF i = k THEN x ELSE q[i - 1]
  <2>1. k \in 1..Len(q) /\ s = InsertAt(q, k, x)
    BY <1>0
  <2>2. IsInserted(q, k, x, s)
    BY <1>1, <2>1, InsertShape, Zenon
  <2> QED  BY <1>0, <2>2 DEF IsInserted
<1>4. /\ at \in Items /\ at # x /\ h[p].child = q[1] /\ (at = q[1] <=> k = 1)
  BY <1>0, <1>1, <1>2 DEF Forwards
<1>5. PICK pv : pv = h[at].prev
  OBVIOUS
<1>6. /\ pv = (IF k = 1 THEN q[n] ELSE q[k - 1]) /\ pv \in Items
      /\ pv \in Place /\ x \in Place /\ at \in Place /\ pv \in ToSet(q)
  <2>1. pv = IF k = 1 THEN q[n] ELSE q[k - 1]
    BY <1>0, <1>1, <1>2, <1>5 DEF Backwards
  <2>2. k # 1 => k - 1 \in 1..n
    BY <1>2
  <2> QED  BY <1>1, <1>2, <1>4, <2>1, <2>2 DEF Place
<1>7. PICK h1 : h1 = [h EXCEPT ![x].next = at]
  OBVIOUS
<1>8. PICK h2 : h2 = [h1 EXCEPT ![x].prev = pv]
  OBVIOUS
<1>9. PICK h3 : h3 = [h2 EXCEPT ![at].prev = x]
  OBVIOUS
<1>10. PICK h4 : h4 = IF k = 1 THEN [h3 EXCEPT ![p].child = x] ELSE [h3 EXCEPT ![pv].next = x]
  OBVIOUS
<1>11. h1 \in Heap /\ NextIs(h, h1, x, at)
  BY <1>1, <1>6, <1>7, SetNext
<1>12. h2 \in Heap /\ PrevIs(h1, h2, x, pv)
  BY <1>1, <1>6, <1>8, <1>11, SetPrev
<1>13. h3 \in Heap /\ PrevIs(h2, h3, at, x)
  BY <1>4, <1>6, <1>9, <1>12, SetPrev
<1>14. h4 \in Heap /\ IF k = 1 THEN ChildIs(h3, h4, p, x) ELSE NextIs(h3, h4, pv, x)
  BY <1>6, <1>10, <1>13, SetChild, SetNext
<1>15. h4 = InsertItem(h, p, at, x)
  <2>1. at = h[p].child <=> k = 1
    BY <1>4
  <2>2. h3 = [h EXCEPT ![x].next = at, ![x].prev = h[at].prev, ![at].prev = x]
    BY <1>5, <1>7, <1>8, <1>9
  <2>3. CASE k = 1
    <3>1. InsertItem(h, p, at, x) = [[h EXCEPT ![x].next = at, ![x].prev = h[at].prev,
                                               ![at].prev = x] EXCEPT ![p].child = x]
      BY <2>1, <2>3 DEF InsertItem
    <3> QED  BY <1>10, <2>2, <2>3, <3>1
  <2>4. CASE k # 1
    <3>1. InsertItem(h, p, at, x) = [[h EXCEPT ![x].next = at, ![x].prev = h[at].prev,
                                               ![at].prev = x] EXCEPT ![h[at].prev].next = x]
      BY <2>1, <2>4 DEF InsertItem
    <3> QED  BY <1>5, <1>10, <2>2, <2>4, <3>1
  <2> QED  BY <2>3, <2>4
<1>16. \A y \in Items :
         /\ h4[y].next = IF k # 1 /\ y = pv THEN x ELSE IF y = x THEN at ELSE h[y].next
         /\ h4[y].prev = IF y = at THEN x ELSE IF y = x THEN pv ELSE h[y].prev
         /\ h4[y].child = IF k = 1 /\ y = p THEN x ELSE h[y].child
         /\ h4[y].kind = h[y].kind /\ h4[y].ref = h[y].ref
  BY <1>11, <1>12, <1>13, <1>14 DEF NextIs, PrevIs, ChildIs
<1>17. SameBut(h, h4, p, ToSet(q) \cup {x})
  <2>1. at \in ToSet(q)
    BY <1>0, <1>1, <1>2
  <2> QED  BY <1>6, <1>16, <2>1 DEF SameBut
<1>18. Forwards(h4, p, s)
  <2>1. s # <<>> /\ h4[p].child = s[1]
    <3>1. s # <<>> /\ s[1] = IF k = 1 THEN x ELSE q[1]
      BY <1>2, <1>3
    <3> QED  BY <1>4, <1>16, <3>1
  <2>2. ASSUME NEW j \in 1..(n + 1)
        PROVE  h4[s[j]].next = IF j = n + 1 THEN NULL ELSE s[j + 1]
    <3>1. CASE j < k - 1
      <4>1. /\ j \in 1..n /\ k - 1 \in 1..n /\ j + 1 \in 1..(n + 1) /\ k # 1 /\ j # n /\ j # n + 1
            /\ j < k /\ j + 1 < k /\ j # k - 1
        BY <1>2, <3>1
      <4>2. s[j] = q[j] /\ s[j + 1] = q[j + 1] /\ q[j] # pv /\ q[j] # x /\ q[j] \in Items
        BY <1>1, <1>2, <1>3, <1>6, <4>1
      <4>3. h[q[j]].next = q[j + 1]
        BY <1>0, <1>1, <4>1 DEF Forwards
      <4> QED  BY <1>16, <4>1, <4>2, <4>3
    <3>2. CASE j = k - 1
      <4>1. k # 1 /\ j < k /\ j + 1 = k /\ j # n + 1 /\ k \in 1..(n + 1)
        BY <1>2, <3>2
      <4>2. s[j] = pv /\ s[j + 1] = x
        BY <1>3, <1>6, <3>2, <4>1
      <4> QED  BY <1>6, <1>16, <4>1, <4>2
    <3>3. CASE j = k
      <4>1. j # n + 1 /\ j + 1 \in 1..(n + 1) /\ ~(j + 1 < k) /\ j + 1 # k /\ (j + 1) - 1 = k
        BY <1>2, <3>3
      <4>2. s[j] = x /\ s[j + 1] = at
        BY <1>0, <1>3, <3>3, <4>1
      <4>3. pv # x
        BY <1>1, <1>6
      <4> QED  BY <1>1, <1>16, <4>1, <4>2, <4>3
    <3>4. CASE j > k
      <4>1. /\ j - 1 \in 1..n /\ ~(j < k) /\ j # k /\ (j - 1) + 1 = j /\ j - 1 # k - 1
            /\ (j = n + 1 <=> j - 1 = n) /\ k - 1 < n
            /\ j # n + 1 => /\ j + 1 \in 1..(n + 1) /\ ~(j + 1 < k) /\ j + 1 # k
                            /\ (j + 1) - 1 = j
        BY <1>2, <3>4
      <4>2. s[j] = q[j - 1] /\ (j # n + 1 => s[j + 1] = q[j])
        BY <1>3, <4>1
      <4>3. q[j - 1] # x /\ q[j - 1] \in Items /\ (k # 1 => q[j - 1] # pv)
        <5>1. k # 1 => k - 1 \in 1..n
          BY <1>2
        <5> QED  BY <1>1, <1>2, <1>6, <4>1, <5>1
      <4>4. h[q[j - 1]].next = IF j - 1 = n THEN NULL ELSE q[j]
        BY <1>0, <1>1, <4>1 DEF Forwards
      <4> QED  BY <1>16, <4>1, <4>2, <4>3, <4>4
    <3> QED  BY <1>2, <3>1, <3>2, <3>3, <3>4
  <2> QED  BY <1>3, <2>1, <2>2 DEF Forwards
<1>19. Backwards(h4, s)
  <2> SUFFICES ASSUME NEW j \in 1..(n + 1)
               PROVE  h4[s[j]].prev = s[IF j = 1 THEN n + 1 ELSE j - 1]
    BY <1>3 DEF Backwards
  <2>0. s[n + 1] = q[n]
    <3>1. n + 1 \in 1..(n + 1) /\ ~(n + 1 < k) /\ n + 1 # k /\ (n + 1) - 1 = n
      BY <1>2
    <3> QED  BY <1>3, <3>1
  <2>1. CASE j = k
    <3>1. s[j] = x /\ (j # 1 => j - 1 \in 1..(n + 1) /\ j - 1 < k /\ s[j - 1] = q[k - 1])
      BY <1>2, <1>3, <2>1
    <3> QED  BY <1>1, <1>4, <1>6, <1>16, <2>0, <2>1, <3>1
  <2>2. CASE j < k
    <3>1. j \in 1..n /\ s[j] = q[j] /\ j # k
      BY <1>2, <1>3, <2>2
    <3>2. q[j] # at /\ q[j] # x /\ q[j] \in Items
      BY <1>0, <1>1, <1>2, <3>1
    <3>3. h[q[j]].prev = IF j = 1 THEN q[n] ELSE q[j - 1]
      BY <1>0, <1>1, <3>1 DEF Backwards
    <3>4. j # 1 => s[j - 1] = q[j - 1]
      BY <1>2, <1>3, <2>2
    <3> QED  BY <1>16, <2>0, <3>1, <3>2, <3>3, <3>4
  <2>3. CASE j = k + 1
    <3>1. j # 1 /\ ~(j < k) /\ j # k /\ j - 1 = k /\ k \in 1..(n + 1)
      BY <1>2, <2>3
    <3>2. s[j] = at /\ s[j - 1] = x
      BY <1>0, <1>3, <3>1
    <3> QED  BY <1>4, <1>16, <3>1, <3>2
  <2>4. CASE j > k + 1
    <3>1. /\ j # 1 /\ ~(j < k) /\ j # k /\ j - 1 \in 1..n /\ ~(j - 1 < k) /\ j - 1 # k
          /\ j - 1 \in 1..(n + 1) /\ j - 1 # 1 /\ (j - 1) - 1 = j - 2
      BY <1>2, <2>4
    <3>2. s[j] = q[j - 1] /\ s[j - 1] = q[j - 2]
      BY <1>3, <3>1
    <3>3. q[j - 1] # x /\ q[j - 1] # at /\ q[j - 1] \in Items
      BY <1>0, <1>1, <1>2, <3>1
    <3>4. h[q[j - 1]].prev = q[j - 2]
      BY <1>0, <1>1, <3>1 DEF Backwards
    <3> QED  BY <1>16, <3>1, <3>2, <3>3, <3>4
  <2> QED  BY <1>2, <2>1, <2>2, <2>3, <2>4
<1>20. TreeOf(h4, (R \ {x}) \cup {}, [K EXCEPT ![p] = s])
  <2>1. /\ {x} \in SUBSET R /\ {} \in SUBSET Items /\ {} \subseteq ToSet(K[p])
        /\ ToSet(s) = (ToSet(K[p]) \ {}) \cup {x} /\ \A y \in {} : h4[y].next = NULL
    BY <1>0, <1>3
  <2> QED  BY <1>0, <1>3, <1>14, <1>17, <1>18, <1>19, <2>1, Relisted
<1>21. (R \ {x}) \cup {} = R \ {x}
  OBVIOUS
<1> QED  BY <1>0, <1>15, <1>20, <1>21

\* s is q with r in the place of its item k.
IsReplaced(q, k, r, s) ==
    /\ s \in Seq(Items) /\ Once(s) /\ ToSet(s) = (ToSet(q) \ {q[k]}) \cup {r}
    /\ Len(s) = Len(q) /\ \A i \in 1..Len(q) : s[i] = IF i = k THEN r ELSE q[i]

\* What ReplaceAt makes, index by index.
LEMMA ReplaceShape ==
    ASSUME NEW q \in Seq(Items), Once(q), NEW k \in 1..Len(q), NEW r \in Items, r \notin ToSet(q)
    PROVE  IsReplaced(q, k, r, ReplaceAt(q, k, r))
<1>0. PICK s : s = ReplaceAt(q, k, r)
  OBVIOUS
<1>1. /\ s \in Seq(Items) /\ Len(s) = Len(q)
      /\ \A i \in 1..Len(q) : s[i] = IF i = k THEN r ELSE q[i]
  BY <1>0 DEF ReplaceAt
<1>2. /\ \A y : y \in ToSet(q) <=> \E i \in 1..Len(q) : q[i] = y
      /\ \A y : y \in ToSet(s) <=> \E i \in 1..Len(q) : s[i] = y
  BY <1>1, MembersOf
<1>3. ToSet(s) = (ToSet(q) \ {q[k]}) \cup {r}
  BY <1>1, <1>2 DEF Once
<1>4. Once(s)
  BY <1>1, <1>2 DEF Once
<1> QED  BY <1>0, <1>1, <1>3, <1>4 DEF IsReplaced

\* r takes the place of item k of the list of p.
LEMMA Replaced ==
    ASSUME NEW h, NEW R, NEW K, TreeOf(h, R, K), NEW p \in Items, Owner(h, p), Alone(h, p),
           NEW k \in 1..Len(K[p]), NEW r \in R
    PROVE  TreeOf(TakePlace(h, p, K[p][k], r), (R \ {r}) \cup {K[p][k]},
                  [K EXCEPT ![p] = ReplaceAt(K[p], k, r)])
<1>0. PICK q, s, x, n, first :
        /\ q = K[p] /\ s = ReplaceAt(q, k, r) /\ x = q[k] /\ n = Len(q) /\ first = q[1]
  OBVIOUS
<1>1. /\ h \in Heap /\ q \in Seq(Items) /\ Once(q) /\ NULL \notin Items
      /\ Forwards(h, p, q) /\ Backwards(h, q)
      /\ \A i \in 1..n : q[i] \in Items /\ q[i] \in ToSet(q)
      /\ r \in Items /\ r \notin ToSet(q)
  BY <1>0, ListOf
<1>2. /\ n \in Nat /\ k \in 1..n /\ 1 \in 1..n /\ n \in 1..n /\ q # <<>>
      /\ \A i, j \in 1..n : q[i] = q[j] => i = j
      /\ \A i \in 1..n : q[i] # r
  BY <1>0, <1>1 DEF Once
<1>3. /\ s \in Seq(Items) /\ Once(s) /\ ToSet(s) = (ToSet(q) \ {x}) \cup {r} /\ Len(s) = n
      /\ \A i \in 1..n : s[i] = IF i = k THEN r ELSE q[i]
  <2>1. k \in 1..Len(q) /\ s = ReplaceAt(q, k, r)
    BY <1>0
  <2>2. IsReplaced(q, k, r, s)
    BY <1>1, <2>1, ReplaceShape, Zenon
  <2> QED  BY <1>0, <2>2 DEF IsReplaced
<1>4. /\ x \in Items /\ first \in Items /\ h[p].child = first /\ x # r /\ first # r
      /\ first = x <=> k = 1
  BY <1>0, <1>1, <1>2 DEF Forwards
<1>5. PICK nx, pv : nx = h[x].next /\ pv = h[x].prev
  OBVIOUS
<1>6. /\ nx = (IF k = n THEN NULL ELSE q[k + 1]) /\ nx \in Place /\ nx # r /\ nx # x
      /\ pv = (IF k = 1 THEN q[n] ELSE q[k - 1]) /\ pv \in Items /\ pv \in Place /\ pv # r
      /\ (k # 1 => pv # x) /\ (nx # NULL => nx # first)
      /\ NULL \in Place /\ (nx # NULL <=> k # n) /\ (nx # NULL => nx \in Items) /\ r \in Place
  <2>1. nx = IF k = n THEN NULL ELSE q[k + 1]
    BY <1>0, <1>1, <1>2, <1>5 DEF Forwards
  <2>2. pv = IF k = 1 THEN q[n] ELSE q[k - 1]
    BY <1>0, <1>1, <1>2, <1>5 DEF Backwards
  <2>3. /\ k # n => k + 1 \in 1..n /\ k + 1 # k /\ k + 1 # 1
        /\ k # 1 => k - 1 \in 1..n /\ k - 1 # k
    BY <1>2
  <2>4. /\ k # n => q[k + 1] \in Items /\ q[k + 1] # x /\ q[k + 1] # r /\ q[k + 1] # first
        /\ k # 1 => q[k - 1] \in Items /\ q[k - 1] # x /\ q[k - 1] # r
        /\ q[n] \in Items /\ q[n] # r
    BY <1>0, <1>1, <1>2, <2>3
  <2> QED  BY <1>1, <1>4, <2>1, <2>2, <2>4 DEF Place
<1>7. PICK h1 : h1 = [h EXCEPT ![r].next = nx]
  OBVIOUS
<1>8. PICK h2 : h2 = [h1 EXCEPT ![r].prev = pv]
  OBVIOUS
<1>9. PICK h3 : h3 = IF nx # NULL THEN [h2 EXCEPT ![nx].prev = r] ELSE h2
  OBVIOUS
<1>10. PICK back : back = IF n = 1 THEN r ELSE pv
  OBVIOUS
<1>11. PICK h4 : h4 = IF k = 1 THEN [h3 EXCEPT ![r].prev = back] ELSE [h3 EXCEPT ![pv].next = r]
  OBVIOUS
<1>12. PICK h5 : h5 = IF k = 1 THEN [h4 EXCEPT ![p].child = r]
                      ELSE IF nx = NULL THEN [h4 EXCEPT ![first].prev = r] ELSE h4
  OBVIOUS
<1>13. PICK h6 : h6 = [h5 EXCEPT ![x].next = NULL]
  OBVIOUS
<1>14. PICK h7 : h7 = [h6 EXCEPT ![x].prev = NULL]
  OBVIOUS
<1>15. h1 \in Heap /\ NextIs(h, h1, r, nx)
  BY <1>1, <1>6, <1>7, SetNext
<1>16. h2 \in Heap /\ PrevIs(h1, h2, r, pv)
  BY <1>1, <1>6, <1>8, <1>15, SetPrev
<1>17. h3 \in Heap /\ IF nx # NULL THEN PrevIs(h2, h3, nx, r) ELSE h3 = h2
  BY <1>6, <1>9, <1>16, SetPrev
<1>18. back \in Place
  BY <1>6, <1>10
<1>19. h4 \in Heap /\ IF k = 1 THEN PrevIs(h3, h4, r, back) ELSE NextIs(h3, h4, pv, r)
  BY <1>1, <1>6, <1>11, <1>17, <1>18, SetNext, SetPrev
<1>20. h5 \in Heap /\ IF k = 1 THEN ChildIs(h4, h5, p, r)
                      ELSE IF nx = NULL THEN PrevIs(h4, h5, first, r) ELSE h5 = h4
  BY <1>4, <1>6, <1>12, <1>19, SetPrev, SetChild
<1>21. h6 \in Heap /\ NextIs(h5, h6, x, NULL)
  BY <1>4, <1>6, <1>13, <1>20, SetNext
<1>22. h7 \in Heap /\ PrevIs(h6, h7, x, NULL)
  BY <1>4, <1>6, <1>14, <1>21, SetPrev
<1>23. /\ h3[r].prev = pv /\ h3[p].child = first
       /\ (k = 1 => (h3[first].prev = first <=> n = 1))
       /\ (k # 1 => h4[r].next = nx)
  <2>1. h3[r].prev = pv /\ h3[r].next = nx /\ h3[p].child = first
    BY <1>1, <1>4, <1>6, <1>15, <1>16, <1>17 DEF NextIs, PrevIs
  <2>2. k = 1 => h3[first].prev = q[n]
    <3>1. h2[first].prev = h[first].prev
      BY <1>4, <1>15, <1>16 DEF NextIs, PrevIs
    <3>2. h3[first].prev = h2[first].prev
      BY <1>4, <1>6, <1>17 DEF PrevIs
    <3> QED  BY <1>4, <1>5, <1>6, <3>1, <3>2
  <2>3. q[n] = first <=> n = 1
    BY <1>0, <1>2
  <2>4. k # 1 => h4[r].next = nx
    BY <1>1, <1>6, <1>19, <2>1 DEF NextIs
  <2> QED  BY <2>1, <2>2, <2>3, <2>4
<1>24. h7 = TakePlace(h, p, x, r)
  <2>1. h3 = Between(h, x, r)
    <3>1. h2 = [h EXCEPT ![r].next = h[x].next, ![r].prev = h[x].prev]
      BY <1>5, <1>7, <1>8
    <3>2. CASE nx = NULL
      BY <1>5, <1>9, <3>1, <3>2 DEF Between
    <3>3. CASE nx # NULL
      BY <1>5, <1>9, <3>1, <3>3 DEF Between
    <3> QED  BY <3>2, <3>3
  <2>2. h5 = IF h[p].child = x THEN AsFirst(h3, p, r) ELSE AsLater(h3, p, r)
    <3>1. CASE k = 1
      <4>1. h5 = [h3 EXCEPT ![r].prev = IF h3[first].prev = first THEN r ELSE @, ![p].child = r]
        BY <1>10, <1>11, <1>12, <1>23, <3>1
      <4> QED  BY <1>4, <1>23, <3>1, <4>1 DEF AsFirst
    <3>2. CASE k # 1
      <4>1. pv # NULL
        BY <1>1, <1>6
      <4> QED  BY <1>4, <1>11, <1>12, <1>23, <3>2, <4>1 DEF AsLater
    <3> QED  BY <3>1, <3>2
  <2>3. h7 = [h5 EXCEPT ![x].next = NULL, ![x].prev = NULL]
    BY <1>13, <1>14
  <2> QED  BY <2>1, <2>2, <2>3 DEF TakePlace
<1>25. \A y \in Items :
         /\ h7[y].next = IF y = x THEN NULL ELSE IF k # 1 /\ y = pv THEN r
                         ELSE IF y = r THEN nx ELSE h[y].next
         /\ h7[y].prev = IF y = x THEN NULL
                         ELSE IF y = r THEN (IF k = 1 THEN back ELSE pv)
                         ELSE IF nx # NULL /\ y = nx THEN r
                         ELSE IF k # 1 /\ nx = NULL /\ y = first THEN r ELSE h[y].prev
         /\ h7[y].child = IF k = 1 /\ y = p THEN r ELSE h[y].child
         /\ h7[y].kind = h[y].kind /\ h7[y].ref = h[y].ref
  <2> TAKE y \in Items
  <2>1. h3[y].prev = IF nx # NULL /\ y = nx THEN r ELSE IF y = r THEN pv ELSE h[y].prev
    BY <1>15, <1>16, <1>17 DEF NextIs, PrevIs
  <2>2. h3[y].next = IF y = r THEN nx ELSE h[y].next
    BY <1>15, <1>16, <1>17 DEF NextIs, PrevIs
  <2>3. h3[y].child = h[y].child /\ h3[y].kind = h[y].kind /\ h3[y].ref = h[y].ref
    BY <1>15, <1>16, <1>17 DEF NextIs, PrevIs
  <2>4. CASE k = 1
    BY <1>4, <1>6, <1>19, <1>20, <1>21, <1>22, <2>1, <2>2, <2>3, <2>4 DEF NextIs, PrevIs, ChildIs
  <2>5. CASE k # 1
    BY <1>4, <1>6, <1>19, <1>20, <1>21, <1>22, <2>1, <2>2, <2>3, <2>5 DEF NextIs, PrevIs, ChildIs
  <2> QED  BY <2>4, <2>5
<1>26. SameBut(h, h7, p, ToSet(q) \cup {r})
  <2>1. /\ x \in ToSet(q) /\ first \in ToSet(q) /\ (k # 1 => pv \in ToSet(q))
        /\ (nx # NULL => nx \in ToSet(q))
    BY <1>0, <1>1, <1>2, <1>6
  <2> QED  BY <1>25, <2>1 DEF SameBut
<1>27. Forwards(h7, p, s)
  <2>1. s # <<>> /\ h7[p].child = s[1]
    BY <1>0, <1>2, <1>3, <1>4, <1>25
  <2>2. ASSUME NEW j \in 1..n
        PROVE  h7[s[j]].next = IF j = n THEN NULL ELSE s[j + 1]
    <3>0. j # n => j + 1 \in 1..n
      BY <1>2
    <3>1. CASE j = k
      <4>1. s[j] = r /\ (j # n => s[j + 1] = q[k + 1])
        BY <1>2, <1>3, <3>0, <3>1
      <4> QED  BY <1>1, <1>4, <1>6, <1>25, <3>1, <4>1
    <3>2. CASE j = k - 1
      <4>1. k # 1 /\ j # n /\ j + 1 = k /\ j # k
        BY <1>2, <3>2
      <4>2. s[j] = pv /\ s[j + 1] = r
        BY <1>3, <1>6, <3>2, <4>1
      <4> QED  BY <1>6, <1>25, <4>1, <4>2
    <3>3. CASE j # k /\ j # k - 1
      <4>1. s[j] = q[j] /\ (j # n => j + 1 # k /\ s[j + 1] = q[j + 1])
        BY <1>2, <1>3, <3>0, <3>3
      <4>2. q[j] # x /\ q[j] # r /\ q[j] \in Items /\ (k # 1 => q[j] # pv)
        <5>1. k # 1 => k - 1 \in 1..n
          BY <1>2
        <5> QED  BY <1>0, <1>1, <1>2, <1>6, <3>3, <5>1
      <4>3. h[q[j]].next = IF j = n THEN NULL ELSE q[j + 1]
        BY <1>0, <1>1 DEF Forwards
      <4> QED  BY <1>25, <4>1, <4>2, <4>3
    <3> QED  BY <3>1, <3>2, <3>3
  <2> QED  BY <1>3, <2>1, <2>2 DEF Forwards
<1>28. Backwards(h7, s)
  <2> SUFFICES ASSUME NEW j \in 1..n
               PROVE  h7[s[j]].prev = s[IF j = 1 THEN n ELSE j - 1]
    BY <1>3 DEF Backwards
  <2>0. j # 1 => j - 1 \in 1..n
    BY <1>2
  <2>1. CASE j = k
    <3>1. s[j] = r /\ (j # 1 => j - 1 # k /\ s[j - 1] = q[k - 1])
      BY <1>2, <1>3, <2>0, <2>1
    <3>2. j = 1 => back = s[n]
      BY <1>2, <1>3, <1>6, <1>10, <2>1
    <3> QED  BY <1>1, <1>4, <1>6, <1>25, <2>1, <3>1, <3>2
  <2>2. CASE j = k + 1
    <3>1. s[j] = q[j] /\ j # 1 /\ j - 1 = k /\ s[k] = r /\ k # n
      BY <1>2, <1>3, <2>2
    <3>2. s[j] = nx /\ nx # NULL /\ nx \in Items
      BY <1>6, <2>2, <3>1
    <3> QED  BY <1>6, <1>25, <3>1, <3>2
  <2>3. CASE j # k /\ j # k + 1
    <3>1. /\ s[j] = q[j] /\ (j # 1 => s[j - 1] = q[j - 1])
          /\ s[n] = (IF k = n THEN r ELSE q[n])
      BY <1>2, <1>3, <2>0, <2>3
    <3>2. q[j] # x /\ q[j] # r /\ q[j] \in Items /\ (nx # NULL => q[j] # nx)
      <4>1. k # n => k + 1 \in 1..n
        BY <1>2
      <4> QED  BY <1>0, <1>1, <1>2, <1>6, <2>3, <4>1
    <3>3. h[q[j]].prev = IF j = 1 THEN q[n] ELSE q[j - 1]
      BY <1>0, <1>1 DEF Backwards
    <3>4. q[j] = first <=> j = 1
      BY <1>0, <1>2
    <3>5. j = 1 => k # 1
      BY <2>3
    <3> QED  BY <1>6, <1>25, <3>1, <3>2, <3>3, <3>4, <3>5
  <2> QED  BY <2>1, <2>2, <2>3
<1>29. h7[x].next = NULL
  BY <1>4, <1>25
<1>30. TreeOf(h7, (R \ {r}) \cup {x}, [K EXCEPT ![p] = s])
  <2>1. /\ {r} \in SUBSET R /\ {x} \in SUBSET Items /\ {x} \subseteq ToSet(K[p])
        /\ ToSet(s) = (ToSet(K[p]) \ {x}) \cup {r} /\ \A y \in {x} : h7[y].next = NULL
    BY <1>0, <1>1, <1>2, <1>3, <1>4, <1>29
  <2> QED  BY <1>0, <1>3, <1>22, <1>26, <1>27, <1>28, <2>1, Relisted
<1> QED  BY <1>0, <1>24, <1>30

-------------------------------------------------------------------------------
(* Deleting. *)

\* What is reached from x is the least set with x that is closed.
LEMMA Reaching ==
    ASSUME NEW h \in Heap, NEW x \in Items
    PROVE  /\ x \in Reach(h, x) /\ Reach(h, x) \subseteq Items /\ Closed(h, Reach(h, x))
           /\ \A S \in SUBSET Items : x \in S /\ Closed(h, S) => Reach(h, x) \subseteq S
<1>1. Reach(h, x) = {y \in Items : \A S \in SUBSET Items : x \in S /\ Closed(h, S) => y \in S}
  BY Zenon DEF Reach
<1>2. ASSUME NEW y \in Reach(h, x)
      PROVE  {h[y].next, IF h[y].ref THEN NULL ELSE h[y].child} \ {NULL} \subseteq Reach(h, x)
  <2>1. y \in Items
    BY <1>1
  <2>2. h[y].next \in Place /\ h[y].child \in Place
    BY <2>1 DEF Heap, Record
  <2>3. SUFFICES ASSUME NEW z \in {h[y].next, IF h[y].ref THEN NULL ELSE h[y].child} \ {NULL}
                 PROVE  z \in Reach(h, x)
    OBVIOUS
  <2>4. z \in Items
    BY <2>2 DEF Place
  <2>5. ASSUME NEW S \in SUBSET Items, x \in S, Closed(h, S)
        PROVE  z \in S
    <3>1. y \in S
      BY <1>1, <2>5
    <3> QED  BY <2>5, <3>1 DEF Closed
  <2> QED  BY <1>1, <2>4, <2>5
<1>3. Closed(h, Reach(h, x))
  BY <1>2, Zenon DEF Closed
<1> QED  BY <1>1, <1>3

\* The list of an owner that is reached, is reached.
LEMMA ListReached ==
    ASSUME NEW h \in Heap, NEW F \in SUBSET Items, Closed(h, F), NEW p \in F, ~h[p].ref,
           NEW s \in Seq(Items), Forwards(h, p, s)
    PROVE  \A i \in 1..Len(s) : s[i] \in F
<1> DEFINE wrong == {i \in 1..Len(s) : s[i] \notin F}
<1>1. SUFFICES ASSUME wrong # {}  PROVE FALSE
  OBVIOUS
<1>2. wrong \in SUBSET Nat
  OBVIOUS
<1>3. PICK k \in wrong : \A m \in wrong : k <= m
  BY <1>1, <1>2, MinOfNaturals
<1>4. k \in 1..Len(s) /\ s[k] \in Items /\ s[k] # NULL /\ s[k] \notin F /\ s # <<>>
  BY <1>3, JsonTreeAssumption
<1>5. CASE k = 1
  <2>1. h[p].child = s[1]
    BY <1>4 DEF Forwards
  <2> QED  BY <1>4, <1>5, <2>1 DEF Closed
<1>6. CASE k # 1
  <2>1. k - 1 \in 1..Len(s) /\ k - 1 # Len(s) /\ (k - 1) + 1 = k /\ ~(k <= k - 1)
    BY <1>4, <1>6
  <2>2. s[k - 1] \in F
    BY <1>3, <2>1
  <2>3. h[s[k - 1]].next = s[k]
    BY <2>1 DEF Forwards
  <2> QED  BY <1>4, <2>2, <2>3 DEF Closed
<1> QED  BY <1>5, <1>6

\* The lists without those of F.
Without(K, F) == [p \in Items |-> IF p \in F THEN <<>> ELSE K[p]]

\* An item of the caller is freed, with all that is reached from it.
LEMMA Freed ==
    ASSUME NEW h, NEW R, NEW K, TreeOf(h, R, K), NEW x \in R, Deletable(h, x)
    PROVE  TreeOf(Free(h, x), R \ {x}, Without(K, Reach(h, x)))
<1> DEFINE F == Reach(h, x)
           h2 == Free(h, x)
           K2 == Without(K, F)
<1>1. /\ h \in Heap /\ R \subseteq Items /\ K \in [Items -> Seq(Items)] /\ x \in Items
      /\ Linked(h, K) /\ Disjoint(K) /\ Placed(h, R, K) /\ Referring(h, K)
  BY DEF TreeOf
<1>2. /\ x \in F /\ F \subseteq Items /\ Closed(h, F)
      /\ \A S \in SUBSET Items : x \in S /\ Closed(h, S) => F \subseteq S
  BY <1>1, Reaching
<1>3. \A y \in Items : h2[y] = IF y \in F THEN Unused ELSE h[y]
  BY DEF Free
<1>4. h2 \in Heap
  <2>1. Unused \in Record
    BY DEF Unused, Record, Place
  <2> QED  BY <1>1, <2>1 DEF Free, Heap
<1>5. \A q \in Items : K2[q] = IF q \in F THEN <<>> ELSE K[q]
  BY DEF Without
<1>6. K2 \in [Items -> Seq(Items)]
  BY <1>1 DEF Without
<1> HIDE DEF F, h2, K2
<1>7. /\ \A q \in Items : \A i \in 1..Len(K[q]) : Within(K, K[q][i]) /\ K[q][i] \in Items
      /\ \A q \in Items : K[q] # <<>> => Owner(h, q)
      /\ \A q \in Items : Owner(h, q) => Forwards(h, q, K[q]) /\ Backwards(h, K[q])
      /\ \A q \in Items : K[q] \in Seq(Items)
      /\ \A y \in Items : y \in R \/ Within(K, y) => y \in LiveIn(h)
  BY <1>1 DEF Linked, Placed, Within
<1>8. \A q \in F : \A i \in 1..Len(K[q]) : K[q][i] \in F
  <2> SUFFICES ASSUME NEW q \in F, NEW i \in 1..Len(K[q])
               PROVE  K[q][i] \in F
    OBVIOUS
  <2>1. q \in Items /\ K[q] \in Seq(Items) /\ K[q] # <<>>
    BY <1>2, <1>7
  <2>2. Owner(h, q) /\ Forwards(h, q, K[q])
    BY <1>7, <2>1
  <2>3. ~h[q].ref
    BY <2>2 DEF Owner
  <2> QED  BY <1>1, <1>2, <2>1, <2>2, <2>3, ListReached
<1>9. ASSUME NEW y \in F
      PROVE  y = x \/ \E q \in F : \E i \in 1..Len(K[q]) : K[q][i] = y
  <2> DEFINE T == {z \in F : z = x \/ \E q \in F : \E i \in 1..Len(K[q]) : K[q][i] = z}
  <2>1. ASSUME NEW z \in T
        PROVE  {h[z].next, IF h[z].ref THEN NULL ELSE h[z].child} \ {NULL} \subseteq T
    <3>1. /\ z \in F /\ z \in Items /\ (h[z].next # NULL => h[z].next \in F)
          /\ (~h[z].ref /\ h[z].child # NULL => h[z].child \in F)
      BY <1>2 DEF Closed
    <3>2. h[z].next # NULL => h[z].next \in T
      <4>1. CASE z = x
        BY <1>1, <4>1 DEF Placed
      <4>2. ASSUME NEW q \in F, NEW i \in 1..Len(K[q]), K[q][i] = z, h[z].next # NULL
            PROVE  h[z].next \in T
        <5>1. Forwards(h, q, K[q]) /\ K[q] \in Seq(Items)
          <6>1. q \in Items /\ K[q] \in Seq(Items) /\ K[q] # <<>>
            BY <1>2, <1>7
          <6> QED  BY <1>7, <6>1
        <5>2. i # Len(K[q]) /\ h[z].next = K[q][i + 1]
          BY <4>2, <5>1 DEF Forwards
        <5>3. i + 1 \in 1..Len(K[q])
          BY <5>1, <5>2
        <5> QED  BY <3>1, <4>2, <5>2, <5>3
      <4> QED  BY <4>1, <4>2
    <3>3. ~h[z].ref /\ h[z].child # NULL => h[z].child \in T
      <4>1. SUFFICES ASSUME ~h[z].ref, h[z].child # NULL  PROVE h[z].child \in T
        OBVIOUS
      <4>2. z \in LiveIn(h)
        <5>1. z \in R \/ Within(K, z)
          <6>1. CASE z = x
            BY <6>1
          <6>2. ASSUME NEW q \in F, NEW i \in 1..Len(K[q]), K[q][i] = z
                PROVE  Within(K, z)
            BY <1>2, <1>7, <6>2
          <6> QED  BY <6>1, <6>2
        <5> QED  BY <1>7, <3>1, <5>1
      <4>3. Owner(h, z) /\ Forwards(h, z, K[z]) /\ K[z] \in Seq(Items)
        BY <1>7, <3>1, <4>1, <4>2 DEF Owner
      <4>4. K[z] # <<>> /\ h[z].child = K[z][1]
        BY <4>1, <4>3 DEF Forwards
      <4>5. 1 \in 1..Len(K[z])
        BY <4>3, <4>4
      <4> QED  BY <3>1, <4>1, <4>4, <4>5
    <3> QED  BY <3>2, <3>3
  <2>2. Closed(h, T)
    <3> HIDE DEF T
    <3> QED  BY <2>1, Zenon DEF Closed
  <2>3. T \in SUBSET Items /\ x \in T
    BY <1>2
  <2> QED  BY <1>2, <2>2, <2>3
<1>10. ASSUME NEW q \in Items \ F, NEW i \in 1..Len(K[q])
       PROVE  K[q][i] \in Items \ F
  <2>1. K[q][i] # x
    BY <1>1, <1>7 DEF Placed
  <2>2. ASSUME NEW r \in F, NEW j \in 1..Len(K[r]), K[r][j] = K[q][i]
        PROVE  FALSE
    BY <1>1, <1>2, <2>2 DEF Disjoint
  <2> QED  BY <1>7, <1>9, <2>1, <2>2
<1>11. \A q \in Items : Owner(h2, q) <=> q \notin F /\ Owner(h, q)
  BY <1>3 DEF Owner, LiveIn, Unused
<1>12. Linked(h2, K2)
  <2> SUFFICES ASSUME NEW q \in Items
               PROVE  IF Owner(h2, q) THEN Forwards(h2, q, K2[q]) /\ Backwards(h2, K2[q])
                      ELSE K2[q] = <<>>
    BY DEF Linked
  <2>1. CASE q \in F
    BY <1>5, <1>11, <2>1
  <2>2. CASE q \notin F
    <3>1. K2[q] = K[q] /\ h2[q] = h[q] /\ (Owner(h2, q) <=> Owner(h, q))
      BY <1>3, <1>5, <1>11, <2>2
    <3>2. \A i \in 1..Len(K[q]) : h2[K[q][i]] = h[K[q][i]]
      BY <1>3, <1>10, <2>2
    <3>3. CASE Owner(h, q)
      <4>0. Forwards(h, q, K[q]) /\ Backwards(h, K[q])
        BY <1>7, <3>3
      <4>1. Forwards(h2, q, K[q]) /\ Backwards(h2, K[q])
        BY <3>1, <3>2, <4>0 DEF Forwards, Backwards
      <4> QED  BY <3>1, <3>3, <4>1
    <3>4. CASE ~Owner(h, q)
      BY <1>7, <3>1, <3>4
    <3> QED  BY <3>3, <3>4
  <2> QED  BY <2>1, <2>2
<1>13. Disjoint(K2)
  <2> SUFFICES ASSUME NEW q \in Items, NEW r \in Items,
                      NEW i \in 1..Len(K2[q]), NEW j \in 1..Len(K2[r]), K2[q][i] = K2[r][j]
               PROVE  q = r /\ i = j
    BY DEF Disjoint
  <2>1. K2[q] = K[q] /\ K2[r] = K[r]
    BY <1>5
  <2> QED  BY <1>1, <2>1 DEF Disjoint
<1>14. ASSUME NEW y \in Items
       PROVE  Within(K2, y) <=> y \notin F /\ Within(K, y)
  <2>1. ASSUME NEW q \in Items, NEW i \in 1..Len(K2[q]), K2[q][i] = y
        PROVE  y \notin F /\ Within(K, y)
    <3>1. q \notin F /\ K2[q] = K[q]
      BY <1>5, <2>1
    <3> QED  BY <1>7, <1>10, <2>1, <3>1
  <2>2. ASSUME NEW q \in Items, NEW i \in 1..Len(K[q]), K[q][i] = y, y \notin F
        PROVE  Within(K2, y)
    <3>1. q \notin F
      BY <1>8, <2>2
    <3>2. K2[q] = K[q]
      BY <1>5, <3>1
    <3> QED  BY <2>2, <3>2 DEF Within
  <2> QED  BY <2>1, <2>2 DEF Within
<1>15. \A y \in R \ {x} : y \in Items /\ ~Within(K, y) /\ y \notin F
  <2> SUFFICES ASSUME NEW y \in R \ {x}  PROVE y \in Items /\ ~Within(K, y) /\ y \notin F
    OBVIOUS
  <2>1. y \in Items /\ ~Within(K, y)
    BY <1>1 DEF Placed
  <2>2. \A q \in F : \A i \in 1..Len(K[q]) : K[q][i] # y
    BY <1>2, <1>7, <2>1
  <2> QED  BY <1>9, <2>1, <2>2
<1>16. Placed(h2, R \ {x}, K2)
  <2>1. ASSUME NEW y \in Items
        PROVE  y \in LiveIn(h2) <=> y \in R \ {x} \/ Within(K2, y)
    <3>1. y \in LiveIn(h2) <=> y \notin F /\ y \in LiveIn(h)
      BY <1>3 DEF LiveIn, Unused
    <3>2. y \in LiveIn(h) <=> y \in R \/ Within(K, y)
      BY <1>1 DEF Placed
    <3> QED  BY <1>2, <1>14, <1>15, <3>1, <3>2
  <2>2. ASSUME NEW y \in R \ {x}
        PROVE  ~Within(K2, y) /\ h2[y].next = NULL
    BY <1>1, <1>3, <1>14, <1>15 DEF Placed
  <2> QED  BY <2>1, <2>2 DEF Placed
<1>17. Referring(h2, K2)
  <2> SUFFICES ASSUME NEW r \in LiveIn(h2), h2[r].ref, h2[r].child # NULL
               PROVE  \E q \in Items : K2[q] # <<>> /\ h2[r].child = K2[q][1]
    BY DEF Referring, RefersTo
  <2>1. r \in Items /\ r \notin F /\ h2[r] = h[r] /\ r \in LiveIn(h)
    BY <1>3 DEF LiveIn, Unused
  <2>2. PICK q \in Items : K[q] # <<>> /\ h[r].child = K[q][1]
    BY <1>1, <2>1 DEF Referring, RefersTo
  <2>3. q \notin F
    <3>1. ~h[q].ref /\ h[q].child = K[q][1]
      BY <1>7, <2>2 DEF Owner, Forwards
    <3>2. h[q].child \in Shared(h)
      BY <2>1, <2>2, <3>1 DEF Shared
    <3> QED  BY <3>1, <3>2 DEF Deletable, Untouched, F
  <2>4. K2[q] = K[q]
    BY <1>5, <2>3
  <2> QED  BY <2>1, <2>2, <2>4
<1> QED  BY <1>1, <1>4, <1>6, <1>12, <1>13, <1>16, <1>17 DEF TreeOf, F, h2, K2

-------------------------------------------------------------------------------
(* Names and new items. *)

\* Names mean nothing to the lists.
LEMMA Renamed ==
    ASSUME NEW h, NEW R, NEW K, TreeOf(h, R, K), NEW x \in Items, NEW n \in Names
    PROVE  LET h2 == [h EXCEPT ![x].name = n]
           IN /\ TreeOf(h2, R, K)
              /\ \A p \in Items : Owner(h, p) => Owner(h2, p)
              /\ \A p \in Items : Alone(h, p) => Alone(h2, p)
<1> DEFINE h2 == [h EXCEPT ![x].name = n]
<1>1. /\ h \in Heap /\ R \subseteq Items /\ K \in [Items -> Seq(Items)]
      /\ Linked(h, K) /\ Disjoint(K) /\ Placed(h, R, K) /\ Referring(h, K)
  BY DEF TreeOf
<1>2. h2 \in Heap
  BY <1>1 DEF Heap, Record
<1>3. \A y \in Items : /\ h2[y].kind = h[y].kind /\ h2[y].ref = h[y].ref
                       /\ h2[y].child = h[y].child /\ h2[y].next = h[y].next
                       /\ h2[y].prev = h[y].prev
  BY <1>1 DEF Heap, Record
<1> HIDE DEF h2
<1>4. LiveIn(h2) = LiveIn(h) /\ LiveIn(h) \subseteq Items
  BY <1>3 DEF LiveIn
<1>5. \A p \in Items : Owner(h2, p) <=> Owner(h, p)
  BY <1>3, <1>4 DEF Owner
<1>6. \A p \in Items : Alone(h, p) => Alone(h2, p)
  BY <1>3, <1>4 DEF Alone
<1>7. Linked(h2, K)
  <2> SUFFICES ASSUME NEW q \in Items
               PROVE  IF Owner(h2, q) THEN Forwards(h2, q, K[q]) /\ Backwards(h2, K[q])
                      ELSE K[q] = <<>>
    BY DEF Linked
  <2>1. CASE Owner(h, q)
    <3>1. Forwards(h, q, K[q]) /\ Backwards(h, K[q])
      BY <1>1, <2>1 DEF Linked
    <3>2. \A i \in 1..Len(K[q]) : K[q][i] \in Items
      BY <1>1
    <3>3. Forwards(h2, q, K[q]) /\ Backwards(h2, K[q])
      BY <1>3, <3>1, <3>2 DEF Forwards, Backwards
    <3> QED  BY <1>5, <2>1, <3>3
  <2>2. CASE ~Owner(h, q)
    BY <1>1, <1>5, <2>2 DEF Linked
  <2> QED  BY <2>1, <2>2
<1>8. Placed(h2, R, K) /\ Referring(h2, K)
  BY ZenonT(60), <1>1, <1>3, <1>4 DEF Placed, Referring, RefersTo
<1>9. TreeOf(h2, R, K)
  BY <1>1, <1>2, <1>7, <1>8 DEF TreeOf
<1> QED  BY <1>5, <1>6, <1>9 DEF h2

\* The lists K, and those of the new items D.
With(K, D, L) == [p \in Items |-> IF p \in D THEN L[p] ELSE K[p]]

\* S is all that is in the lists of S.
ListsWithin(K, S) == \A y \in S : \A i \in 1..Len(K[y]) : K[y][i] \in S
AllUnder(D, L, x) == \A T \in SUBSET D : x \in T /\ ListsWithin(L, T) => D \subseteq T

\* New items D, one of them for the caller and the others below it, in the lists L of D.
IsGraft(h, h2, K, D, L, x) ==
    /\ D \subseteq Items \ LiveIn(h) /\ h2 \in Heap /\ \A y \in Items \ D : h2[y] = h[y]
    /\ x \in D /\ h2[x].next = NULL
    /\ \A d \in D : /\ h2[d].kind # "free" /\ L[d] \in Seq(D)
                    /\ IF h2[d].ref THEN L[d] = <<>> /\ RefersTo(h2, K, d)
                       ELSE Forwards(h2, d, L[d]) /\ Backwards(h2, L[d])
    /\ \A d, e \in D : \A i \in 1..Len(L[d]), j \in 1..Len(L[e]) :
         L[d][i] = L[e][j] => d = e /\ i = j
    /\ \A d \in D : d = x <=> ~\E e \in D : \E i \in 1..Len(L[e]) : L[e][i] = d
    /\ AllUnder(D, L, x)

\* Items that were made with lists of their own extend the tree by one root.
LEMMA Grafted ==
    ASSUME NEW h, NEW R, NEW K, TreeOf(h, R, K), NEW h2, NEW D, NEW L, NEW x,
           IsGraft(h, h2, K, D, L, x)
    PROVE  TreeOf(h2, R \cup {x}, With(K, D, L))
<1>0. /\ D \in SUBSET (Items \ LiveIn(h)) /\ h2 \in Heap /\ \A y \in Items \ D : h2[y] = h[y]
      /\ x \in D /\ h2[x].next = NULL
      /\ \A d \in D : /\ h2[d].kind # "free" /\ L[d] \in Seq(D)
                      /\ IF h2[d].ref THEN L[d] = <<>> /\ RefersTo(h2, K, d)
                         ELSE Forwards(h2, d, L[d]) /\ Backwards(h2, L[d])
      /\ \A d, e \in D : \A i \in 1..Len(L[d]), j \in 1..Len(L[e]) :
           L[d][i] = L[e][j] => d = e /\ i = j
      /\ \A d \in D : d = x <=> ~\E e \in D : \E i \in 1..Len(L[e]) : L[e][i] = d
  BY Zenon DEF IsGraft
<1> USE <1>0
<1> DEFINE K2 == With(K, D, L)
<1>1. /\ h \in Heap /\ R \subseteq Items /\ K \in [Items -> Seq(Items)]
      /\ Linked(h, K) /\ Disjoint(K) /\ Placed(h, R, K) /\ Referring(h, K)
  BY DEF TreeOf
<1>2. \A q \in Items : K2[q] = IF q \in D THEN L[q] ELSE K[q]
  BY DEF With
<1>3. K2 \in [Items -> Seq(Items)]
  <2>1. \A q \in D : L[q] \in Seq(Items)
    OBVIOUS
  <2> QED  BY <1>1, <2>1 DEF With
<1> HIDE DEF K2
<1>4. LiveIn(h2) = LiveIn(h) \cup D
  BY DEF LiveIn
<1>5. \A q \in D : K[q] = <<>>
  BY <1>1 DEF Linked, Owner
<1>6. /\ \A q \in Items : \A i \in 1..Len(K[q]) : K[q][i] \in Items \ D
      /\ \A q \in Items : \A i \in 1..Len(K[q]) : Within(K, K[q][i])
      /\ \A y \in R : y \in Items \ D
      /\ \A q \in D : \A i \in 1..Len(L[q]) : L[q][i] \in D
  <2>1. \A q \in Items : \A i \in 1..Len(K[q]) : Within(K, K[q][i]) /\ K[q][i] \in Items
    BY <1>1 DEF Within
  <2>2. \A y \in Items : y \in R \/ Within(K, y) => y \in LiveIn(h)
    BY <1>1 DEF Placed
  <2> QED  BY <1>1, <2>1, <2>2
<1>7. Linked(h2, K2)
  <2> SUFFICES ASSUME NEW q \in Items
               PROVE  IF Owner(h2, q) THEN Forwards(h2, q, K2[q]) /\ Backwards(h2, K2[q])
                      ELSE K2[q] = <<>>
    BY DEF Linked
  <2>1. CASE q \in D
    <3>1. K2[q] = L[q] /\ (Owner(h2, q) <=> ~h2[q].ref)
      BY <1>2, <1>4, <2>1 DEF Owner
    <3> QED  BY <2>1, <3>1
  <2>2. CASE q \notin D
    <3>1. K2[q] = K[q] /\ h2[q] = h[q] /\ (Owner(h2, q) <=> Owner(h, q))
      BY <1>2, <1>4, <2>2 DEF Owner
    <3>2. \A i \in 1..Len(K[q]) : h2[K[q][i]] = h[K[q][i]]
      BY <1>6
    <3>3. CASE Owner(h, q)
      <4>1. Forwards(h, q, K[q]) /\ Backwards(h, K[q])
        BY <1>1, <3>3 DEF Linked
      <4>2. Forwards(h2, q, K[q])
        BY ZenonT(60), <3>1, <3>2, <4>1 DEF Forwards
      <4>3. Backwards(h2, K[q])
        BY <3>2, <4>1, ZenonT(60) DEF Backwards
      <4> QED  BY <3>1, <3>3, <4>2, <4>3
    <3>4. CASE ~Owner(h, q)
      BY <1>1, <3>1, <3>4 DEF Linked
    <3> QED  BY <3>3, <3>4
  <2> QED  BY <2>1, <2>2
<1>8. Disjoint(K2)
  <2> SUFFICES ASSUME NEW q \in Items, NEW r \in Items,
                      NEW i \in 1..Len(K2[q]), NEW j \in 1..Len(K2[r]), K2[q][i] = K2[r][j]
               PROVE  q = r /\ i = j
    BY DEF Disjoint
  <2>1. CASE q \in D /\ r \in D
    BY <1>2, <2>1
  <2>2. CASE q \notin D /\ r \notin D
    BY SMTT(60), <1>1, <1>2, <2>2 DEF Disjoint
  <2>3. CASE q \in D /\ r \notin D
    <3>1. K2[q] = L[q] /\ K2[r] = K[r]
      BY <1>2, <2>3
    <3> QED  BY <1>6, <2>3, <3>1
  <2>4. CASE q \notin D /\ r \in D
    <3>1. K2[q] = K[q] /\ K2[r] = L[r]
      BY <1>2, <2>4
    <3> QED  BY <1>6, <2>4, <3>1
  <2> QED  BY <2>1, <2>2, <2>3, <2>4
<1>9. \A y \in Items : Within(K2, y) <=> \/ y \in D /\ y # x
                                         \/ y \notin D /\ Within(K, y)
  <2> TAKE y \in Items
  <2>1. Within(K2, y) <=> \/ \E q \in D : \E i \in 1..Len(L[q]) : L[q][i] = y
                          \/ \E q \in Items \ D : \E i \in 1..Len(K[q]) : K[q][i] = y
    <3>1. ASSUME NEW q \in Items, NEW i \in 1..Len(K2[q]), K2[q][i] = y
          PROVE  \/ \E e \in D : \E j \in 1..Len(L[e]) : L[e][j] = y
                 \/ \E e \in Items \ D : \E j \in 1..Len(K[e]) : K[e][j] = y
      <4>1. CASE q \in D
        BY <1>2, <3>1, <4>1
      <4>2. CASE q \notin D
        BY <1>2, <3>1, <4>2
      <4> QED  BY <4>1, <4>2
    <3>2. \A q \in D : K2[q] = L[q] /\ q \in Items
      BY <1>2
    <3>3. \A q \in Items \ D : K2[q] = K[q]
      BY <1>2
    <3>4. ASSUME NEW q \in D, NEW i \in 1..Len(L[q]), L[q][i] = y
          PROVE  Within(K2, y)
      BY <3>2, <3>4, Zenon DEF Within
    <3>5. ASSUME NEW q \in Items \ D, NEW i \in 1..Len(K[q]), K[q][i] = y
          PROVE  Within(K2, y)
      <4>1. q \in Items /\ K2[q] = K[q]
        BY <3>3
      <4> QED  BY <3>5, <4>1, Zenon DEF Within
    <3>6. Within(K2, y) => \/ \E e \in D : \E j \in 1..Len(L[e]) : L[e][j] = y
                           \/ \E e \in Items \ D : \E j \in 1..Len(K[e]) : K[e][j] = y
      BY <3>1, Zenon DEF Within
    <3> QED  BY <3>4, <3>5, <3>6
  <2>2. Within(K, y) <=> \E q \in Items \ D : \E i \in 1..Len(K[q]) : K[q][i] = y
    BY <1>5 DEF Within
  <2>3. CASE y \in D
    BY <1>6, <2>1, <2>3
  <2>4. CASE y \notin D
    BY <1>6, <2>1, <2>2, <2>4
  <2> QED  BY <2>3, <2>4
<1>10. Placed(h2, R \cup {x}, K2)
  <2>1. ASSUME NEW y \in Items
        PROVE  y \in LiveIn(h2) <=> y \in R \cup {x} \/ Within(K2, y)
    BY <1>1, <1>4, <1>6, <1>9 DEF Placed
  <2>2. ASSUME NEW y \in R \cup {x}
        PROVE  ~Within(K2, y) /\ h2[y].next = NULL
    <3>1. CASE y = x
      BY <1>9, <3>1
    <3>2. CASE y # x
      <4>1. y \in R /\ y \in Items \ D /\ h2[y] = h[y]
        BY <1>6, <3>2
      <4> QED  BY <1>1, <1>9, <4>1 DEF Placed
    <3> QED  BY <3>1, <3>2
  <2> QED  BY <2>1, <2>2 DEF Placed
<1>11. Referring(h2, K2)
  <2> SUFFICES ASSUME NEW r \in LiveIn(h2), h2[r].ref, h2[r].child # NULL
               PROVE  \E q \in Items : K2[q] # <<>> /\ h2[r].child = K2[q][1]
    BY DEF Referring, RefersTo
  <2>1. \E q \in Items : K[q] # <<>> /\ h2[r].child = K[q][1]
    <3>1. CASE r \in D
      BY <3>1 DEF RefersTo
    <3>2. CASE r \notin D
      <4>1. r \in LiveIn(h) /\ h2[r] = h[r]
        BY <1>4, <3>2 DEF LiveIn
      <4> QED  BY <1>1, <4>1 DEF Referring, RefersTo
    <3> QED  BY <3>1, <3>2
  <2>2. PICK q \in Items : K[q] # <<>> /\ h2[r].child = K[q][1]
    BY <2>1
  <2>3. K2[q] = K[q]
    BY <1>2, <1>5, <2>2
  <2> QED  BY <2>2, <2>3
<1>12. R \cup {x} \subseteq Items
  BY <1>1
<1> QED  BY <1>3, <1>7, <1>8, <1>10, <1>11, <1>12 DEF TreeOf, K2

-------------------------------------------------------------------------------
(* Copies. *)

\* What an item leads to, a reference too, is a list of items in use.
LEMMA ListAt ==
    ASSUME NEW h, NEW R, NEW K, TreeOf(h, R, K), NEW y \in LiveIn(h)
    PROVE  /\ Chain(h, y) \in Seq(Items) /\ Once(Chain(h, y))
           /\ Forwards(h, y, Chain(h, y)) /\ Backwards(h, Chain(h, y))
           /\ \A i \in 1..Len(Chain(h, y)) : Chain(h, y)[i] \in LiveIn(h)
           /\ ~h[y].ref => Chain(h, y) = K[y]
<1>1. /\ h \in Heap /\ R \subseteq Items /\ K \in [Items -> Seq(Items)] /\ y \in Items
      /\ Linked(h, K) /\ Disjoint(K) /\ Placed(h, R, K) /\ Referring(h, K)
  BY DEF TreeOf, LiveIn
<1>2. ASSUME NEW q \in Items, Owner(h, q), h[q].child = h[y].child
      PROVE  /\ K[q] = Chain(h, y) /\ K[q] \in Seq(Items) /\ Once(K[q])
             /\ Forwards(h, y, K[q]) /\ Backwards(h, K[q])
             /\ \A i \in 1..Len(K[q]) : K[q][i] \in LiveIn(h)
  <2>1. K[q] \in Seq(Items) /\ Once(K[q]) /\ Forwards(h, q, K[q]) /\ Backwards(h, K[q])
    BY <1>2, ListOf
  <2>2. Forwards(h, y, K[q])
    BY <1>2, <2>1 DEF Forwards
  <2>3. \A i \in 1..Len(K[q]) : K[q][i] \in LiveIn(h)
    BY <1>1 DEF Placed, Within
  <2> QED  BY <2>1, <2>2, <2>3, LinkedIsChain
<1>3. CASE ~h[y].ref
  BY <1>1, <1>2, <1>3 DEF Owner
<1>4. CASE h[y].ref
  <2>1. CASE h[y].child = NULL
    <3>1. <<>> \in Seq(Items) /\ Once(<<>>) /\ Forwards(h, y, <<>>) /\ Backwards(h, <<>>)
      BY <2>1 DEF Once, Forwards, Backwards
    <3>2. Chain(h, y) = <<>>
      BY <3>1, LinkedIsChain
    <3> QED  BY <1>4, <3>1, <3>2
  <2>2. CASE h[y].child # NULL
    <3>1. PICK q \in Items : K[q] # <<>> /\ h[y].child = K[q][1]
      BY <1>1, <1>4, <2>2 DEF Referring, RefersTo
    <3>2. Owner(h, q)
      BY <1>1, <3>1 DEF Linked
    <3>3. h[q].child = K[q][1]
      BY <1>1, <3>1, <3>2 DEF Linked, Forwards
    <3> QED  BY <1>2, <1>4, <3>1, <3>2, <3>3
  <2> QED  BY <2>1, <2>2
<1> QED  BY <1>3, <1>4

\* The calls from one for x down to one for the last item of c.
CallPath(x, c) ==
    /\ c \in Seq(Live) /\ Len(c) > 0 /\ c[1] = x
    /\ \A i \in 1..(Len(c) - 1) : c[i + 1] \in ToSet(Chain(heap, c[i]))

\* The child of an item that is copied is copied by a call one deeper.
LEMMA LongerPath ==
    ASSUME NEW x, NEW c, CallPath(x, c), NEW y \in Live, y \in ToSet(Chain(heap, Last(c)))
    PROVE  CallPath(x, Append(c, y))
<1>1. c \in Seq(Live) /\ Len(c) > 0 /\ c[1] = x /\ Last(c) = c[Len(c)]
  BY DEF CallPath, Last
<1>2. PICK d : d = Append(c, y)
  OBVIOUS
<1>3. /\ d \in Seq(Live) /\ Len(d) > 0 /\ d[1] = x /\ Len(d) = Len(c) + 1
      /\ d[Len(c) + 1] = y /\ \A i \in 1..Len(c) : d[i] = c[i]
  BY <1>1, <1>2
<1>4. \A i \in 1..(Len(d) - 1) : d[i + 1] \in ToSet(Chain(heap, d[i]))
  <2> TAKE i \in 1..(Len(d) - 1)
  <2>1. CASE i = Len(c)
    BY <1>1, <1>3, <2>1
  <2>2. CASE i # Len(c)
    <3>1. i \in 1..(Len(c) - 1) /\ i \in 1..Len(c) /\ i + 1 \in 1..Len(c)
      BY <1>1, <1>3, <2>2
    <3>2. c[i + 1] \in ToSet(Chain(heap, c[i]))
      BY <3>1 DEF CallPath
    <3> QED  BY <1>3, <3>1, <3>2
  <2> QED  BY <2>1, <2>2
<1> QED  BY <1>2, <1>3, <1>4 DEF CallPath

\* Every call but the first is made by the call for the owner.
LEMMA ShorterPath ==
    ASSUME NEW x, NEW c, CallPath(x, c), Len(c) # 1
    PROVE  /\ CallPath(x, Front(c)) /\ Last(c) \in ToSet(Chain(heap, Last(Front(c))))
           /\ c = Append(Front(c), Last(c)) /\ Len(Front(c)) = Len(c) - 1 /\ Last(c) \in Live
<1>1. c \in Seq(Live) /\ c[1] = x /\ Len(c) \in Nat /\ Len(c) >= 2
  <2>1. c \in Seq(Live) /\ Len(c) > 0 /\ c[1] = x
    BY DEF CallPath
  <2>2. PICK m \in Nat : m = Len(c)
    BY <2>1
  <2>3. m >= 2
    BY <2>1, <2>2
  <2> QED  BY <2>1, <2>2, <2>3
<1>2. PICK b : b = SubSeq(c, 1, Len(c) - 1)
  OBVIOUS
<1>3. /\ b \in Seq(Live) /\ Len(b) = Len(c) - 1 /\ Len(b) > 0 /\ b[1] = x
      /\ \A i \in 1..(Len(c) - 1) : b[i] = c[i]
  <2>1. b \in Seq(Live) /\ Len(b) = Len(c) - 1
    BY <1>1, <1>2
  <2>2. \A i \in 1..(Len(c) - 1) : b[i] = c[i]
    BY <1>1, <1>2
  <2> QED  BY <1>1, <2>1, <2>2
<1>4. b = Front(c) /\ Last(c) = c[Len(c)] /\ Last(b) = c[Len(c) - 1] /\ c = Append(b, c[Len(c)])
      /\ c[Len(c)] \in Live
  BY <1>1, <1>2, <1>3 DEF Front, Last
<1>5. CallPath(x, b)
  <2>1. \A i \in 1..(Len(b) - 1) : b[i + 1] \in ToSet(Chain(heap, b[i]))
    <3> TAKE i \in 1..(Len(b) - 1)
    <3>1. i \in 1..(Len(c) - 1) /\ i + 1 \in 1..(Len(c) - 1)
      BY <1>1, <1>3
    <3>2. c[i + 1] \in ToSet(Chain(heap, c[i]))
      BY <3>1 DEF CallPath
    <3> QED  BY <1>3, <3>1, <3>2
  <2> QED  BY <1>3, <2>1 DEF CallPath
<1>6. c[Len(c)] \in ToSet(Chain(heap, c[Len(c) - 1]))
  <2>1. Len(c) - 1 \in 1..(Len(c) - 1) /\ (Len(c) - 1) + 1 = Len(c)
    BY <1>1
  <2>2. c[(Len(c) - 1) + 1] \in ToSet(Chain(heap, c[Len(c) - 1]))
    BY <2>1 DEF CallPath
  <2> QED  BY <2>1, <2>2
<1> QED  BY <1>3, <1>4, <1>5, <1>6

\* The calls at most n deep are those paths.
LEMMA CallsArePaths ==
    ASSUME NEW R, NEW K, TreeOf(heap, R, K), NEW x \in Live,
           NEW n \in 0..Cardinality(Items)
    PROVE  Calls(x)[n] = {c \in Seq(Live) : CallPath(x, c) /\ Len(c) <= n + 1}
<1> DEFINE N == Cardinality(Items)
           paths(k) == {c \in Seq(Live) : CallPath(x, c) /\ Len(c) <= k + 1}
           deeper(C) == C \cup UNION {{Append(c, y) : y \in ToSet(Chain(heap, Last(c)))} : c \in C}
           step(f) == [k \in 0..N |-> IF k = 0 THEN {<<x>>} ELSE deeper(f[k - 1])]
           calls == CHOOSE f : f = step(f)
<1>0. Calls(x) = calls
  BY DEF Calls
<1> HIDE DEF calls
<1>1. N \in Nat
  BY JsonTreeAssumption, FS_CardinalityType
<1> HIDE DEF N
<1>2. paths(0) = {<<x>>}
  <2>1. <<x>> \in Seq(Live) /\ CallPath(x, <<x>>) /\ Len(<<x>>) <= 0 + 1
    BY DEF CallPath
  <2>2. ASSUME NEW c \in paths(0)
        PROVE  c = <<x>>
    <3>1. c \in Seq(Live) /\ Len(c) > 0 /\ c[1] = x /\ Len(c) <= 1
      BY DEF CallPath
    <3>2. Len(c) = 1
      BY SMTT(60), <3>1
    <3> QED  BY <3>1, <3>2
  <2> QED  BY <2>1, <2>2
<1>3. ASSUME NEW k \in 1..N
      PROVE  paths(k) = deeper(paths(k - 1))
  <2>1. ASSUME NEW c \in paths(k)
        PROVE  c \in deeper(paths(k - 1))
    <3>1. CallPath(x, c) /\ Len(c) <= k + 1 /\ c \in Seq(Live)
      OBVIOUS
    <3>2. CASE Len(c) <= k
      BY <1>1, <3>1, <3>2
    <3>3. CASE ~(Len(c) <= k)
      <4>1. Len(c) # 1 /\ Len(c) - 1 <= (k - 1) + 1
        <5>1. PICK m \in Nat : m = Len(c)
          BY <3>1
        <5>2. m <= k + 1 /\ ~(m <= k) /\ k \in Nat /\ k >= 1
          BY <1>1, <3>1, <3>3, <5>1
        <5> QED  BY <5>1, <5>2
      <4>2. Front(c) \in paths(k - 1)
        BY <3>1, <4>1, ShorterPath DEF CallPath
      <4> QED  BY <3>1, <4>1, <4>2, ShorterPath
    <3> QED  BY <3>2, <3>3
  <2>2. ASSUME NEW c \in paths(k - 1)
        PROVE  c \in paths(k)
    BY <1>1
  <2>3. ASSUME NEW c \in paths(k - 1), NEW y \in ToSet(Chain(heap, Last(c)))
        PROVE  Append(c, y) \in paths(k)
    <3>1. CallPath(x, c) /\ Len(c) <= k /\ c \in Seq(Live) /\ Len(c) > 0
      BY <1>1 DEF CallPath
    <3>2. Last(c) \in Live
      BY <3>1 DEF Last
    <3>3. y \in Live
      <4>1. /\ Chain(heap, Last(c)) \in Seq(Items)
            /\ \A i \in 1..Len(Chain(heap, Last(c))) : Chain(heap, Last(c))[i] \in Live
        BY <3>2, ListAt DEF Live
      <4> QED  BY <4>1, MembersOf
    <3>4. CallPath(x, Append(c, y))
      BY <3>1, <3>3, LongerPath
    <3>5. Append(c, y) \in Seq(Live) /\ Len(Append(c, y)) <= k + 1
      BY <3>1, <3>3
    <3> QED  BY <3>4, <3>5
  <2> HIDE DEF paths
  <2>4. ASSUME NEW c \in deeper(paths(k - 1))
        PROVE  c \in paths(k)
    <3>1. CASE c \in paths(k - 1)
      BY <2>2, <3>1
    <3>2. CASE c \notin paths(k - 1)
      <4>1. PICK b \in paths(k - 1) : c \in {Append(b, y) : y \in ToSet(Chain(heap, Last(b)))}
        BY <2>4, <3>2
      <4> QED  BY <2>3, <4>1
    <3> QED  BY <3>1, <3>2
  <2> HIDE DEF deeper
  <2> QED  BY <2>1, <2>4
<1>4. PICK g : g = [k \in 0..N |-> paths(k)]
  OBVIOUS
<1> HIDE DEF paths, deeper
<1>5. g = step(g)
  <2>1. \A k \in 1..N : k - 1 \in 0..N /\ k \in 0..N
    BY <1>1
  <2>2. \A k \in 0..N : g[k] = IF k = 0 THEN {<<x>>} ELSE deeper(g[k - 1])
    BY <1>1, <1>2, <1>3, <1>4, <2>1
  <2> QED  BY <1>4, <2>2
<1>6. calls = step(calls)
  <2> USE DEF calls
  <2> HIDE DEF step
  <2> QED  BY <1>5
<1>7. \A k \in 0..N : calls[k] = g[k]
  <2> DEFINE wrong == {k \in 0..N : calls[k] # g[k]}
  <2>1. SUFFICES ASSUME wrong # {}  PROVE FALSE
    OBVIOUS
  <2>2. wrong \in SUBSET Nat
    OBVIOUS
  <2>3. PICK k \in wrong : \A m \in wrong : k <= m
    BY <2>1, <2>2, MinOfNaturals
  <2>4. k \in 1..N /\ k - 1 \in 0..N /\ k - 1 \notin wrong
    <3>1. k \in 0..N /\ calls[k] # g[k]
      BY <2>3
    <3>2. calls[0] = {<<x>>} /\ g[0] = {<<x>>}
      BY <1>1, <1>5, <1>6
    <3>3. k \in 1..N
      BY <1>1, <3>1, <3>2
    <3> QED  BY <1>1, <2>3, <3>3
  <2> QED  BY <1>5, <1>6, <2>3, <2>4
<1>8. calls[n] = paths(n)
  BY <1>4, <1>7 DEF N
<1> QED  BY <1>0, <1>8 DEF paths

\* A set of calls that a duplication of x makes: all of them, or the first alone.
CallSet(x, C, recurse) ==
    /\ <<x>> \in C /\ \A c \in C : CallPath(x, c)
    /\ \A c \in C : Len(c) # 1 => recurse /\ Front(c) \in C
    /\ recurse => \A c \in C : \A y \in Live :
         y \in ToSet(Chain(heap, Last(c))) => Append(c, y) \in C

\* The calls of cJSON_Duplicate, once a level adds none, are closed under their children.
LEMMA CallsMade ==
    ASSUME NEW R, NEW K, TreeOf(heap, R, K), NEW x \in Live, NEW recurse \in BOOLEAN,
           NEW deep, deep = Cardinality(Items), NEW C,
           C = IF recurse THEN Calls(x)[deep] ELSE {<<x>>},
           recurse => Calls(x)[deep - 1] = Calls(x)[deep]
    PROVE  CallSet(x, C, recurse)
<1>1. CallPath(x, <<x>>) /\ <<x>> \in Seq(Live) /\ Len(<<x>>) = 1
  BY DEF CallPath
<1>2. CASE ~recurse
  <2>1. C = {<<x>>}
    BY <1>2
  <2> QED  BY <1>1, <1>2, <2>1 DEF CallSet
<1>3. CASE recurse
  <2>1. deep \in Nat /\ deep # 0
    <3>1. IsFiniteSet(Items) /\ Items # {}
      BY JsonTreeAssumption DEF Live, LiveIn
    <3> QED  BY <3>1, FS_CardinalityType, FS_EmptySet
  <2>2. deep \in 0..Cardinality(Items) /\ deep - 1 \in 0..Cardinality(Items)
    BY <2>1
  <2>3. C = {c \in Seq(Live) : CallPath(x, c) /\ Len(c) <= deep + 1}
    BY <1>3, <2>2, CallsArePaths
  <2>4. C = {c \in Seq(Live) : CallPath(x, c) /\ Len(c) <= (deep - 1) + 1}
    BY <1>3, <2>2, CallsArePaths
  <2>5. ASSUME NEW c \in C, Len(c) # 1
        PROVE  Front(c) \in C
    <3>1. CallPath(x, c) /\ Len(c) <= deep + 1
      BY <2>3
    <3>2. CallPath(x, Front(c)) /\ Len(Front(c)) = Len(c) - 1
      BY <2>5, <3>1, ShorterPath
    <3>3. Front(c) \in Seq(Live)
      BY <3>2 DEF CallPath
    <3>4. PICK m \in Nat : m = Len(c)
      BY <3>1 DEF CallPath
    <3>5. Len(Front(c)) <= deep + 1
      BY <2>1, <3>1, <3>2, <3>4
    <3> QED  BY <2>3, <3>2, <3>3, <3>5
  <2>6. ASSUME NEW c \in C, NEW y \in Live, y \in ToSet(Chain(heap, Last(c)))
        PROVE  Append(c, y) \in C
    <3>1. CallPath(x, c) /\ Len(c) <= (deep - 1) + 1 /\ c \in Seq(Live)
      BY <2>4
    <3>2. CallPath(x, Append(c, y))
      BY <2>6, <3>1, LongerPath
    <3>3. Append(c, y) \in Seq(Live) /\ Len(Append(c, y)) <= deep + 1
      BY <2>1, <3>1
    <3> QED  BY <2>3, <3>2, <3>3
  <2>7. \A c \in C : CallPath(x, c)
    BY <2>3
  <2>8. <<x>> \in C
    <3>1. Len(<<x>>) <= deep + 1
      BY <1>1, <2>1
    <3> QED  BY <1>1, <2>3, <3>1, Zenon
  <2> QED  BY <1>3, <2>5, <2>6, <2>7, <2>8 DEF CallSet
<1> QED  BY <1>2, <1>3

\* What was appended, and what it was appended to.
LEMMA AppendParts ==
    ASSUME NEW S, NEW b \in Seq(S), NEW y \in S
    PROVE  /\ Append(b, y) # <<>> /\ Last(Append(b, y)) = y /\ Front(Append(b, y)) = b
           /\ Len(Append(b, y)) = Len(b) + 1 /\ Append(b, y) \in Seq(S)
<1>1. PICK c : c = Append(b, y)
  OBVIOUS
<1>2. /\ c \in Seq(S) /\ Len(c) = Len(b) + 1 /\ Len(b) \in Nat /\ c[Len(b) + 1] = y
      /\ \A i \in 1..Len(b) : c[i] = b[i]
  BY <1>1
<1>3. SubSeq(c, 1, Len(c) - 1) = b
  <2>1. PICK d : d = SubSeq(c, 1, Len(b))
    OBVIOUS
  <2>2. d \in Seq(S) /\ Len(d) = Len(b) /\ \A i \in 1..Len(b) : d[i] = c[i]
    BY <1>2, <2>1
  <2>3. d = b
    BY <1>2, <2>2
  <2> QED  BY <1>2, <2>1, <2>3
<1>4. c # <<>>
  BY <1>2
<1> QED  BY <1>1, <1>2, <1>3, <1>4 DEF Last, Front

\* The items that are the copies for the list of the item of call c.
CopiesAt(C, recurse, at) ==
    [c \in C |-> IF recurse THEN [i \in 1..Len(Chain(heap, Last(c))) |->
                                    at[Append(c, Chain(heap, Last(c))[i])]] ELSE <<>>]

AreCopies(C, recurse, at, D, L) ==
    /\ \A d \in Items : d \in D <=> \E c \in C : d = at[c]
    /\ \A c \in C : L[at[c]] = CopiesAt(C, recurse, at)[c]

\* A duplicate of x: its items are new, and their lists are copies of those of x.
LEMMA Copied ==
    ASSUME NEW R, NEW K, TreeOf(heap, R, K), NEW x \in Live, NEW recurse \in BOOLEAN,
           NEW C, CallSet(x, C, recurse), NEW at \in Injection(C, Available),
           NEW D \in SUBSET Items, NEW L, AreCopies(C, recurse, at, D, L)
    PROVE  IsGraft(heap, DuplicateOf(C, recurse, at), K, D, L, at[<<x>>])
<1>1. /\ \A c \in C : at[c] \in Available /\ at[c] \in Items /\ at[c] \in D
      /\ \A c, e \in C : at[c] = at[e] => c = e
      /\ D \subseteq Available /\ \A d \in D : \E c \in C : d = at[c]
  BY DEF Injection, IsInjective, Available, AreCopies
<1>2. /\ heap \in Heap /\ NULL \notin Items /\ Live \subseteq Items
  BY JsonTreeAssumption DEF TreeOf, Live, LiveIn
<1>3. ASSUME NEW c \in C
      PROVE  (CHOOSE e \in C : at[e] = at[c]) = c
  BY <1>1
<1>4. ASSUME NEW c \in C
      PROVE  /\ c \in Seq(Live) /\ Len(c) > 0 /\ Last(c) \in Live /\ CallPath(x, c)
             /\ Chain(heap, Last(c)) \in Seq(Items) /\ Once(Chain(heap, Last(c)))
             /\ Forwards(heap, Last(c), Chain(heap, Last(c)))
             /\ Backwards(heap, Chain(heap, Last(c)))
             /\ \A i \in 1..Len(Chain(heap, Last(c))) : Chain(heap, Last(c))[i] \in Live
  <2>1. c \in Seq(Live) /\ Len(c) > 0 /\ CallPath(x, c)
    BY DEF CallSet, CallPath
  <2>2. Last(c) \in Live
    BY <2>1 DEF Last
  <2> QED  BY <2>1, <2>2, ListAt DEF Live
<1>5. PICK h2 : h2 = DuplicateOf(C, recurse, at)
  OBVIOUS
<1>6. /\ h2 = [z \in Items |-> IF z \in D THEN h2[z] ELSE heap[z]]
      /\ \A c \in C : h2[at[c]] = CopyOf(c, recurse, at)
      /\ \A y \in Items \ D : h2[y] = heap[y]
  <2>1. \A c \in C : h2[at[c]] = CopyOf(c, recurse, at)
    <3> TAKE c \in C
    <3>1. \E e \in C : at[e] = at[c]
      OBVIOUS
    <3> QED  BY <1>1, <1>3, <1>5, <3>1 DEF DuplicateOf
  <2>2. \A y \in Items \ D : h2[y] = heap[y]
    <3> TAKE y \in Items \ D
    <3>1. ~\E c \in C : at[c] = y
      BY DEF AreCopies
    <3> QED  BY <1>5, <3>1 DEF DuplicateOf
  <2>3. h2 = [z \in Items |-> h2[z]]
    BY <1>5 DEF DuplicateOf
  <2> QED  BY <2>1, <2>2, <2>3
<1>7. ASSUME NEW c \in C
      PROVE  LET y == heap[Last(c)]
                 z == h2[at[c]]
             IN /\ z.kind = y.kind /\ z.ref = FALSE /\ z.name = y.name
                /\ z.child = (IF y.child = NULL \/ ~recurse THEN NULL
                              ELSE at[Append(c, y.child)])
                /\ z.next = (IF y.next = NULL \/ Len(c) = 1 THEN NULL
                             ELSE at[Append(Front(c), y.next)])
                /\ z.prev = (IF y.prev = NULL \/ Len(c) = 1 THEN NULL
                             ELSE at[Append(Front(c), y.prev)])
                /\ z = [kind |-> z.kind, ref |-> z.ref, name |-> z.name,
                        child |-> z.child, next |-> z.next, prev |-> z.prev]
  <2>1. heap[Last(c)] \in Record
    BY <1>2, <1>4 DEF Heap
  <2>2. PICK y : y = heap[Last(c)]
    OBVIOUS
  <2>3. PICK z : z = h2[at[c]]
    OBVIOUS
  <2>4. z = CopyOf(c, recurse, at)
    BY <1>6, <2>3
  <2>5. PICK nx, pv, ch :
          /\ nx = IF y.next = NULL \/ Len(c) = 1 THEN NULL ELSE at[Append(Front(c), y.next)]
          /\ pv = IF y.prev = NULL \/ Len(c) = 1 THEN NULL ELSE at[Append(Front(c), y.prev)]
          /\ ch = IF y.child = NULL \/ ~recurse THEN NULL ELSE at[Append(c, y.child)]
    OBVIOUS
  <2>6. z = [y EXCEPT !.ref = FALSE, !.next = nx, !.prev = pv, !.child = ch]
    BY <2>2, <2>4, <2>5 DEF CopyOf
  <2>7. z = [kind |-> y.kind, ref |-> FALSE, name |-> y.name, child |-> ch, next |-> nx,
             prev |-> pv]
    BY <2>1, <2>2, <2>6 DEF Record
  <2> QED  BY <2>2, <2>3, <2>5, <2>7
<1>8. ASSUME NEW c \in C, recurse, NEW i \in 1..Len(Chain(heap, Last(c)))
      PROVE  LET s == Chain(heap, Last(c))
                 b == Append(c, s[i])
             IN /\ b \in C /\ Last(b) = s[i] /\ Front(b) = c /\ Len(b) # 1
                /\ h2[at[b]].next = (IF i = Len(s) THEN NULL ELSE at[Append(c, s[i + 1])])
                /\ h2[at[b]].prev = at[Append(c, s[IF i = 1 THEN Len(s) ELSE i - 1])]
  <2>1. PICK s, b : s = Chain(heap, Last(c)) /\ b = Append(c, s[i])
    OBVIOUS
  <2>2. /\ c \in Seq(Live) /\ Len(c) > 0 /\ s \in Seq(Items) /\ i \in 1..Len(s)
        /\ Forwards(heap, Last(c), s) /\ Backwards(heap, s) /\ \A j \in 1..Len(s) : s[j] \in Live
    BY <1>4, <2>1
  <2>3. s[i] \in ToSet(s)
    BY <2>2, MembersOf
  <2>4. b \in C
    BY <1>8, <2>1, <2>2, <2>3 DEF CallSet
  <2>5. Last(b) = s[i] /\ Front(b) = c /\ Len(b) = Len(c) + 1 /\ Len(c) \in Nat
    BY <2>1, <2>2, AppendParts
  <2>6. Len(b) # 1
    BY <2>2, <2>5
  <2>7. PICK j : j = IF i = 1 THEN Len(s) ELSE i - 1
    OBVIOUS
  <2>8. /\ j \in 1..Len(s) /\ heap[s[i]].prev = s[j]
        /\ heap[s[i]].next = IF i = Len(s) THEN NULL ELSE s[i + 1]
    BY <2>2, <2>7 DEF Forwards, Backwards
  <2>9. s[j] # NULL /\ (i # Len(s) => s[i + 1] # NULL)
    <3>1. i # Len(s) => i + 1 \in 1..Len(s)
      BY <2>2
    <3> QED  BY <1>2, <2>2, <2>8, <3>1
  <2>10. /\ h2[at[b]].next = (IF heap[s[i]].next = NULL THEN NULL
                              ELSE at[Append(c, heap[s[i]].next)])
         /\ h2[at[b]].prev = (IF heap[s[i]].prev = NULL THEN NULL
                              ELSE at[Append(c, heap[s[i]].prev)])
    BY <1>7, <2>4, <2>5, <2>6
  <2> QED  BY <2>1, <2>4, <2>5, <2>6, <2>7, <2>8, <2>9, <2>10
<1>9. ASSUME NEW c \in C, Len(c) # 1
      PROVE  recurse /\ \E b \in C : \E i \in 1..Len(Chain(heap, Last(b))) :
                           c = Append(b, Chain(heap, Last(b))[i])
  <2>1. recurse /\ Front(c) \in C
    BY <1>9 DEF CallSet
  <2>2. c = Append(Front(c), Last(c)) /\ Last(c) \in ToSet(Chain(heap, Last(Front(c))))
    BY <1>4, <1>9, ShorterPath
  <2>3. \E i \in 1..Len(Chain(heap, Last(Front(c)))) : Chain(heap, Last(Front(c)))[i] = Last(c)
    BY <1>4, <2>1, <2>2, MembersOf
  <2> QED  BY <2>1, <2>2, <2>3
<1>10. ASSUME NEW c \in C
       PROVE  /\ ~recurse => L[at[c]] = <<>>
              /\ recurse => /\ Len(L[at[c]]) = Len(Chain(heap, Last(c)))
                            /\ \A i \in 1..Len(Chain(heap, Last(c))) :
                                 L[at[c]][i] = at[Append(c, Chain(heap, Last(c))[i])]
              /\ L[at[c]] \in Seq(D)
  <2>1. L[at[c]] = CopiesAt(C, recurse, at)[c]
    BY DEF AreCopies
  <2>2. PICK s : s = Chain(heap, Last(c))
    OBVIOUS
  <2>3. s \in Seq(Items)
    BY <1>4, <2>2
  <2>4. L[at[c]] = IF recurse THEN [i \in 1..Len(s) |-> at[Append(c, s[i])]] ELSE <<>>
    BY <2>1, <2>2 DEF CopiesAt
  <2>5. recurse => \A i \in 1..Len(s) : at[Append(c, s[i])] \in D
    BY <1>1, <1>8, <2>2
  <2>6. CASE recurse
    <3>1. PICK n \in Nat : n = Len(s)
      BY <2>3
    <3>2. L[at[c]] = [i \in 1..n |-> at[Append(c, s[i])]]
      BY <2>4, <2>6, <3>1
    <3>3. L[at[c]] \in Seq(D) /\ Len(L[at[c]]) = n
      BY <2>5, <2>6, <3>1, <3>2
    <3> QED  BY <2>2, <2>6, <3>1, <3>2, <3>3
  <2>7. CASE ~recurse
    BY <2>4, <2>7
  <2> QED  BY <2>6, <2>7
<1>11. ASSUME NEW c \in C
       PROVE  /\ h2[at[c]].child = IF L[at[c]] = <<>> THEN NULL ELSE L[at[c]][1]
              /\ h2[at[c]].child \in Place
  <2>1. PICK s : s = Chain(heap, Last(c))
    OBVIOUS
  <2>2. s \in Seq(Items) /\ heap[Last(c)].child = IF s = <<>> THEN NULL ELSE s[1]
    BY <1>4, <2>1 DEF Forwards
  <2>3. CASE ~recurse
    BY <1>7, <1>10, <2>3 DEF Place
  <2>4. CASE recurse /\ s = <<>>
    <3>1. L[at[c]] = <<>>
      <4>1. Len(L[at[c]]) = Len(s) /\ L[at[c]] \in Seq(D)
        BY <1>10, <2>1, <2>4
      <4>2. Len(s) = 0
        BY <2>4
      <4> QED  BY <4>1, <4>2
    <3> QED  BY <1>7, <2>2, <2>4, <3>1 DEF Place
  <2>5. CASE recurse /\ s # <<>>
    <3>1. 1 \in 1..Len(s) /\ s[1] # NULL
      BY <1>2, <2>2, <2>5
    <3>2. Len(L[at[c]]) = Len(s) /\ L[at[c]][1] = at[Append(c, s[1])] /\ L[at[c]] \in Seq(D)
      BY <1>10, <2>1, <2>5, <3>1
    <3>3. L[at[c]] # <<>>
      BY <3>1, <3>2
    <3>4. h2[at[c]].child = at[Append(c, s[1])]
      BY <1>7, <2>2, <2>5, <3>1
    <3>5. at[Append(c, s[1])] \in Items
      BY <1>1, <1>8, <2>1, <2>5, <3>1
    <3> QED  BY <3>2, <3>3, <3>4, <3>5 DEF Place
  <2> QED  BY <2>3, <2>4, <2>5
<1>12. h2 \in Heap
  <2>1. ASSUME NEW c \in C
        PROVE  h2[at[c]].next \in Place /\ h2[at[c]].prev \in Place
    <3>1. CASE Len(c) = 1
      BY <1>7, <3>1 DEF Place
    <3>2. CASE Len(c) # 1
      <4>0. PICK b \in C : \E i \in 1..Len(Chain(heap, Last(b))) :
                             c = Append(b, Chain(heap, Last(b))[i])
        BY <1>9, <3>2
      <4>1. PICK i \in 1..Len(Chain(heap, Last(b))) : c = Append(b, Chain(heap, Last(b))[i])
        BY <4>0
      <4>2. PICK s : s = Chain(heap, Last(b))
        OBVIOUS
      <4>3. PICK n \in Nat : n = Len(s)
        BY <1>4, <4>2
      <4>4. PICK j : j = IF i = 1 THEN n ELSE i - 1
        OBVIOUS
      <4>5. i \in 1..n /\ j \in 1..n /\ (i # n => i + 1 \in 1..n)
        BY <4>2, <4>3, <4>4
      <4>6. \A k \in 1..n : at[Append(b, s[k])] \in Place
        BY <1>1, <1>8, <1>9, <3>2, <4>2, <4>3 DEF Place
      <4>7. /\ h2[at[c]].next = IF i = n THEN NULL ELSE at[Append(b, s[i + 1])]
            /\ h2[at[c]].prev = at[Append(b, s[j])]
        BY <1>8, <1>9, <3>2, <4>1, <4>2, <4>3, <4>4
      <4> QED  BY <4>5, <4>6, <4>7 DEF Place
    <3> QED  BY <3>1, <3>2
  <2>2. ASSUME NEW c \in C
        PROVE  h2[at[c]] \in Record
    <3>1. heap[Last(c)].kind \in Kinds \cup {"free", "array"}
          /\ heap[Last(c)].name \in Names \cup {NULL}
      BY <1>2, <1>4 DEF Heap, Record
    <3>2. PICK z : z = h2[at[c]]
      OBVIOUS
    <3>3. /\ z = [kind |-> z.kind, ref |-> z.ref, name |-> z.name,
                  child |-> z.child, next |-> z.next, prev |-> z.prev]
          /\ z.kind = heap[Last(c)].kind /\ z.ref = FALSE /\ z.name = heap[Last(c)].name
      BY <1>7, <3>2
    <3>4. z.child \in Place /\ z.next \in Place /\ z.prev \in Place
      BY <1>11, <2>1, <3>2
    <3> QED  BY <3>1, <3>2, <3>3, <3>4 DEF Record
  <2>3. \A y \in Items : h2[y] \in Record
    BY <1>1, <1>2, <1>6, <2>2 DEF Heap
  <2>4. h2 = [z \in Items |-> h2[z]]
    BY <1>5 DEF DuplicateOf
  <2> QED  BY <2>3, <2>4 DEF Heap
<1>13. ASSUME NEW c \in C
       PROVE  Forwards(h2, at[c], L[at[c]]) /\ Backwards(h2, L[at[c]])
  <2>1. CASE ~recurse
    <3>1. L[at[c]] = <<>>
      BY <1>10, <2>1
    <3> QED  BY <1>11, <3>1 DEF Forwards, Backwards
  <2>2. CASE recurse
    <3>1. PICK s : s = Chain(heap, Last(c))
      OBVIOUS
    <3>2. PICK n \in Nat : n = Len(s)
      BY <1>4, <3>1
    <3>3. /\ Len(L[at[c]]) = n
          /\ \A i \in 1..n : L[at[c]][i] = at[Append(c, s[i])]
      BY <1>10, <2>2, <3>1, <3>2
    <3>4. \A i \in 1..n :
            /\ h2[at[Append(c, s[i])]].next = IF i = n THEN NULL ELSE at[Append(c, s[i + 1])]
            /\ h2[at[Append(c, s[i])]].prev = at[Append(c, s[IF i = 1 THEN n ELSE i - 1])]
      BY SMTT(60), <1>8, <2>2, <3>1, <3>2
    <3>5. \A i \in 1..n : (i # n => i + 1 \in 1..n) /\ (i # 1 => i - 1 \in 1..n) /\ n \in 1..n
      OBVIOUS
    <3>6. ASSUME NEW i \in 1..n
          PROVE  /\ h2[L[at[c]][i]].next = IF i = n THEN NULL ELSE L[at[c]][i + 1]
                 /\ h2[L[at[c]][i]].prev = L[at[c]][IF i = 1 THEN n ELSE i - 1]
      <4>1. PICK j \in 1..n : j = IF i = 1 THEN n ELSE i - 1
        BY <3>5
      <4>2. h2[L[at[c]][i]].prev = at[Append(c, s[j])] /\ L[at[c]][j] = at[Append(c, s[j])]
        BY SMTT(60), <3>3, <3>4, <4>1
      <4>3. h2[L[at[c]][i]].next = IF i = n THEN NULL ELSE at[Append(c, s[i + 1])]
        BY <3>3, <3>4
      <4>4. i # n => L[at[c]][i + 1] = at[Append(c, s[i + 1])]
        BY <3>3, <3>5
      <4> QED  BY <4>1, <4>2, <4>3, <4>4
    <3> QED  BY <1>11, <3>3, <3>6 DEF Forwards, Backwards
  <2> QED  BY <2>1, <2>2
<1>14. ASSUME NEW c \in C, NEW e \in C,
              NEW i \in 1..Len(L[at[c]]), NEW j \in 1..Len(L[at[e]]), L[at[c]][i] = L[at[e]][j]
       PROVE  at[c] = at[e] /\ i = j
  <2>1. recurse
    BY <1>10
  <2>2. PICK s, t : s = Chain(heap, Last(c)) /\ t = Chain(heap, Last(e))
    OBVIOUS
  <2>3. /\ i \in 1..Len(s) /\ j \in 1..Len(t)
        /\ L[at[c]][i] = at[Append(c, s[i])] /\ L[at[e]][j] = at[Append(e, t[j])]
    BY <1>10, <2>1, <2>2
  <2>4. PICK a, b : a = Append(c, s[i]) /\ b = Append(e, t[j])
    OBVIOUS
  <2>5. /\ a \in C /\ b \in C /\ Front(a) = c /\ Front(b) = e
        /\ Last(a) = s[i] /\ Last(b) = t[j]
    BY <1>8, <2>1, <2>2, <2>3, <2>4
  <2>6. a = b
    <3>1. at[a] = at[b]
      BY <1>14, <2>3, <2>4
    <3> QED  BY <1>1, <2>5, <3>1
  <2>7. c = e /\ s[i] = t[j]
    BY <2>5, <2>6
  <2> QED  BY <1>4, <2>2, <2>3, <2>7 DEF Once
<1>15. ASSUME NEW c \in C
       PROVE  at[c] = at[<<x>>] <=> ~\E e \in C : \E i \in 1..Len(L[at[e]]) : L[at[e]][i] = at[c]
  <2>1. <<x>> \in C /\ Len(<<x>>) = 1
    BY DEF CallSet
  <2>2. CASE Len(c) = 1
    <3>1. c = <<x>>
      <4>1. c \in Seq(Live) /\ c[1] = x
        BY <1>4 DEF CallPath
      <4> QED  BY <2>2, <4>1
    <3>2. ASSUME NEW e \in C, NEW i \in 1..Len(L[at[e]]), L[at[e]][i] = at[c]
          PROVE  FALSE
      <4>1. recurse /\ i \in 1..Len(Chain(heap, Last(e)))
            /\ L[at[e]][i] = at[Append(e, Chain(heap, Last(e))[i])]
        BY <1>10
      <4>2. /\ Append(e, Chain(heap, Last(e))[i]) \in C
            /\ Len(Append(e, Chain(heap, Last(e))[i])) # 1
        BY <1>8, <4>1
      <4> QED  BY <1>1, <2>2, <3>2, <4>1, <4>2
    <3> QED  BY <3>1, <3>2
  <2>3. CASE Len(c) # 1
    <3>1. c # <<x>> /\ at[c] # at[<<x>>]
      BY <1>1, <2>1, <2>3
    <3>0. PICK b \in C : recurse /\ \E i \in 1..Len(Chain(heap, Last(b))) :
                                       c = Append(b, Chain(heap, Last(b))[i])
      BY <1>9, <2>3
    <3>2. PICK i \in 1..Len(Chain(heap, Last(b))) :
            recurse /\ c = Append(b, Chain(heap, Last(b))[i])
      BY <3>0
    <3>3. i \in 1..Len(L[at[b]]) /\ L[at[b]][i] = at[c]
      BY <1>10, <3>2
    <3> QED  BY <3>1, <3>3
  <2> QED  BY <2>2, <2>3
<1>16. at[<<x>>] \in D /\ h2[at[<<x>>]].next = NULL
  <2>1. <<x>> \in C /\ Len(<<x>>) = 1
    BY DEF CallSet
  <2> QED  BY <1>1, <1>7, <2>1
<1>17. IsGraft(heap, h2, K, D, L, at[<<x>>])
  <2>1. D \in SUBSET (Items \ LiveIn(heap))
    BY <1>1 DEF Available, Live
  <2>2. \A d \in D : /\ h2[d].kind # "free" /\ L[d] \in Seq(D)
                     /\ IF h2[d].ref THEN L[d] = <<>> /\ RefersTo(h2, K, d)
                        ELSE Forwards(h2, d, L[d]) /\ Backwards(h2, L[d])
    <3>1. ASSUME NEW c \in C
          PROVE  /\ h2[at[c]].kind # "free" /\ L[at[c]] \in Seq(D) /\ ~h2[at[c]].ref
                 /\ Forwards(h2, at[c], L[at[c]]) /\ Backwards(h2, L[at[c]])
      BY <1>4, <1>7, <1>10, <1>13 DEF Live, LiveIn
    <3> QED  BY <1>1, <3>1
  <2>3. \A d, e \in D : \A i \in 1..Len(L[d]), j \in 1..Len(L[e]) :
          L[d][i] = L[e][j] => d = e /\ i = j
    BY <1>1, <1>14
  <2>4. \A d \in D : d = at[<<x>>] <=> ~\E e \in D : \E i \in 1..Len(L[e]) : L[e][i] = d
    <3> TAKE d \in D
    <3>1. PICK c \in C : d = at[c]
      BY <1>1
    <3>2. (\E e \in D : \E i \in 1..Len(L[e]) : L[e][i] = d)
          <=> \E e \in C : \E i \in 1..Len(L[at[e]]) : L[at[e]][i] = at[c]
      BY <1>1, <3>1
    <3> QED  BY <1>15, <3>1, <3>2
  <2>5. PICK root \in D : root = at[<<x>>]
    BY <1>16
  <2>6. /\ h2[root].next = NULL
        /\ \A d \in D : d = root <=> ~\E e \in D : \E i \in 1..Len(L[e]) : L[e][i] = d
    BY <1>16, <2>4, <2>5
  <2>7. AllUnder(D, L, root)
    <3>1. SUFFICES ASSUME NEW T \in SUBSET D, root \in T, ListsWithin(L, T)
                   PROVE  \A c \in C : at[c] \in T
      BY <1>1, Zenon DEF AllUnder
    <3> DEFINE wrong == {m \in Nat : \E c \in C : at[c] \notin T /\ m = Len(c)}
    <3>2. SUFFICES ASSUME wrong # {}  PROVE FALSE
      BY <1>4
    <3>3. PICK m \in wrong : \A k \in wrong : m <= k
      BY <3>2, MinOfNaturals
    <3>4. PICK c \in C : at[c] \notin T /\ m = Len(c)
      BY <3>3
    <3>5. Len(c) # 1
      <4>1. Len(c) = 1 => c = <<x>>
        BY <1>4 DEF CallPath
      <4> QED  BY <2>5, <3>1, <3>4, <4>1
    <3>6. recurse
      BY <1>9, <3>5
    <3>7. PICK b \in C : \E i \in 1..Len(Chain(heap, Last(b))) :
                           c = Append(b, Chain(heap, Last(b))[i])
      BY <1>9, <3>5
    <3>8. PICK i \in 1..Len(Chain(heap, Last(b))) : c = Append(b, Chain(heap, Last(b))[i])
      BY <3>7
    <3>9. Len(c) = Len(b) + 1 /\ Len(b) \in Nat
      BY <1>4, <3>8
    <3>10. at[b] \in T
      <4>1. ~(m <= Len(b))
        BY <3>4, <3>9
      <4> QED  BY <3>3, <3>9, <4>1
    <3>11. L[at[b]][i] = at[c] /\ i \in 1..Len(L[at[b]])
      BY <1>10, <3>6, <3>8
    <3> QED  BY <3>1, <3>4, <3>10, <3>11 DEF ListsWithin
  <2>8. IsGraft(heap, h2, K, D, L, root)
    BY <1>6, <1>12, <2>1, <2>2, <2>3, <2>5, <2>6, <2>7, Zenon DEF IsGraft
  <2> QED  BY <2>5, <2>8
<1> QED  BY <1>5, <1>17

-------------------------------------------------------------------------------
(* The operations. *)

\* There is one choice of lists.
LEMMA OnlyKids ==
    ASSUME NEW h, NEW R, NEW K, TreeOf(h, R, K)
    PROVE  K = Kids(h)
<1>1. K \in [Items -> Seq(Items)] /\ Linked(h, K)
  BY DEF TreeOf
<1>2. ASSUME NEW p \in Items
      PROVE  K[p] = Kids(h)[p]
  <2>1. CASE Owner(h, p)
    BY <2>1, ListAt DEF Kids, Owner
  <2>2. CASE ~Owner(h, p)
    BY <1>1, <2>2 DEF Kids, Owner, Linked
  <2> QED  BY <2>1, <2>2
<1>3. Kids(h) = [p \in Items |-> Kids(h)[p]]
  BY DEF Kids
<1> QED  BY <1>1, <1>2, <1>3

\* The lists that the invariant speaks of are those that the pointers lead along.
LEMMA NowKids ==
    ASSUME NEW K, TreeOf(heap', roots', K)
    PROVE  TreeInv' /\ Kids(heap)' = K
<1>1. K = Kids(heap')
  BY OnlyKids
<1>2. Kids(heap)' = Kids(heap')
  BY DEF Kids, LiveIn, Chain
<1> QED  BY <1>1, <1>2 DEF TreeInv

\* What the caller may change.
LEMMA ParentIs ==
    ASSUME TreeInv, NEW p, Parent(p)
    PROVE  /\ p \in Items /\ Owner(heap, p) /\ Alone(heap, p)
           /\ Kids(heap)[p] = Chain(heap, p) /\ Kids(heap)[p] \in Seq(Items)
<1>1. p \in Items /\ Owner(heap, p)
  BY DEF Parent, Owner, Live, LiveIn
<1>2. Alone(heap, p)
  BY DEF Parent, Untouched, Shared, Alone, LiveIn
<1> QED  BY <1>1, <1>2, ListAt DEF Kids, Owner, TreeInv, TreeOf

\* What the caller may add is a root, and another one than where it is added.
LEMMA AddableIs ==
    ASSUME TreeInv, NEW p, NEW x, Addable(p, x)
    PROVE  Parent(p) /\ x \in roots /\ x # p /\ x \in Items
<1>1. x \in roots /\ x \in Items /\ heap \in Heap
  BY DEF Addable, TreeInv, TreeOf
<1>2. x \in Subtree(x)
  BY <1>1, Reaching DEF Subtree
<1> QED  BY <1>1, <1>2 DEF Addable

\* A lookup finds an item of the list or nothing.
LEMMA ByIndex ==
    ASSUME TreeInv, NEW p, Parent(p), NEW i \in Nat, get_array_item(p, i) # NULL
    PROVE  i + 1 \in 1..Len(Kids(heap)[p]) /\ get_array_item(p, i) = Kids(heap)[p][i + 1]
<1>1. Kids(heap)[p] = Chain(heap, p) /\ Chain(heap, p) \in Seq(Items)
  BY SMTT(60), ParentIs
<1> QED  BY SMTT(60), <1>1 DEF get_array_item

\* A lookup by name gives an item of the list, or NULL.
LEMMA ByName ==
    ASSUME TreeInv, NEW p, Parent(p), NEW n, NEW cs \in BOOLEAN, get_object_item(p, n, cs) # NULL
    PROVE  \E k \in 1..Len(Kids(heap)[p]) : get_object_item(p, n, cs) = Kids(heap)[p][k]
<1>1. Kids(heap)[p] = Chain(heap, p) /\ Chain(heap, p) \in Seq(Items)
  BY ParentIs
<1>2. PICK s : s = Chain(heap, p)
  BY SMTT(60)
<1>3. PICK stops : stops = {i \in DOMAIN s : SameName(n, heap[s[i]].name, cs)
                                             \/ (cs /\ heap[s[i]].name = NULL)}
  OBVIOUS
<1>4. stops # {} /\ get_object_item(p, n, cs) = s[Min(stops)]
  BY <1>2, <1>3 DEF get_object_item
<1>5. stops \in SUBSET Nat /\ DOMAIN s = 1..Len(s)
  BY <1>1, <1>2, <1>3
<1>6. Min(stops) \in stops
  BY <1>4, <1>5, MinOfNaturals
<1> QED  BY <1>1, <1>2, <1>3, <1>4, <1>5, <1>6

\* So does a lookup by index or by name.
LEMMA FoundIs ==
    ASSUME TreeInv, NEW p, Parent(p), NEW x \in Found(p)
    PROVE  \E k \in 1..Len(Kids(heap)[p]) : x = Kids(heap)[p][k]
<1>1. CASE \E i \in 0..Cardinality(Items) : x = get_array_item(p, i)
  BY <1>1, ByIndex DEF Found
<1>2. CASE \E n \in Names, cs \in BOOLEAN : x = get_object_item(p, n, cs)
  BY <1>2, ByName DEF Found
<1> QED  BY <1>1, <1>2 DEF Found

\* The lists with one of them changed.
LEMMA AddToArray ==
    ASSUME TreeInv, NEW p, NEW x, AddItemToArray(p, x)
    PROVE  /\ TreeInv' /\ roots' = roots \ {x}
           /\ Kids(heap)' = [Kids(heap) EXCEPT ![p] = Append(Kids(heap)[p], x)]
<1>1. Parent(p) /\ x \in roots /\ x # p
  BY AddableIs DEF AddItemToArray
<1>2. p \in Items /\ Owner(heap, p) /\ Alone(heap, p)
  BY <1>1, ParentIs
<1>3. TreeOf(add_item_to_array(heap, p, x), roots \ {x},
             [Kids(heap) EXCEPT ![p] = Append(Kids(heap)[p], x)])
  BY <1>1, <1>2, Added DEF TreeInv
<1> QED  BY <1>3, NowKids DEF AddItemToArray

\* The item gets its name and is the last of the list.
LEMMA AddToObject ==
    ASSUME TreeInv, NEW p, NEW n \in Names, NEW x, AddItemToObject(p, n, x)
    PROVE  /\ TreeInv' /\ roots' = roots \ {x}
           /\ Kids(heap)' = [Kids(heap) EXCEPT ![p] = Append(Kids(heap)[p], x)]
<1>1. Parent(p) /\ x \in roots /\ x # p /\ x \in Items
  BY AddableIs DEF AddItemToObject
<1>2. p \in Items /\ Owner(heap, p) /\ Alone(heap, p)
  BY <1>1, ParentIs
<1>3. PICK h : h = [heap EXCEPT ![x].name = n]
  OBVIOUS
<1>4. TreeOf(h, roots, Kids(heap)) /\ Owner(h, p) /\ Alone(h, p)
  BY <1>1, <1>2, <1>3, Renamed DEF TreeInv
<1>5. TreeOf(add_item_to_array(h, p, x), roots \ {x},
             [Kids(heap) EXCEPT ![p] = Append(Kids(heap)[p], x)])
  BY <1>1, <1>2, <1>4, Added
<1> QED  BY <1>3, <1>5, NowKids DEF AddItemToObject, add_item_to_object

\* The item is put before the one found, or at the end.
LEMMA Insert ==
    ASSUME TreeInv, NEW p, NEW i \in Nat, NEW x, InsertItemInArray(p, i, x)
    PROVE  /\ TreeInv' /\ roots' = roots \ {x}
           /\ \/ Kids(heap)' = [Kids(heap) EXCEPT ![p] = Append(Kids(heap)[p], x)]
              \/ \E k \in 1..Len(Kids(heap)[p]) :
                   Kids(heap)' = [Kids(heap) EXCEPT ![p] = InsertAt(Kids(heap)[p], k, x)]
<1>1. Parent(p) /\ x \in roots /\ x # p
  BY AddableIs DEF InsertItemInArray
<1>2. p \in Items /\ Owner(heap, p) /\ Alone(heap, p)
  BY <1>1, ParentIs
<1>3. CASE get_array_item(p, i) = NULL
  <2>1. TreeOf(add_item_to_array(heap, p, x), roots \ {x},
               [Kids(heap) EXCEPT ![p] = Append(Kids(heap)[p], x)])
    BY <1>1, <1>2, Added DEF TreeInv
  <2> QED  BY <1>3, <2>1, NowKids DEF InsertItemInArray
<1>4. CASE get_array_item(p, i) # NULL
  <2>1. PICK k \in 1..Len(Kids(heap)[p]) : get_array_item(p, i) = Kids(heap)[p][k]
    BY <1>1, <1>4, ByIndex
  <2>2. TreeOf(InsertItem(heap, p, Kids(heap)[p][k], x), roots \ {x},
               [Kids(heap) EXCEPT ![p] = InsertAt(Kids(heap)[p], k, x)])
    BY <1>1, <1>2, Inserted DEF TreeInv
  <2>3. heap' = InsertItem(heap, p, Kids(heap)[p][k], x) /\ roots' = roots \ {x}
    BY <1>4, <2>1 DEF InsertItemInArray
  <2> QED  BY <2>2, <2>3, NowKids
<1> QED  BY <1>3, <1>4

\* The item leaves its list and is the caller's.
LEMMA Detach ==
    ASSUME TreeInv, NEW p, DetachItem(p)
    PROVE  TreeInv' /\ \E k \in 1..Len(Kids(heap)[p]) :
             /\ roots' = roots \cup {Kids(heap)[p][k]}
             /\ heap' = DetachItemViaPointer(heap, p, Kids(heap)[p][k])
             /\ Kids(heap)' = [Kids(heap) EXCEPT ![p] = RemoveAt(Kids(heap)[p], k)]
<1>1. Parent(p) /\ p \in Items /\ Owner(heap, p) /\ Alone(heap, p)
  BY ParentIs DEF DetachItem
<1>2. PICK x \in Found(p) : heap' = DetachItemViaPointer(heap, p, x) /\ roots' = roots \cup {x}
  BY DEF DetachItem
<1>3. PICK k \in 1..Len(Kids(heap)[p]) : x = Kids(heap)[p][k]
  BY <1>1, FoundIs
<1>4. TreeOf(heap', roots', [Kids(heap) EXCEPT ![p] = RemoveAt(Kids(heap)[p], k)])
  BY <1>1, <1>2, <1>3, Detached DEF TreeInv
<1> QED  BY <1>2, <1>3, <1>4, NowKids

\* The lists without those of what is freed.
LEMMA Delete ==
    ASSUME TreeInv, NEW x, cJSON_Delete(x)
    PROVE  /\ TreeInv' /\ x \in roots /\ roots' = roots \ {x} /\ heap' = Free(heap, x)
           /\ Kids(heap)' = Without(Kids(heap), Reach(heap, x))
<1>1. /\ x \in roots /\ Deletable(heap, x) /\ heap' = Free(heap, x) /\ roots' = roots \ {x}
  BY DEF cJSON_Delete
<1>2. TreeOf(Free(heap, x), roots \ {x}, Without(Kids(heap), Reach(heap, x)))
  BY <1>1, Freed DEF TreeInv
<1> QED  BY <1>1, <1>2, NowKids

\* What is in a list is in use and not in the hands of the caller.
LEMMA NotHeld ==
    ASSUME NEW h, NEW R, NEW K, TreeOf(h, R, K), NEW p \in Items, NEW k \in 1..Len(K[p])
    PROVE  K[p][k] \notin R /\ K[p][k] \in Items /\ K[p][k] \in LiveIn(h)
  BY DEF TreeOf, Placed, Within

\* The item leaves its list, and all that is below it is freed.
LEMMA DetachAndDelete ==
    ASSUME TreeInv, NEW p, DeleteItem(p)
    PROVE  TreeInv' /\ \E k \in 1..Len(Kids(heap)[p]) : \E h :
             LET x == Kids(heap)[p][k]
             IN /\ roots' = roots /\ h = DetachItemViaPointer(heap, p, x)
                /\ TreeOf(h, roots \cup {x}, [Kids(heap) EXCEPT ![p] = RemoveAt(Kids(heap)[p], k)])
                /\ heap' = Free(h, x)
                /\ Kids(heap)' = Without([Kids(heap) EXCEPT ![p] = RemoveAt(Kids(heap)[p], k)],
                                         Reach(h, x))
<1>1. Parent(p) /\ p \in Items /\ Owner(heap, p) /\ Alone(heap, p)
  BY ParentIs DEF DeleteItem
<1>2. PICK x \in Found(p) : /\ Deletable(DetachItemViaPointer(heap, p, x), x)
                            /\ heap' = Free(DetachItemViaPointer(heap, p, x), x)
  BY DEF DeleteItem
<1>3. PICK k \in 1..Len(Kids(heap)[p]) : x = Kids(heap)[p][k]
  BY <1>1, FoundIs
<1>4. PICK h, K : /\ h = DetachItemViaPointer(heap, p, x)
                  /\ K = [Kids(heap) EXCEPT ![p] = RemoveAt(Kids(heap)[p], k)]
  OBVIOUS
<1>5. TreeOf(h, roots \cup {x}, K)
  BY <1>1, <1>3, <1>4, Detached DEF TreeInv
<1>6. x \in roots \cup {x} /\ Deletable(h, x)
  BY <1>2, <1>4
<1>7. TreeOf(Free(h, x), (roots \cup {x}) \ {x}, Without(K, Reach(h, x)))
  BY <1>5, <1>6, Freed, Zenon
<1>8. (roots \cup {x}) \ {x} = roots
  BY <1>1, <1>3, NotHeld DEF TreeInv
<1>9. roots' = roots /\ heap' = Free(h, x)
  BY <1>2, <1>4 DEF DeleteItem
<1> QED  BY <1>3, <1>4, <1>5, <1>7, <1>8, <1>9, NowKids

\* r in the place of item k of the list of p, in the memory h, and that item freed.
ReplacedBy(h, p, k, r) ==
    LET x == Kids(heap)[p][k]
        h2 == TakePlace(h, p, x, r)
        K2 == [Kids(heap) EXCEPT ![p] = ReplaceAt(Kids(heap)[p], k, r)]
    IN /\ TreeOf(h2, (roots \ {r}) \cup {x}, K2) /\ Deletable(h2, x)
       /\ heap' = Free(h2, x) /\ roots' = roots \ {r}
       /\ Kids(heap)' = Without(K2, Reach(h2, x))

\* The replacement takes the place of an item that is freed with all below it.
LEMMA ReplaceIn ==
    ASSUME NEW h, TreeOf(h, roots, Kids(heap)), NEW p \in Items, Owner(h, p), Alone(h, p),
           NEW k \in 1..Len(Kids(heap)[p]), NEW r \in roots,
           Deletable(TakePlace(h, p, Kids(heap)[p][k], r), Kids(heap)[p][k]),
           heap' = ReplaceItemViaPointer(h, p, Kids(heap)[p][k], r), roots' = roots \ {r}
    PROVE  TreeInv' /\ ReplacedBy(h, p, k, r)
<1>1. PICK x, h2, K2 : /\ x = Kids(heap)[p][k] /\ h2 = TakePlace(h, p, x, r)
                       /\ K2 = [Kids(heap) EXCEPT ![p] = ReplaceAt(Kids(heap)[p], k, r)]
  OBVIOUS
<1>2. TreeOf(h2, (roots \ {r}) \cup {x}, K2)
  BY <1>1, Replaced
<1>3. Deletable(h2, x) /\ heap' = Free(h2, x) /\ x \in (roots \ {r}) \cup {x}
  BY <1>1 DEF ReplaceItemViaPointer
<1>4. TreeOf(Free(h2, x), ((roots \ {r}) \cup {x}) \ {x}, Without(K2, Reach(h2, x)))
  BY <1>2, <1>3, Freed, Zenon
<1>5. ((roots \ {r}) \cup {x}) \ {x} = roots \ {r}
  BY <1>1, NotHeld
<1>6. TreeOf(heap', roots', Without(K2, Reach(h2, x)))
  BY <1>3, <1>4, <1>5
<1>7. TreeInv' /\ Kids(heap)' = Without(K2, Reach(h2, x))
  BY <1>6, NowKids
<1> QED  BY <1>1, <1>2, <1>3, <1>7 DEF ReplacedBy

\* The same, for an item found by its index.
LEMMA ReplaceInArray ==
    ASSUME TreeInv, NEW p, NEW i \in Nat, NEW r, ReplaceItemInArray(p, i, r)
    PROVE  TreeInv' /\ \E k \in 1..Len(Kids(heap)[p]) : ReplacedBy(heap, p, k, r)
<1>1. /\ Parent(p) /\ r \in roots /\ get_array_item(p, i) # NULL
      /\ p \in Items /\ Owner(heap, p) /\ Alone(heap, p)
  BY AddableIs, ParentIs DEF ReplaceItemInArray
<1>2. PICK k \in 1..Len(Kids(heap)[p]) : get_array_item(p, i) = Kids(heap)[p][k]
  BY <1>1, ByIndex
<1>3. /\ Deletable(TakePlace(heap, p, Kids(heap)[p][k], r), Kids(heap)[p][k])
      /\ heap' = ReplaceItemViaPointer(heap, p, Kids(heap)[p][k], r) /\ roots' = roots \ {r}
  BY <1>2 DEF ReplaceItemInArray
<1>4. TreeOf(heap, roots, Kids(heap))
  BY DEF TreeInv
<1> QED  BY <1>1, <1>3, <1>4, ReplaceIn

\* The same, for one found by its name; a name is given even if none is found.
LEMMA ReplaceInObject ==
    ASSUME TreeInv, NEW p, NEW n \in Names, NEW r, NEW cs \in BOOLEAN,
           replace_item_in_object(p, n, r, cs)
    PROVE  LET h == [heap EXCEPT ![r].name = n]
           IN /\ TreeInv' /\ TreeOf(h, roots, Kids(heap))
              /\ \/ heap' = h /\ roots' = roots /\ Kids(heap)' = Kids(heap)
                 \/ \E k \in 1..Len(Kids(heap)[p]) : ReplacedBy(h, p, k, r)
<1>1. /\ Parent(p) /\ r \in roots /\ r \in Items
      /\ p \in Items /\ Owner(heap, p) /\ Alone(heap, p)
  BY AddableIs, ParentIs DEF replace_item_in_object
<1>2. PICK h : h = [heap EXCEPT ![r].name = n]
  OBVIOUS
<1>3. TreeOf(h, roots, Kids(heap)) /\ Owner(h, p) /\ Alone(h, p)
  BY <1>1, <1>2, Renamed DEF TreeInv
<1>4. CASE heap' = h /\ roots' = roots
  BY <1>2, <1>3, <1>4, NowKids
<1>5. CASE /\ get_object_item(p, n, cs) # NULL
           /\ Deletable(TakePlace(h, p, get_object_item(p, n, cs), r), get_object_item(p, n, cs))
           /\ heap' = ReplaceItemViaPointer(h, p, get_object_item(p, n, cs), r)
           /\ roots' = roots \ {r}
  <2>1. PICK k \in 1..Len(Kids(heap)[p]) : get_object_item(p, n, cs) = Kids(heap)[p][k]
    BY <1>1, <1>5, ByName
  <2>2. TreeInv' /\ ReplacedBy(h, p, k, r)
    BY <1>1, <1>3, <1>5, <2>1, ReplaceIn
  <2> QED  BY <1>2, <1>3, <2>2
<1> QED  BY <1>2, <1>4, <1>5, Zenon DEF replace_item_in_object

-------------------------------------------------------------------------------
(* New items. *)

NoLists == [y \in Items |-> <<>>]

\* One new item without a list.
LEMMA NewItem ==
    ASSUME NEW h, NEW R, NEW K, TreeOf(h, R, K), NEW x \in Items \ LiveIn(h), NEW r \in Record,
           r.kind # "free", r.next = NULL,
           r.ref \/ r.child = NULL,
           r.child = NULL \/ \E q \in Items : K[q] # <<>> /\ r.child = K[q][1],
           NEW h2, h2 = [h EXCEPT ![x] = r]
    PROVE  TreeOf(h2, R \cup {x}, K)
<1>1. h \in Heap /\ h2 \in Heap /\ h2[x] = r /\ \A y \in Items \ {x} : h2[y] = h[y]
  BY DEF TreeOf, Heap
<1>2. RefersTo(h2, K, x)
  BY <1>1 DEF RefersTo
<1>3. ~r.ref => Forwards(h2, x, <<>>) /\ Backwards(h2, <<>>)
  BY <1>1 DEF Forwards, Backwards
<1>4. NoLists[x] = <<>> /\ <<>> \in Seq({x}) /\ Len(<<>>) = 0
  BY DEF NoLists
<1>5. IsGraft(h, h2, K, {x}, NoLists, x)
  <2>1. 1..Len(NoLists[x]) = {}
    BY <1>4
  <2>2. \A d \in {x} : /\ h2[d].kind # "free" /\ NoLists[d] \in Seq({x})
                       /\ IF h2[d].ref THEN NoLists[d] = <<>> /\ RefersTo(h2, K, d)
                          ELSE Forwards(h2, d, NoLists[d]) /\ Backwards(h2, NoLists[d])
    BY <1>1, <1>2, <1>3, <1>4
  <2>3. /\ {x} \subseteq Items \ LiveIn(h) /\ h2 \in Heap
        /\ \A y \in Items \ {x} : h2[y] = h[y]
    BY <1>1
  <2>4. \A d, e \in {x} : \A i \in 1..Len(NoLists[d]), j \in 1..Len(NoLists[e]) :
          NoLists[d][i] = NoLists[e][j] => d = e /\ i = j
    BY <2>1
  <2>5. \A d \in {x} : d = x <=> ~\E e \in {x} : \E i \in 1..Len(NoLists[e]) :
                                                   NoLists[e][i] = d
    BY <2>1
  <2>6. x \in {x} /\ h2[x].next = NULL
    BY <1>1
  <2>7. AllUnder({x}, NoLists, x)
    BY DEF AllUnder
  <2> QED  BY <2>2, <2>3, <2>4, <2>5, <2>6, <2>7, Zenon DEF IsGraft
<1>6. TreeOf(h2, R \cup {x}, With(K, {x}, NoLists))
  BY <1>5, Grafted
<1>7. With(K, {x}, NoLists) = K
  <2>1. K \in [Items -> Seq(Items)] /\ K[x] = <<>>
    BY DEF TreeOf, Linked, Owner
  <2> QED  BY <1>4, <2>1 DEF With
<1> QED  BY <1>6, <1>7

\* A new item has no pointers.
LEMMA NewRecord ==
    ASSUME NEW k \in Kinds
    PROVE  /\ Item(k) \in Record /\ Item(k).kind # "free" /\ Item(k).next = NULL
           /\ Item(k).child = NULL /\ ~Item(k).ref
  BY JsonTreeAssumption DEF Item, Unused, Record, Place

\* The item made and handed to the caller.
LEMMA CreateItem ==
    ASSUME TreeInv, NEW k \in Kinds, Create(k)
    PROVE  /\ TreeInv' /\ Kids(heap)' = Kids(heap)
           /\ \E new \in Available : /\ heap' = [heap EXCEPT ![new] = Item(k)]
                                     /\ roots' = roots \cup {new}
<1>1. PICK new \in Available : heap' = [heap EXCEPT ![new] = Item(k)] /\ roots' = roots \cup {new}
  BY DEF Create
<1>2. new \in Items \ LiveIn(heap)
  BY DEF Available, Live
<1>3. TreeOf(heap', roots', Kids(heap))
  BY <1>1, <1>2, NewRecord, NewItem DEF TreeInv
<1> QED  BY <1>1, <1>3, NowKids

\* Where a list pointer leads.
LEMMA ChildOf ==
    ASSUME NEW h, NEW R, NEW K, TreeOf(h, R, K), NEW p \in LiveIn(h), h[p].child # NULL
    PROVE  \E q \in Items : /\ K[q] # <<>> /\ h[p].child = K[q][1] /\ Owner(h, q)
                            /\ h[q].child = K[q][1] /\ (~h[p].ref => q = p)
<1>1. /\ \A q \in Items : K[q] # <<>> => Owner(h, q) /\ h[q].child = K[q][1]
      /\ p \in Items
  BY DEF TreeOf, Linked, Forwards, LiveIn
<1>2. CASE h[p].ref
  BY <1>1, <1>2 DEF TreeOf, Referring, RefersTo
<1>3. CASE ~h[p].ref
  BY <1>1, <1>3 DEF TreeOf, Linked, Forwards, Owner
<1> QED  BY <1>2, <1>3

\* A reference to a list owns none.
LEMMA ReferToList ==
    ASSUME TreeInv, NEW k \in Kinds, NEW x, CreateListReference(k, x)
    PROVE  /\ TreeInv' /\ Kids(heap)' = Kids(heap)
           /\ \E new \in Available :
                /\ heap' = [heap EXCEPT ![new] = [Item(k) EXCEPT !.ref = TRUE, !.child = x]]
                /\ roots' = roots \cup {new}
<1>1. PICK new \in Available :
        /\ heap' = [heap EXCEPT ![new] = [Item(k) EXCEPT !.ref = TRUE, !.child = x]]
        /\ roots' = roots \cup {new}
  BY DEF CreateListReference
<1>2. new \in Items \ LiveIn(heap)
  BY DEF Available, Live
<1>3. PICK p \in LiveIn(heap) : x = heap[p].child /\ x # NULL
  BY DEF CreateListReference, Live
<1>4. \E q \in Items : Kids(heap)[q] # <<>> /\ x = Kids(heap)[q][1]
  BY <1>3, ChildOf DEF TreeInv
<1>5. x \in Place
  BY <1>3 DEF TreeInv, TreeOf, Heap, Record, LiveIn
<1>6. PICK r : r = [Item(k) EXCEPT !.ref = TRUE, !.child = x]
  OBVIOUS
<1>7. r \in Record /\ r.kind # "free" /\ r.next = NULL /\ r.ref /\ r.child = x
  BY <1>5, <1>6, NewRecord DEF Record
<1>8. TreeOf(heap', roots', Kids(heap))
  BY <1>1, <1>2, <1>4, <1>6, <1>7, NewItem DEF TreeInv
<1> QED  BY <1>1, <1>8, NowKids

\* A new item, added with its name.
LEMMA AddNew ==
    ASSUME TreeInv, NEW p, NEW n \in Names, NEW k \in Kinds, AddNewToObject(p, n, k)
    PROVE  /\ TreeInv' /\ roots' = roots
           /\ \E new \in Available :
                /\ heap' = add_item_to_object([heap EXCEPT ![new] = Item(k)], p, n, new)
                /\ Kids(heap)' = [Kids(heap) EXCEPT ![p] = Append(Kids(heap)[p], new)]
<1>1. /\ p \in Items /\ Owner(heap, p) /\ Alone(heap, p)
      /\ TreeOf(heap, roots, Kids(heap))
  BY ParentIs DEF AddNewToObject, TreeInv
<1>2. PICK new \in Available :
        heap' = add_item_to_object([heap EXCEPT ![new] = Item(k)], p, n, new)
  BY DEF AddNewToObject
<1>3. new \in Items \ LiveIn(heap) /\ new # p /\ new \notin roots /\ heap \in Heap
  BY <1>1 DEF Available, Live, Owner, TreeOf, Placed
<1>4. PICK h : h = [heap EXCEPT ![new] = Item(k)]
  OBVIOUS
<1>5. TreeOf(h, roots \cup {new}, Kids(heap))
  BY <1>1, <1>3, <1>4, NewRecord, NewItem
<1>6. Owner(h, p) /\ Alone(h, p)
  <2>1. h[new] = Item(k) /\ \A y \in Items \ {new} : h[y] = heap[y]
    BY <1>3, <1>4 DEF Heap
  <2> QED  BY <1>1, <1>3, <2>1, NewRecord DEF Owner, Alone, LiveIn
<1>7. PICK h2 : h2 = [h EXCEPT ![new].name = n]
  OBVIOUS
<1>8. TreeOf(h2, roots \cup {new}, Kids(heap)) /\ Owner(h2, p) /\ Alone(h2, p)
  BY <1>1, <1>3, <1>5, <1>6, <1>7, Renamed
<1>9. TreeOf(add_item_to_array(h2, p, new), (roots \cup {new}) \ {new},
             [Kids(heap) EXCEPT ![p] = Append(Kids(heap)[p], new)])
  BY <1>1, <1>3, <1>8, Added
<1>10. heap' = add_item_to_array(h2, p, new) /\ roots' = roots
       /\ (roots \cup {new}) \ {new} = roots
  BY <1>2, <1>3, <1>4, <1>7 DEF add_item_to_object, AddNewToObject
<1> QED  BY <1>2, <1>9, <1>10, NowKids

\* A reference to x that is called n, and its addition.
Reference(x, n) == [create_reference(x) EXCEPT !.name = n]
AddsReference(p, n, x) ==
    /\ Parent(p) /\ x \in Live /\ p \notin Subtree(x) /\ roots' = roots
    /\ \E new \in Available :
         heap' = add_item_to_array([heap EXCEPT ![new] = Reference(x, n)], p, new)

\* A reference in an array has no name.
LEMMA ReferToArray ==
    ASSUME TreeInv, NEW p, NEW x, AddItemReferenceToArray(p, x)
    PROVE  AddsReference(p, NULL, x)
<1>1. Reference(x, NULL) = create_reference(x)
  BY DEF Reference, create_reference
<1> QED  BY <1>1 DEF AddItemReferenceToArray, AddsReference

\* One in an object is given its name first.
LEMMA ReferToObject ==
    ASSUME TreeInv, NEW p, NEW n \in Names, NEW x, AddItemReferenceToObject(p, n, x)
    PROVE  AddsReference(p, n, x)
<1>1. PICK new \in Available :
        heap' = add_item_to_object([heap EXCEPT ![new] = create_reference(x)], p, n, new)
  BY DEF AddItemReferenceToObject
<1>2. new \in Items /\ heap \in Heap
  BY <1>1 DEF Available, TreeInv, TreeOf
<1>3. [[heap EXCEPT ![new] = create_reference(x)] EXCEPT ![new].name = n]
        = [heap EXCEPT ![new] = Reference(x, n)]
  BY <1>2 DEF Reference, Heap
<1> QED  BY <1>1, <1>3 DEF AddItemReferenceToObject, AddsReference, add_item_to_object

\* A new reference, added.
LEMMA AddReference ==
    ASSUME TreeInv, NEW p, NEW n \in Names \cup {NULL}, NEW x, AddsReference(p, n, x)
    PROVE  /\ TreeInv' /\ roots' = roots
           /\ \E new \in Available :
                /\ heap' = add_item_to_array([heap EXCEPT ![new] = Reference(x, n)], p, new)
                /\ Kids(heap)' = [Kids(heap) EXCEPT ![p] = Append(Kids(heap)[p], new)]
<1>1. /\ p \in Items /\ Owner(heap, p) /\ Alone(heap, p)
      /\ TreeOf(heap, roots, Kids(heap))
  BY ParentIs DEF AddsReference, TreeInv
<1>2. PICK new \in Available :
        heap' = add_item_to_array([heap EXCEPT ![new] = Reference(x, n)], p, new)
  BY DEF AddsReference
<1>3. new \in Items \ LiveIn(heap) /\ new # p /\ new \notin roots /\ heap \in Heap
  BY <1>1 DEF Available, Live, Owner, TreeOf, Placed
<1>4. x \in LiveIn(heap) /\ x # p /\ x \in Items
  <2>1. x \in LiveIn(heap) /\ x \in Items /\ p \notin Subtree(x)
    BY DEF AddsReference, Live, LiveIn
  <2> QED  BY <1>3, <2>1, Reaching DEF Subtree
<1>5. PICK r : r = Reference(x, n)
  OBVIOUS
<1>6. /\ r \in Record /\ r.kind # "free" /\ r.next = NULL /\ r.ref /\ r.child = heap[x].child
      /\ heap[x].child \in Place
  <2>1. heap[x] \in Record /\ heap[x].kind # "free"
    BY <1>3, <1>4 DEF Heap, LiveIn
  <2> QED  BY <1>5, <2>1 DEF Reference, create_reference, Record, Place
<1>7. heap[x].child # NULL =>
        /\ \E q \in Items : Kids(heap)[q] # <<>> /\ heap[x].child = Kids(heap)[q][1]
        /\ heap[x].child # heap[p].child
  <2>1. SUFFICES ASSUME heap[x].child # NULL
                 PROVE  /\ \E q \in Items : /\ Kids(heap)[q] # <<>>
                                            /\ heap[x].child = Kids(heap)[q][1]
                        /\ heap[x].child # heap[p].child
    OBVIOUS
  <2>2. PICK q \in Items : /\ Kids(heap)[q] # <<>> /\ heap[x].child = Kids(heap)[q][1]
                           /\ (~heap[x].ref => q = x)
    BY <1>1, <1>4, <2>1, ChildOf
  <2>3. CASE heap[x].ref
    BY <1>1, <1>4, <2>1, <2>2, <2>3 DEF Alone
  <2>4. CASE ~heap[x].ref
    <3>1. heap[p].child = IF Kids(heap)[p] = <<>> THEN NULL ELSE Kids(heap)[p][1]
      BY <1>1, ListOf DEF Forwards
    <3>2. Kids(heap)[p] # <<>> => Kids(heap)[p][1] # Kids(heap)[q][1]
      <4>1. Disjoint(Kids(heap)) /\ Kids(heap)[p] \in Seq(Items) /\ Kids(heap)[q] \in Seq(Items)
        BY <1>1 DEF TreeOf
      <4>2. Kids(heap)[p] # <<>> => 1 \in 1..Len(Kids(heap)[p]) /\ 1 \in 1..Len(Kids(heap)[q])
        BY <2>2, <4>1
      <4> QED  BY <1>1, <1>4, <2>2, <2>4, <4>1, <4>2 DEF Disjoint
    <3> QED  BY <2>1, <2>2, <3>1, <3>2
  <2> QED  BY <2>2, <2>3, <2>4
<1>8. PICK h : h = [heap EXCEPT ![new] = r]
  OBVIOUS
<1>9. TreeOf(h, roots \cup {new}, Kids(heap))
  BY <1>1, <1>3, <1>6, <1>7, <1>8, NewItem
<1>10. Owner(h, p) /\ Alone(h, p)
  <2>1. h[new] = r /\ \A y \in Items \ {new} : h[y] = heap[y]
    BY <1>3, <1>8 DEF Heap
  <2> QED  BY <1>1, <1>3, <1>6, <1>7, <2>1 DEF Owner, Alone, LiveIn
<1>11. TreeOf(add_item_to_array(h, p, new), (roots \cup {new}) \ {new},
              [Kids(heap) EXCEPT ![p] = Append(Kids(heap)[p], new)])
  BY <1>1, <1>3, <1>9, <1>10, Added
<1>12. heap' = add_item_to_array(h, p, new) /\ roots' = roots
       /\ (roots \cup {new}) \ {new} = roots
  BY <1>2, <1>3, <1>5, <1>8 DEF AddsReference
<1> QED  BY <1>2, <1>11, <1>12, NowKids

\* A copy, whose lists are those of D.
LEMMA Duplicate ==
    ASSUME TreeInv, NEW x, NEW recurse \in BOOLEAN, cJSON_Duplicate(x, recurse)
    PROVE  TreeInv' /\ \E D, L, root :
             /\ IsGraft(heap, heap', Kids(heap), D, L, root) /\ roots' = roots \cup {root}
             /\ Kids(heap)' = With(Kids(heap), D, L)
<1>1. x \in Live /\ x \in LiveIn(heap) /\ TreeOf(heap, roots, Kids(heap))
  BY DEF cJSON_Duplicate, Live, TreeInv
<1>2. PICK deep, C : /\ deep = Cardinality(Items)
                     /\ C = IF recurse THEN Calls(x)[deep] ELSE {<<x>>}
  OBVIOUS
<1>3. recurse => Calls(x)[deep - 1] = Calls(x)[deep]
  BY <1>2 DEF cJSON_Duplicate
<1>4. CallSet(x, C, recurse)
  BY <1>1, <1>2, <1>3, CallsMade
<1>5. PICK at \in Injection(C, Available) :
        heap' = DuplicateOf(C, recurse, at) /\ roots' = roots \cup {at[<<x>>]}
  BY <1>2 DEF cJSON_Duplicate
<1>6. /\ \A c \in C : at[c] \in Available /\ at[c] \in Items
      /\ \A c, e \in C : at[c] = at[e] => c = e
  BY <1>5 DEF Injection, IsInjective, Available
<1>7. PICK D : D = {d \in Items : \E c \in C : d = at[c]}
  OBVIOUS
<1>8. PICK L : L = [d \in D |-> CopiesAt(C, recurse, at)[CHOOSE c \in C : at[c] = d]]
  OBVIOUS
<1>9. AreCopies(C, recurse, at, D, L)
  <2>1. ASSUME NEW c \in C
        PROVE  L[at[c]] = CopiesAt(C, recurse, at)[c]
    <3>1. (CHOOSE e \in C : at[e] = at[c]) = c
      BY <1>6
    <3>2. at[c] \in D
      BY <1>6, <1>7
    <3> QED  BY <1>8, <3>1, <3>2
  <2>2. \A d \in Items : d \in D <=> \E c \in C : d = at[c]
    BY <1>7
  <2> QED  BY <2>1, <2>2, Zenon DEF AreCopies
<1>10. D \in SUBSET Items
  BY <1>7
<1>11. IsGraft(heap, heap', Kids(heap), D, L, at[<<x>>])
  <2>1. IsGraft(heap, DuplicateOf(C, recurse, at), Kids(heap), D, L, at[<<x>>])
    BY <1>1, <1>4, <1>9, <1>10, Copied
  <2> QED  BY <1>5, <2>1
<1>12. TreeOf(heap', roots', With(Kids(heap), D, L))
  BY <1>1, <1>5, <1>11, Grafted
<1>13. TreeInv' /\ Kids(heap)' = With(Kids(heap), D, L)
  BY <1>12, NowKids
<1> QED  BY <1>5, <1>11, <1>13

\* An array of leaves.
LEMMA CreateArray ==
    ASSUME TreeInv, NEW n \in Nat, NEW k \in Kinds, CreateLeafArray(n, k)
    PROVE  TreeInv' /\ \E D, L, root :
             /\ IsGraft(heap, heap', Kids(heap), D, L, root) /\ roots' = roots \cup {root}
             /\ Kids(heap)' = With(Kids(heap), D, L)
<1>1. PICK at \in Injection(0..n, Available) :
        heap' = ArrayOf(n, k, at) /\ roots' = roots \cup {at[0]}
  BY DEF CreateLeafArray
<1>2. /\ \A i \in 0..n : at[i] \in Available /\ at[i] \in Items
      /\ \A i, j \in 0..n : at[i] = at[j] => i = j
      /\ \A i \in 1..n : i \in 0..n /\ i # 0
      /\ 0 \in 0..n
  BY <1>1 DEF Injection, IsInjective, Available
<1>3. PICK D : D = {d \in Items : \E i \in 0..n : d = at[i]}
  OBVIOUS
<1>4. PICK q : q = [i \in 1..n |-> at[i]]
  OBVIOUS
<1>5. PICK L : L = [d \in D |-> IF d = at[0] THEN q ELSE <<>>]
  OBVIOUS
<1>6. /\ \A i \in 0..n : at[i] \in D
      /\ \A d \in D : d = at[0] \/ \E i \in 1..n : d = at[i]
  <2>1. \A i \in 0..n : i = 0 \/ i \in 1..n
    OBVIOUS
  <2> QED  BY <1>2, <1>3, <2>1
<1>7. /\ q \in Seq(D) /\ Len(q) = n /\ \A i \in 1..n : q[i] = at[i]
      /\ L[at[0]] = q /\ \A d \in D \ {at[0]} : L[d] = <<>>
      /\ \A i \in 1..n : at[i] # at[0]
  BY <1>2, <1>4, <1>5, <1>6
<1>8. PICK h2 : h2 = heap'
  OBVIOUS
<1>9. h2[at[0]] = [Item("array") EXCEPT !.child = IF n = 0 THEN NULL ELSE at[1]]
  BY <1>1, <1>2, <1>8 DEF ArrayOf
<1>10. ASSUME NEW i \in 1..n
       PROVE  h2[at[i]] = [Item(k) EXCEPT !.next = IF i = n THEN NULL ELSE at[i + 1],
                                          !.prev = at[IF i = 1 THEN n ELSE i - 1]]
  <2>1. (CHOOSE j \in 1..n : at[i] = at[j]) = i
    BY SMTT(60), <1>2
  <2> QED  BY <1>1, <1>2, <1>7, <1>8, <2>1 DEF ArrayOf
<1>11. \A y \in Items \ D : h2[y] = heap[y]
  <2> TAKE y \in Items \ D
  <2>1. y # at[0] /\ ~\E i \in 1..n : y = at[i]
    BY <1>2, <1>6
  <2> QED  BY <1>1, <1>8, <2>1 DEF ArrayOf
<1>12. /\ h2[at[0]].kind = "array" /\ ~h2[at[0]].ref /\ h2[at[0]].next = NULL
       /\ h2[at[0]].child = (IF n = 0 THEN NULL ELSE at[1])
       /\ h2[at[0]] \in Record
  <2>1. n # 0 => 1 \in 1..n
    OBVIOUS
  <2>2. n # 0 => at[1] \in Items
    BY <1>2, <2>1
  <2> QED  BY <1>9, <2>2 DEF Item, Unused, Record, Place
<1>13. ASSUME NEW i \in 1..n
       PROVE  /\ h2[at[i]].kind # "free" /\ ~h2[at[i]].ref /\ h2[at[i]].child = NULL
              /\ h2[at[i]].next = (IF i = n THEN NULL ELSE at[i + 1])
              /\ h2[at[i]].prev = at[IF i = 1 THEN n ELSE i - 1]
              /\ h2[at[i]] \in Record
  <2>1. PICK nx, pv : /\ nx = IF i = n THEN NULL ELSE at[i + 1]
                      /\ pv = at[IF i = 1 THEN n ELSE i - 1]
    OBVIOUS
  <2>2. nx \in Place /\ pv \in Place
    <3>1. /\ i # n => i + 1 \in 0..n
          /\ (IF i = 1 THEN n ELSE i - 1) \in 0..n
      OBVIOUS
    <3> QED  BY <1>2, <2>1, <3>1 DEF Place
  <2>3. h2[at[i]] = [Item(k) EXCEPT !.next = nx, !.prev = pv]
    BY <1>10, <2>1
  <2>4. PICK r : r = [Item(k) EXCEPT !.next = nx, !.prev = pv]
    OBVIOUS
  <2>5. /\ r \in Record /\ r.kind # "free" /\ ~r.ref /\ r.child = NULL
        /\ r.next = nx /\ r.prev = pv
    BY <2>2, <2>4, NewRecord DEF Item, Unused, Record
  <2> QED  BY <2>1, <2>3, <2>4, <2>5
<1>14. h2 \in Heap
  <2>1. h2 = [y \in Items |-> h2[y]]
    BY <1>1, <1>8 DEF ArrayOf
  <2>2. \A y \in Items : h2[y] \in Record
    BY ZenonT(60), <1>6, <1>11, <1>12, <1>13 DEF TreeInv, TreeOf, Heap
  <2> QED  BY SMTT(60), <2>1, <2>2 DEF Heap
<1>15. Forwards(h2, at[0], q) /\ Backwards(h2, q)
  <2>1. h2[at[0]].child = IF q = <<>> THEN NULL ELSE q[1]
    <3>1. CASE n = 0
      BY <1>7, <1>12, <3>1
    <3>2. CASE n # 0
      <4>1. 1 \in 1..n /\ q # <<>>
        BY <1>7, <3>2
      <4> QED  BY <1>7, <1>12, <3>2, <4>1
    <3> QED  BY <3>1, <3>2
  <2>2. ASSUME NEW i \in 1..n
        PROVE  /\ h2[q[i]].next = IF i = n THEN NULL ELSE q[i + 1]
               /\ h2[q[i]].prev = q[IF i = 1 THEN n ELSE i - 1]
    <3>1. /\ i # n => i + 1 \in 1..n
          /\ (IF i = 1 THEN n ELSE i - 1) \in 1..n
      OBVIOUS
    <3> QED  BY <1>7, <1>13, <3>1
  <2> QED  BY <1>7, <2>1, <2>2 DEF Forwards, Backwards
<1>16. PICK root : root = at[0]
  OBVIOUS
<1>17. \A d \in D : /\ h2[d].kind # "free" /\ L[d] \in Seq(D)
                    /\ IF h2[d].ref THEN L[d] = <<>> /\ RefersTo(h2, Kids(heap), d)
                       ELSE Forwards(h2, d, L[d]) /\ Backwards(h2, L[d])
  <2> TAKE d \in D
  <2>1. CASE d = at[0]
    BY <1>7, <1>12, <1>15, <2>1
  <2>2. CASE d # at[0]
    <3>1. PICK i \in 1..n : d = at[i]
      BY <1>6, <2>2
    <3>2. L[d] = <<>> /\ ~h2[d].ref /\ h2[d].child = NULL /\ h2[d].kind # "free"
      BY <1>7, <1>13, <2>2, <3>1
    <3> QED  BY <3>2 DEF Forwards, Backwards
  <2> QED  BY <2>1, <2>2
<1>18. \A d \in D : \A i \in 1..Len(L[d]) : d = root /\ i \in 1..n /\ L[d][i] = at[i]
  BY <1>7, <1>16
<1>19. \A d, e \in D : \A i \in 1..Len(L[d]), j \in 1..Len(L[e]) :
         L[d][i] = L[e][j] => d = e /\ i = j
  BY <1>2, <1>18
<1>20. \A d \in D : d = root <=> ~\E e \in D : \E i \in 1..Len(L[e]) : L[e][i] = d
  <2> TAKE d \in D
  <2>1. CASE d = root
    BY <1>7, <1>16, <1>18, <2>1
  <2>2. CASE d # root
    <3>1. PICK i \in 1..n : d = at[i]
      BY <1>6, <1>16, <2>2
    <3>2. root \in D /\ i \in 1..Len(L[root]) /\ L[root][i] = d
      BY <1>2, <1>6, <1>7, <1>16, <3>1
    <3> QED  BY <2>2, <3>2
  <2> QED  BY <2>1, <2>2
<1>21. IsGraft(heap, h2, Kids(heap), D, L, root)
  <2>1. D \subseteq Items \ LiveIn(heap) /\ root \in D /\ h2[root].next = NULL
    BY <1>2, <1>3, <1>6, <1>12, <1>16 DEF Available, Live
  <2>2. AllUnder(D, L, root)
    <3>1. SUFFICES ASSUME NEW T \in SUBSET D, root \in T, ListsWithin(L, T), NEW d \in D
                   PROVE  d \in T
      BY DEF AllUnder
    <3>2. \A i \in 1..n : at[i] \in T
      BY <1>7, <1>16, <3>1 DEF ListsWithin
    <3> QED  BY <1>6, <1>16, <3>1, <3>2
  <2> QED  BY <1>11, <1>14, <1>17, <1>19, <1>20, <2>1, <2>2, Zenon DEF IsGraft
<1>22. TreeOf(h2, roots \cup {root}, With(Kids(heap), D, L))
  BY <1>21, Grafted DEF TreeInv
<1>23. TreeInv' /\ Kids(heap)' = With(Kids(heap), D, L)
  BY <1>1, <1>8, <1>16, <1>22, NowKids
<1> QED  BY <1>1, <1>8, <1>16, <1>21, <1>23

-------------------------------------------------------------------------------
(* The invariants. *)

\* No item is in use yet.
LEMMA Start == Init => TreeInv
<1> SUFFICES ASSUME Init  PROVE TreeInv
  OBVIOUS
<1>1. heap = [x \in Items |-> Unused] /\ roots = {} /\ Unused \in Record
  BY DEF Init, Unused, Record, Place
<1>2. \A x \in Items : heap[x].kind = "free"
  BY <1>1 DEF Unused
<1>3. LiveIn(heap) = {}
  BY <1>2 DEF LiveIn
<1>4. NoLists \in [Items -> Seq(Items)] /\ \A p \in Items : NoLists[p] = <<>> /\ Len(NoLists[p]) = 0
  BY DEF NoLists
<1>5. Linked(heap, NoLists) /\ Referring(heap, NoLists)
  BY <1>3, <1>4 DEF Linked, Referring, Owner
<1>6. Disjoint(NoLists) /\ \A x \in Items : ~Within(NoLists, x)
  BY <1>4 DEF Disjoint, Within
<1>7. Placed(heap, roots, NoLists)
  BY <1>1, <1>3, <1>6 DEF Placed
<1>8. TreeOf(heap, roots, NoLists)
  BY <1>1, <1>4, <1>5, <1>6, <1>7 DEF TreeOf, Heap
<1>9. NoLists = Kids(heap)
  BY <1>8, OnlyKids
<1> QED  BY <1>8, <1>9 DEF TreeInv

\* Every operation preserves the invariant.
LEMMA Step == TreeInv /\ [Next]_vars => TreeInv'
<1> SUFFICES ASSUME TreeInv, [Next]_vars  PROVE TreeInv'
  OBVIOUS
<1>1. ASSUME NEW k \in Kinds, Create(k)  PROVE TreeInv'
  BY <1>1, CreateItem
<1>2. ASSUME NEW k \in Kinds, NEW n \in 0..2, CreateLeafArray(n, k)  PROVE TreeInv'
  BY <1>2, CreateArray
<1>3. ASSUME NEW k \in Kinds, NEW x, CreateListReference(k, x)  PROVE TreeInv'
  BY <1>3, ReferToList
<1>4. ASSUME NEW p, NEW x, AddItemToArray(p, x)  PROVE TreeInv'
  BY <1>4, AddToArray
<1>5. ASSUME NEW p, NEW x, AddItemReferenceToArray(p, x)  PROVE TreeInv'
  BY <1>5, ReferToArray, AddReference
<1>6. ASSUME NEW p, NEW x, NEW i \in 0..2, InsertItemInArray(p, i, x)  PROVE TreeInv'
  BY <1>6, Insert
<1>7. ASSUME NEW p, NEW x, NEW i \in 0..2, ReplaceItemInArray(p, i, x)  PROVE TreeInv'
  BY <1>7, ReplaceInArray
<1>8. ASSUME NEW p, NEW x, NEW n \in Names, AddItemToObject(p, n, x)  PROVE TreeInv'
  BY <1>8, AddToObject
<1>9. ASSUME NEW p, NEW x, NEW n \in Names, NEW cs \in BOOLEAN, replace_item_in_object(p, n, x, cs)
      PROVE  TreeInv'
  BY <1>9, ReplaceInObject
<1>10. ASSUME NEW p, DetachItem(p)  PROVE TreeInv'
  BY <1>10, Detach
<1>11. ASSUME NEW p, DeleteItem(p)  PROVE TreeInv'
  BY <1>11, DetachAndDelete
<1>12. ASSUME NEW p, cJSON_Delete(p)  PROVE TreeInv'
  BY <1>12, Delete
<1>13. ASSUME NEW p, NEW n \in Names, NEW k \in Kinds, AddNewToObject(p, n, k)  PROVE TreeInv'
  BY <1>13, AddNew
<1>14. ASSUME NEW x, NEW recurse \in BOOLEAN, cJSON_Duplicate(x, recurse)  PROVE TreeInv'
  BY <1>14, Duplicate
<1>15. ASSUME NEW p, NEW n \in Names, NEW x, AddItemReferenceToObject(p, n, x)  PROVE TreeInv'
  BY <1>15, ReferToObject, AddReference
<1>16. CASE UNCHANGED vars
  BY <1>16, NowKids DEF vars, TreeInv
<1> QED  BY <1>1, <1>2, <1>3, <1>4, <1>5, <1>6, <1>7, <1>8, <1>9, <1>10, <1>11, <1>12, <1>13,
            <1>14, <1>15, <1>16 DEF Next

\* Whatever operations are called, the pointers stand for lists of which no item is in two.
THEOREM AlwaysTree == Spec => []TreeInv
<1>1. Init => TreeInv
  BY Start
<1>2. TreeInv /\ [Next]_vars => TreeInv'
  BY Step
<1> QED  BY <1>1, <1>2, PTL DEF Spec

\* In every list, next and prev agree, the first item points back to the last one, and
\* what is in it is in use.
THEOREM Soundness == Spec => []ListsAreSound
<1>1. TreeInv => ListsAreSound
  <2> SUFFICES ASSUME TreeInv, NEW p \in Live
               PROVE  LET s == Chain(heap, p)
                      IN /\ Len(s) <= Cardinality(Items) /\ ToSet(s) \subseteq Live
                         /\ \A i \in DOMAIN s : heap[s[i]].prev = s[IF i = 1 THEN Len(s) ELSE i - 1]
    BY Zenon DEF ListsAreSound
  <2>1. PICK s : s = Chain(heap, p)
    OBVIOUS
  <2>2. /\ s \in Seq(Items) /\ Once(s) /\ Backwards(heap, s)
        /\ \A i \in 1..Len(s) : s[i] \in Live
    BY <2>1, ListAt DEF TreeInv, Live
  <2>3. Len(s) <= Cardinality(Items)
    BY <2>2, ShortEnough
  <2>4. ToSet(s) \subseteq Live
    BY <2>2, MembersOf
  <2>5. \A i \in DOMAIN s : heap[s[i]].prev = s[IF i = 1 THEN Len(s) ELSE i - 1]
    BY <2>2 DEF Backwards
  <2> QED  BY <2>1, <2>3, <2>4, <2>5
<1> QED  BY <1>1, AlwaysTree, PTL

\* An item is in the caller's hands or in the list of exactly one owner.
THEOREM Ownership == Spec => []OneOwner
<1>1. TreeInv => OneOwner
  <2> SUFFICES ASSUME TreeInv, NEW x \in Live
               PROVE  LET owners == {p \in Live : ~heap[p].ref /\ x \in ToSet(Chain(heap, p))}
                      IN /\ Cardinality(owners) = (IF x \in roots THEN 0 ELSE 1)
                         /\ x \in roots => heap[x].next = NULL
    BY Zenon DEF OneOwner
  <2>1. PICK owners : owners = {p \in Live : ~heap[p].ref /\ x \in ToSet(Chain(heap, p))}
    OBVIOUS
  <2>2. PICK K : K = Kids(heap) /\ TreeOf(heap, roots, K)
    BY DEF TreeInv
  <2>3. \A p \in Live : ~heap[p].ref => K[p] = Chain(heap, p) /\ K[p] \in Seq(Items)
    BY <2>2, ListAt DEF Live
  <2>4. \A p : p \in owners <=> p \in Live /\ ~heap[p].ref /\ \E i \in 1..Len(K[p]) : K[p][i] = x
    BY <2>1, <2>3, MembersOf
  <2>5. /\ Placed(heap, roots, K) /\ Disjoint(K) /\ Linked(heap, K)
        /\ Live \subseteq Items /\ x \in Items
    BY <2>2 DEF TreeOf, Live, LiveIn
  <2>6. CASE x \in roots
    <3>1. ~Within(K, x) /\ heap[x].next = NULL
      BY <2>5, <2>6 DEF Placed
    <3>2. owners = {}
      BY <2>4, <2>5, <3>1 DEF Within
    <3> QED  BY <2>1, <2>6, <3>1, <3>2, FS_EmptySet
  <2>7. CASE x \notin roots
    <3>1. PICK p \in Items : \E i \in 1..Len(K[p]) : K[p][i] = x
      BY <2>5, <2>7 DEF Placed, Within, Live
    <3>2. p \in Live /\ ~heap[p].ref
      <4>1. K[p] # <<>>
        BY <3>1
      <4> QED  BY <2>5, <4>1 DEF Linked, Owner, Live
    <3>3. owners = {p}
      <4>1. p \in owners
        BY <2>4, <3>1, <3>2
      <4>2. \A q \in owners : q = p
        BY <2>4, <2>5, <3>1 DEF Disjoint
      <4> QED  BY <4>1, <4>2
    <3> QED  BY <2>1, <2>7, <3>3, FS_Singleton
  <2> QED  BY <2>6, <2>7
<1> QED  BY <1>1, AlwaysTree, PTL

\* A lookup that ignores case finds the first item of the name, never behind the other one.
THEOREM Lookups == Spec => []LookupsAgree
<1>1. TreeInv => LookupsAgree
  <2> SUFFICES ASSUME TreeInv, NEW p \in Live, NEW n \in Names
               PROVE  LET s == Chain(heap, p)
                          at(x) == CHOOSE i \in DOMAIN s : s[i] = x
                          any == get_object_item(p, n, FALSE)
                          exact == get_object_item(p, n, TRUE)
                      IN /\ exact # NULL => heap[exact].name = n /\ any # NULL /\ at(any) <= at(exact)
                         /\ any # NULL => /\ SameName(n, heap[any].name, FALSE)
                                          /\ \A i \in 1..at(any) - 1 :
                                               ~SameName(n, heap[s[i]].name, FALSE)
                         /\ any = NULL => \A i \in DOMAIN s : ~SameName(n, heap[s[i]].name, FALSE)
                         /\ exact = NULL => \A i \in DOMAIN s :
                              heap[s[i]].name = n => \E j \in 1..i - 1 : heap[s[j]].name = NULL
    BY Zenon DEF LookupsAgree
  <2> DEFINE s == Chain(heap, p)
             at(x) == CHOOSE i \in DOMAIN s : s[i] = x
             any == get_object_item(p, n, FALSE)
             exact == get_object_item(p, n, TRUE)
             stopsAny == {i \in DOMAIN s : SameName(n, heap[s[i]].name, FALSE)}
             stopsExact == {i \in DOMAIN s : SameName(n, heap[s[i]].name, TRUE)
                                             \/ heap[s[i]].name = NULL}
  <2>1. /\ s \in Seq(Items) /\ Once(s) /\ DOMAIN s = 1..Len(s) /\ n # NULL
        /\ \A i \in 1..Len(s) : s[i] # NULL
    <3>1. s \in Seq(Items) /\ Once(s)
      BY ListAt DEF TreeInv, Live
    <3> QED  BY <3>1, JsonTreeAssumption
  <2> HIDE DEF s
  <2>2. /\ any = (IF stopsAny = {} THEN NULL
                 ELSE IF heap[s[Min(stopsAny)]].name = NULL THEN NULL ELSE s[Min(stopsAny)])
        /\ exact = (IF stopsExact = {} THEN NULL
                   ELSE IF heap[s[Min(stopsExact)]].name = NULL THEN NULL ELSE s[Min(stopsExact)])
    <3>1. /\ stopsAny = {i \in DOMAIN s : SameName(n, heap[s[i]].name, FALSE)
                                          \/ (FALSE /\ heap[s[i]].name = NULL)}
          /\ stopsExact = {i \in DOMAIN s : SameName(n, heap[s[i]].name, TRUE)
                                            \/ (TRUE /\ heap[s[i]].name = NULL)}
      OBVIOUS
    <3> HIDE DEF stopsAny, stopsExact
    <3> QED  BY <2>1, <3>1, Zenon DEF get_object_item, s
  <2> HIDE DEF any, exact
  <2>3. /\ stopsAny # {} => Min(stopsAny) \in stopsAny /\ \A i \in stopsAny : Min(stopsAny) <= i
        /\ stopsExact # {} => /\ Min(stopsExact) \in stopsExact
                              /\ \A i \in stopsExact : Min(stopsExact) <= i
    <3>1. stopsAny \subseteq DOMAIN s /\ stopsExact \subseteq DOMAIN s
      BY Zenon
    <3> HIDE DEF stopsAny, stopsExact
    <3>2. stopsAny \in SUBSET Nat /\ stopsExact \in SUBSET Nat
      BY <2>1, <3>1
    <3> QED  BY <3>2, MinOfNaturals
  <2>4. \A i \in 1..Len(s) : at(s[i]) = i
    BY <2>1 DEF Once
  <2> HIDE DEF at
  <2>5. stopsAny # {} => LET i == Min(stopsAny)
                         IN any = s[i] /\ any # NULL /\ at(any) = i /\ i \in 1..Len(s)
    <3>1. SUFFICES ASSUME stopsAny # {}, NEW i, i = Min(stopsAny)
                   PROVE  any = s[i] /\ any # NULL /\ at(any) = i /\ i \in 1..Len(s)
      OBVIOUS
    <3>2. i \in 1..Len(s) /\ SameName(n, heap[s[i]].name, FALSE)
      BY <2>1, <2>3, <3>1
    <3>3. heap[s[i]].name # NULL
      BY SMTT(60), <3>2 DEF SameName
    <3>4. any = s[i]
      BY <2>2, <3>1, <3>3
    <3> QED  BY SMTT(60), <2>1, <2>4, <3>2, <3>4
  <2>6. ASSUME any # NULL, NEW i \in 1..at(any) - 1
        PROVE  ~SameName(n, heap[s[i]].name, FALSE)
    <3>1. stopsAny # {}
      BY <2>2, <2>6
    <3>2. PICK m \in 1..Len(s) : m = Min(stopsAny) /\ at(any) = m
      BY <2>5, <3>1
    <3>3. i \in 1..Len(s) /\ ~(m <= i)
      BY <2>1, <2>6, <3>2
    <3> QED  BY <2>1, <2>3, <3>1, <3>2, <3>3
  <2>7. ASSUME exact # NULL
        PROVE  heap[exact].name = n /\ any # NULL /\ at(any) <= at(exact)
    <3>1. PICK k : k = Min(stopsExact)
      BY ZenonT(60)
    <3>2. stopsExact # {} /\ heap[s[k]].name # NULL /\ exact = s[k]
      BY ZenonT(60), <2>2, <2>7, <3>1
    <3>3. k \in 1..Len(s) /\ SameName(n, heap[s[k]].name, TRUE)
      BY <2>1, <2>3, <3>1, <3>2
    <3>4. heap[s[k]].name = n /\ SameName(n, heap[s[k]].name, FALSE)
      BY <3>3 DEF SameName
    <3>5. k \in stopsAny
      BY <2>1, <3>3, <3>4
    <3>6. Min(stopsAny) <= k /\ any # NULL /\ at(any) = Min(stopsAny)
      BY <2>3, <2>5, <3>5
    <3> QED  BY <2>4, <3>2, <3>3, <3>4, <3>6
  <2>8. ASSUME any # NULL
        PROVE  SameName(n, heap[any].name, FALSE)
    <3>1. PICK k : k = Min(stopsAny)
      BY ZenonT(60)
    <3>2. stopsAny # {} /\ any = s[k]
      BY ZenonT(60), <2>2, <2>8, <3>1
    <3> QED  BY <2>3, <3>1, <3>2
  <2>9. ASSUME any = NULL, NEW i \in DOMAIN s
        PROVE  ~SameName(n, heap[s[i]].name, FALSE)
    <3>1. stopsAny = {}
      BY <2>5, <2>9
    <3> QED  BY <2>9, <3>1
  <2>10. ASSUME exact = NULL, NEW i \in DOMAIN s, heap[s[i]].name = n
         PROVE  \E j \in 1..i - 1 : heap[s[j]].name = NULL
    <3>1. PICK k : k = Min(stopsExact)
      BY ZenonT(60)
    <3>2. i \in stopsExact
      BY <2>1, <2>10 DEF SameName
    <3>3. k \in 1..Len(s) /\ k <= i
      BY <2>1, <2>3, <3>1, <3>2
    <3>4. s[k] # NULL
      BY <2>1, <3>3
    <3>5. heap[s[k]].name = NULL
      BY ZenonT(60), <2>2, <2>10, <3>1, <3>2, <3>4
    <3>6. k # i
      BY <2>1, <2>10, <3>5
    <3>7. i \in Nat /\ k \in 1..i - 1
      BY <2>1, <2>10, <3>3, <3>6
    <3> QED  BY <3>5, <3>7
  <2> QED  BY <2>6, <2>7, <2>8, <2>9, <2>10, Zenon DEF s, at, any, exact
<1> QED  BY <1>1, AlwaysTree, PTL


-------------------------------------------------------------------------------
(* The sequences of JsonForest. *)

\* What is below x is the least set with x and the lists of what is in it.
LeastWithin(K, x, B) ==
    /\ x \in B /\ B \subseteq Items /\ ListsWithin(K, B)
    /\ \A S \in SUBSET Items : x \in S /\ ListsWithin(K, S) => B \subseteq S

\* Below is the least such set.
LEMMA BelowIs ==
    ASSUME NEW K \in [Items -> Seq(Items)], NEW x \in Items
    PROVE  LeastWithin(K, x, Forest!Below(K, x))
<1>0. PICK B : B = Forest!Below(K, x)
  OBVIOUS
<1>1. B = {y \in Items : \A S \in SUBSET Items :
             x \in S /\ (\A z \in S : ToSet(K[z]) \subseteq S) => y \in S}
  BY <1>0, Zenon DEF Forest!Below, Forest!ToSet, ToSet
<1>2. ASSUME NEW S \in SUBSET Items
      PROVE  (\A z \in S : ToSet(K[z]) \subseteq S) <=> ListsWithin(K, S)
  <2>1. \A z \in S : \A y : y \in ToSet(K[z]) <=> \E i \in 1..Len(K[z]) : K[z][i] = y
    BY MembersOf
  <2> QED  BY <2>1 DEF ListsWithin
<1>3. B \subseteq Items
  BY <1>1, Zenon
<1>4. \A y \in Items : y \in B <=> \A S \in SUBSET Items : x \in S /\ ListsWithin(K, S) => y \in S
  BY <1>1, <1>2, Zenon
<1>5. ListsWithin(K, B)
  <2>1. SUFFICES ASSUME NEW y \in B, NEW i \in 1..Len(K[y])  PROVE K[y][i] \in B
    BY DEF ListsWithin
  <2>2. K[y][i] \in Items
    BY <1>3
  <2>3. ASSUME NEW S \in SUBSET Items, x \in S, ListsWithin(K, S)
        PROVE  K[y][i] \in S
    <3>1. y \in S
      BY <1>3, <1>4, <2>3
    <3> QED  BY <2>3, <3>1 DEF ListsWithin
  <2> QED  BY <1>4, <2>2, <2>3
<1>6. x \in B
  BY <1>4
<1> QED  BY <1>0, <1>3, <1>4, <1>5, <1>6 DEF LeastWithin

\* What is freed with an item of the caller is what is in its list, in the lists of that
\* and so on.
LEMMA ReachIsBelow ==
    ASSUME NEW h, NEW R, NEW K, TreeOf(h, R, K), NEW x \in R
    PROVE  Reach(h, x) = Forest!Below(K, x)
<1>1. /\ h \in Heap /\ R \subseteq Items /\ K \in [Items -> Seq(Items)] /\ x \in Items
      /\ Linked(h, K) /\ Placed(h, R, K) /\ h[x].next = NULL
  BY DEF TreeOf, Placed
<1>2. PICK B : B = Forest!Below(K, x)
  OBVIOUS
<1>3. /\ x \in B /\ B \subseteq Items /\ ListsWithin(K, B)
      /\ \A S \in SUBSET Items : x \in S /\ ListsWithin(K, S) => B \subseteq S
  <2>1. LeastWithin(K, x, Forest!Below(K, x))
    BY <1>1, BelowIs, Zenon
  <2> QED  BY <1>2, <2>1 DEF LeastWithin
<1>4. /\ x \in Reach(h, x) /\ Reach(h, x) \subseteq Items /\ Closed(h, Reach(h, x))
      /\ \A S \in SUBSET Items : x \in S /\ Closed(h, S) => Reach(h, x) \subseteq S
  BY <1>1, Reaching
<1>5. ListsWithin(K, Reach(h, x))
  <2>1. SUFFICES ASSUME NEW y \in Reach(h, x), NEW i \in 1..Len(K[y])
                 PROVE  K[y][i] \in Reach(h, x)
    BY DEF ListsWithin
  <2>2. y \in Items /\ K[y] \in Seq(Items) /\ K[y] # <<>>
    BY <1>1, <1>4, <2>1
  <2>3. Owner(h, y)
    BY <1>1, <2>2 DEF Linked
  <2>4. Forwards(h, y, K[y]) /\ ~h[y].ref
    BY <1>1, <2>2, <2>3 DEF Linked, Owner
  <2> QED  BY <1>1, <1>4, <2>2, <2>4, ListReached
<1>6. B \subseteq Reach(h, x)
  BY <1>3, <1>4, <1>5
<1>7. \A y \in B : y = x \/ \E q \in B : \E i \in 1..Len(K[q]) : y = K[q][i]
  <2>1. PICK T : T = {y \in B : y = x \/ \E q \in B : \E i \in 1..Len(K[q]) : y = K[q][i]}
    OBVIOUS
  <2>2. ListsWithin(K, T) /\ T \in SUBSET Items /\ x \in T
    BY <1>3, <2>1 DEF ListsWithin
  <2> QED  BY <1>3, <2>1, <2>2
<1>8. ASSUME NEW y \in B
      PROVE  /\ h[y].next = NULL \/ h[y].next \in B
             /\ h[y].ref \/ h[y].child = NULL \/ h[y].child \in B
  <2>1. h[y].next = NULL \/ h[y].next \in B
    <3>1. CASE y = x
      BY <1>1, <3>1
    <3>2. CASE y # x
      <4>1. PICK q \in B : \E i \in 1..Len(K[q]) : y = K[q][i]
        BY <1>7, <3>2
      <4>2. PICK i \in 1..Len(K[q]) : y = K[q][i]
        BY <4>1
      <4>3. q \in Items /\ K[q] \in Seq(Items) /\ K[q] # <<>>
        BY <1>1, <1>3, <4>2
      <4>4. h[y].next = IF i = Len(K[q]) THEN NULL ELSE K[q][i + 1]
        BY <1>1, <4>2, <4>3 DEF Linked, Forwards
      <4>5. i # Len(K[q]) => i + 1 \in 1..Len(K[q])
        BY <4>2, <4>3
      <4> QED  BY <1>3, <4>4, <4>5 DEF ListsWithin
    <3> QED  BY <3>1, <3>2
  <2>2. ASSUME ~h[y].ref  PROVE h[y].child = NULL \/ h[y].child \in B
    <3>1. y \in Items /\ K[y] \in Seq(Items)
      BY <1>1, <1>3
    <3>2. y \in LiveIn(h)
      <4>1. y \in R \/ Within(K, y)
        BY <1>3, <1>7 DEF Within
      <4> QED  BY <1>1, <3>1, <4>1 DEF Placed
    <3>3. h[y].child = IF K[y] = <<>> THEN NULL ELSE K[y][1]
      BY <1>1, <2>2, <3>1, <3>2 DEF Linked, Owner, Forwards
    <3>4. K[y] # <<>> => 1 \in 1..Len(K[y])
      BY <3>1
    <3> QED  BY <1>3, <3>3, <3>4 DEF ListsWithin
  <2> QED  BY <2>1, <2>2
<1>9. Closed(h, B)
  BY <1>8 DEF Closed
<1>10. Reach(h, x) \subseteq B
  BY <1>3, <1>4, <1>9
<1> QED  BY <1>2, <1>6, <1>10

\* Nothing but pointers between items differs.
Keeps(h, h2) ==
    h2 \in Heap /\ \A y \in Items : h2[y].kind = h[y].kind /\ h2[y].name = h[y].name

\* A pointer of a, which may be no item, is set.
LEMMA SettingKeeps ==
    ASSUME NEW h0, NEW h, Keeps(h0, h), NEW a, NEW v \in Place
    PROVE  /\ Keeps(h0, [h EXCEPT ![a].next = v])
           /\ Keeps(h0, [h EXCEPT ![a].prev = v])
           /\ Keeps(h0, [h EXCEPT ![a].child = v])
<1>1. CASE a \in Items
  BY <1>1 DEF Keeps, Heap, Record, Place
<1>2. CASE a \notin Items
  <2>1. /\ [h EXCEPT ![a].next = v] = h /\ [h EXCEPT ![a].prev = v] = h
        /\ [h EXCEPT ![a].child = v] = h
    BY <1>2 DEF Keeps, Heap
  <2> QED  BY <2>1
<1> QED  BY <1>1, <1>2

\* Nothing changed: kinds and names are kept.
LEMMA NothingKeeps ==
    ASSUME NEW h \in Heap
    PROVE  Keeps(h, h)
  BY DEF Keeps

\* The operations on lists leave kinds and names alone.
LEMMA AddingKeeps ==
    ASSUME NEW h \in Heap, NEW p \in Items, NEW x \in Items
    PROVE  Keeps(h, add_item_to_array(h, p, x))
<1>1. PICK first, last : first = h[p].child /\ last = h[first].prev
  OBVIOUS
<1>2. Keeps(h, h) /\ x \in Place /\ NULL \in Place
  BY NothingKeeps DEF Place
<1>3. CASE first = NULL
  <2>1. PICK h1, h2, h3 : /\ h1 = [h EXCEPT ![p].child = x] /\ h2 = [h1 EXCEPT ![x].prev = x]
                          /\ h3 = [h2 EXCEPT ![x].next = NULL]
    OBVIOUS
  <2>2. Keeps(h, h1)
    BY <1>2, <2>1, SettingKeeps
  <2>3. Keeps(h, h2)
    BY <1>2, <2>1, <2>2, SettingKeeps
  <2>4. Keeps(h, h3)
    BY <1>2, <2>1, <2>3, SettingKeeps
  <2>5. add_item_to_array(h, p, x) = h3
    BY <1>1, <1>3, <2>1 DEF add_item_to_array
  <2> QED  BY <2>4, <2>5
<1>4. CASE first # NULL
  <2>1. last \in Place
    BY <1>1, <1>4 DEF Heap, Record, Place
  <2>2. PICK h1, h2, h3 : /\ h1 = [h EXCEPT ![last].next = x] /\ h2 = [h1 EXCEPT ![x].prev = last]
                          /\ h3 = [h2 EXCEPT ![first].prev = x]
    OBVIOUS
  <2>3. Keeps(h, h1)
    BY <1>2, <2>2, SettingKeeps
  <2>4. Keeps(h, h2)
    BY <2>1, <2>2, <2>3, SettingKeeps
  <2>5. Keeps(h, h3)
    BY <1>2, <2>2, <2>4, SettingKeeps
  <2>6. add_item_to_array(h, p, x) = IF last = NULL THEN h ELSE h3
    BY <1>1, <1>4, <2>2 DEF add_item_to_array, suffix_object
  <2> QED  BY <1>2, <2>5, <2>6
<1> QED  BY <1>3, <1>4

\* Detaching keeps kinds and names.
LEMMA DetachingKeeps ==
    ASSUME NEW h \in Heap, NEW p \in Items, NEW x \in Items
    PROVE  Keeps(h, DetachItemViaPointer(h, p, x))
<1>1. PICK i, first : i = h[x] /\ first = h[p].child
  OBVIOUS
<1>2. i.next \in Place /\ i.prev \in Place /\ NULL \in Place /\ Keeps(h, h)
  <2>1. i \in Record
    BY <1>1 DEF Heap
  <2> QED  BY <2>1, NothingKeeps DEF Record, Place
<1>3. PICK h1 : h1 = IF x # first THEN [h EXCEPT ![i.prev].next = i.next] ELSE h
  OBVIOUS
<1>4. Keeps(h, h1)
  <2>1. Keeps(h, [h EXCEPT ![i.prev].next = i.next])
    BY <1>2, SettingKeeps
  <2> QED  BY <1>2, <1>3, <2>1
<1>5. PICK h2 : h2 = IF i.next # NULL THEN [h1 EXCEPT ![i.next].prev = i.prev] ELSE h1
  OBVIOUS
<1>6. Keeps(h, h2)
  <2>1. Keeps(h, [h1 EXCEPT ![i.next].prev = i.prev])
    BY <1>2, <1>4, SettingKeeps
  <2> QED  BY <1>4, <1>5, <2>1
<1>7. PICK h3 : h3 = IF x = first THEN [h2 EXCEPT ![p].child = i.next]
                     ELSE IF i.next = NULL THEN [h2 EXCEPT ![first].prev = i.prev] ELSE h2
  OBVIOUS
<1>8. Keeps(h, h3)
  <2>1. Keeps(h, [h2 EXCEPT ![p].child = i.next])
    BY <1>2, <1>6, SettingKeeps
  <2>2. Keeps(h, [h2 EXCEPT ![first].prev = i.prev])
    BY <1>2, <1>6, SettingKeeps
  <2> QED  BY <1>6, <1>7, <2>1, <2>2
<1>9. PICK h4, h5 : h4 = [h3 EXCEPT ![x].prev = NULL] /\ h5 = [h4 EXCEPT ![x].next = NULL]
  OBVIOUS
<1>10. Keeps(h, h4)
  BY <1>2, <1>8, <1>9, SettingKeeps
<1>11. Keeps(h, h5)
  BY <1>2, <1>9, <1>10, SettingKeeps
<1>12. DetachItemViaPointer(h, p, x) = h5
  <2>1. h1 = Bypassed(h, p, x)
    BY <1>1, <1>3, Zenon DEF Bypassed
  <2>2. h2 = Rejoined(h, h1, x)
    BY <1>1, <1>5, Zenon DEF Rejoined
  <2>3. h3 = Listed(h, h2, p, x)
    BY <1>1, <1>7, Zenon DEF Listed
  <2>4. h5 = Cleared(h3, x)
    BY <1>9, Zenon DEF Cleared
  <2> QED  BY <2>1, <2>2, <2>3, <2>4, DetachingWrites, Zenon
<1> QED  BY <1>11, <1>12

\* Inserting keeps kinds and names.
LEMMA InsertingKeeps ==
    ASSUME NEW h \in Heap, NEW p \in Items, NEW x \in Items, NEW at \in Items
    PROVE  Keeps(h, InsertItem(h, p, at, x))
<1>1. PICK prev : prev = h[at].prev
  OBVIOUS
<1>2. prev \in Place /\ at \in Place /\ x \in Place /\ Keeps(h, h)
  BY <1>1, NothingKeeps DEF Heap, Record, Place
<1>3. PICK h1, h2, h3 : /\ h1 = [h EXCEPT ![x].next = at] /\ h2 = [h1 EXCEPT ![x].prev = prev]
                        /\ h3 = [h2 EXCEPT ![at].prev = x]
  OBVIOUS
<1>4. Keeps(h, h1)
  BY <1>2, <1>3, SettingKeeps
<1>5. Keeps(h, h2)
  BY <1>2, <1>3, <1>4, SettingKeeps
<1>6. Keeps(h, h3)
  BY <1>2, <1>3, <1>5, SettingKeeps
<1>7. Keeps(h, [h3 EXCEPT ![p].child = x]) /\ Keeps(h, [h3 EXCEPT ![prev].next = x])
  BY <1>2, <1>6, SettingKeeps
<1>8. InsertItem(h, p, at, x) = IF at = h[p].child THEN [h3 EXCEPT ![p].child = x]
                                ELSE [h3 EXCEPT ![prev].next = x]
  BY <1>1, <1>3 DEF InsertItem
<1> QED  BY <1>7, <1>8

\* Taking the place of an item keeps kinds and names.
LEMMA TakingKeeps ==
    ASSUME NEW h \in Heap, NEW p \in Items, NEW x \in Items, NEW r \in Items
    PROVE  Keeps(h, TakePlace(h, p, x, r))
<1>1. Keeps(h, h) /\ r \in Place /\ NULL \in Place /\ h[x].next \in Place /\ h[x].prev \in Place
  BY NothingKeeps DEF Heap, Record, Place
<1>2. PICK a, b : a = [h EXCEPT ![r].next = h[x].next] /\ b = [a EXCEPT ![r].prev = h[x].prev]
  OBVIOUS
<1>3. Keeps(h, a)
  BY <1>1, <1>2, SettingKeeps
<1>4. Keeps(h, b)
  BY <1>1, <1>2, <1>3, SettingKeeps
<1>5. PICK h1 : h1 = Between(h, x, r)
  OBVIOUS
<1>6. Keeps(h, h1)
  <2>1. Keeps(h, [b EXCEPT ![h[x].next].prev = r])
    BY <1>1, <1>4, SettingKeeps
  <2>2. h1 = IF h[x].next # NULL THEN [b EXCEPT ![h[x].next].prev = r] ELSE b
    BY <1>2, <1>5 DEF Between
  <2> QED  BY <1>4, <2>1, <2>2
<1>7. Keeps(h, AsFirst(h1, p, r))
  <2>1. PICK first, v, c : /\ first = h1[p].child /\ v = (IF h1[first].prev = first THEN r ELSE h1[r].prev)
                           /\ c = [h1 EXCEPT ![r].prev = v]
    OBVIOUS
  <2>2. v \in Place
    BY <1>1, <1>6, <2>1 DEF Keeps, Heap, Record
  <2>3. Keeps(h, c)
    BY <1>6, <2>1, <2>2, SettingKeeps
  <2>4. Keeps(h, [c EXCEPT ![p].child = r])
    BY <1>1, <2>3, SettingKeeps
  <2>5. AsFirst(h1, p, r) = [c EXCEPT ![p].child = r]
    <3>1. h1 \in [Items -> Record]
      BY <1>6 DEF Keeps, Heap
    <3> QED  BY <2>1, <3>1 DEF AsFirst
  <2> QED  BY <2>4, <2>5
<1>8. Keeps(h, AsLater(h1, p, r))
  <2>1. PICK c : c = IF h1[r].prev # NULL THEN [h1 EXCEPT ![h1[r].prev].next = r] ELSE h1
    OBVIOUS
  <2>2. Keeps(h, c)
    <3>1. Keeps(h, [h1 EXCEPT ![h1[r].prev].next = r])
      BY <1>1, <1>6, SettingKeeps
    <3> QED  BY <1>6, <2>1, <3>1
  <2>3. Keeps(h, [c EXCEPT ![h1[p].child].prev = r])
    BY <1>1, <2>2, SettingKeeps
  <2>4. AsLater(h1, p, r) = IF c[r].next = NULL THEN [c EXCEPT ![h1[p].child].prev = r] ELSE c
    BY <2>1 DEF AsLater
  <2> QED  BY <2>2, <2>3, <2>4
<1>9. PICK h2 : h2 = IF h[p].child = x THEN AsFirst(h1, p, r) ELSE AsLater(h1, p, r)
  OBVIOUS
<1>10. Keeps(h, h2)
  BY <1>7, <1>8, <1>9
<1>11. PICK h3, h4 : h3 = [h2 EXCEPT ![x].next = NULL] /\ h4 = [h3 EXCEPT ![x].prev = NULL]
  OBVIOUS
<1>12. Keeps(h, h3)
  BY <1>1, <1>10, <1>11, SettingKeeps
<1>13. Keeps(h, h4)
  BY <1>1, <1>11, <1>12, SettingKeeps
<1>14. TakePlace(h, p, x, r) = h4
  BY <1>5, <1>9, <1>11 DEF TakePlace
<1> QED  BY <1>13, <1>14

\* The names in the memory.
NamesOf(h) == [y \in Items |-> h[y].name]

\* Kept kinds and names are the same live items and names in JsonForest.
LEMMA KeptIs ==
    ASSUME NEW h, NEW h2, Keeps(h, h2)
    PROVE  LiveIn(h2) = LiveIn(h) /\ NamesOf(h2) = NamesOf(h)
  BY DEF Keeps, LiveIn, NamesOf

\* What is taken out of a list is the caller's.
LEMMA DetachMaps ==
    ASSUME TreeInv, NEW p, DetachItem(p)
    PROVE  p \in Live /\ \E k \in DOMAIN Kids(heap)[p] : Forest!Detach(p, k)
<1>1. PICK k \in 1..Len(Kids(heap)[p]) :
        /\ roots' = roots \cup {Kids(heap)[p][k]}
        /\ heap' = DetachItemViaPointer(heap, p, Kids(heap)[p][k])
        /\ Kids(heap)' = [Kids(heap) EXCEPT ![p] = RemoveAt(Kids(heap)[p], k)]
  BY Detach
<1>2. p \in Live /\ p \in Items /\ heap \in Heap /\ Kids(heap)[p] \in Seq(Items)
  BY ParentIs DEF DetachItem, Parent, TreeInv, TreeOf
<1>3. Kids(heap)[p][k] \in Items /\ k \in DOMAIN Kids(heap)[p]
  BY <1>2
<1>4. LiveIn(heap') = LiveIn(heap) /\ NamesOf(heap') = NamesOf(heap)
  BY <1>1, <1>2, <1>3, DetachingKeeps, KeptIs
<1>5. Forest!Detach(p, k)
  BY <1>1, <1>3, <1>4, Zenon
     DEF Forest!Detach, Forest!RemoveAt, RemoveAt, Live, NamesOf
<1> QED  BY <1>2, <1>3, <1>5

IsNamed(h, h2, x, n) == h2 = [h EXCEPT ![x].name = n]

\* One name is written, and in JsonForest it is the only one that changes.
LEMMA OneName ==
    ASSUME NEW h \in Heap, NEW x \in Items, NEW n \in Names, NEW h2, IsNamed(h, h2, x, n)
    PROVE  /\ h2 \in Heap /\ LiveIn(h2) = LiveIn(h)
           /\ NamesOf(h2) = [NamesOf(h) EXCEPT ![x] = n]
<1>1. h2 \in Heap
  BY DEF IsNamed, Heap, Record
<1>2. LiveIn(h2) = LiveIn(h)
  BY DEF IsNamed, Heap, Record, LiveIn
<1>3. NamesOf(h2) = [NamesOf(h) EXCEPT ![x] = n]
  BY DEF IsNamed, Heap, Record, NamesOf
<1> QED  BY <1>1, <1>2, <1>3

\* An item of the caller comes last in a list, and there may get a name.
LEMMA AddMaps ==
    ASSUME TreeInv, NEW p, NEW x,
           AddItemToArray(p, x) \/ \E n \in Names : AddItemToObject(p, n, x)
    PROVE  p \in Live /\ x \in roots /\ Forest!Add(p, x)
<1>1. /\ Parent(p) /\ x \in roots /\ x # p /\ x \in Items /\ p \in Live /\ p \in Items
      /\ heap \in Heap
  BY AddableIs, ParentIs
     DEF AddItemToArray, AddItemToObject, Addable, Parent, TreeInv, TreeOf
<1>2. /\ roots' = roots \ {x}
      /\ Kids(heap)' = [Kids(heap) EXCEPT ![p] = Append(Kids(heap)[p], x)]
  BY AddToArray, AddToObject
<1>3. /\ LiveIn(heap') = LiveIn(heap)
      /\ \E n \in Names \cup {NULL} : NamesOf(heap') = [NamesOf(heap) EXCEPT ![x] = n]
  <2>1. CASE AddItemToArray(p, x)
    <3>1. Keeps(heap, heap')
      BY <1>1, <2>1, AddingKeeps DEF AddItemToArray
    <3>2. /\ NamesOf(heap) = [NamesOf(heap) EXCEPT ![x] = heap[x].name]
          /\ heap[x].name \in Names \cup {NULL}
      BY <1>1 DEF NamesOf, Heap, Record
    <3> QED  BY <3>1, <3>2, KeptIs
  <2>2. ASSUME NEW n \in Names, AddItemToObject(p, n, x)
        PROVE  /\ LiveIn(heap') = LiveIn(heap)
               /\ NamesOf(heap') = [NamesOf(heap) EXCEPT ![x] = n]
    <3>1. PICK h : IsNamed(heap, h, x, n)
      BY DEF IsNamed
    <3>2. h \in Heap /\ LiveIn(h) = LiveIn(heap) /\ NamesOf(h) = [NamesOf(heap) EXCEPT ![x] = n]
      BY <1>1, <3>1, OneName
    <3>3. Keeps(h, heap')
      BY <1>1, <2>2, <3>1, <3>2, AddingKeeps DEF IsNamed, AddItemToObject, add_item_to_object
    <3> QED  BY <3>2, <3>3, KeptIs
  <2> QED  BY <2>1, <2>2
<1>4. Forest!Add(p, x)
  BY <1>1, <1>2, <1>3, Zenon
     DEF Forest!Add, Forest!PutIn, Forest!NameMayChange, Live, NamesOf
<1> QED  BY <1>1, <1>4

\* It comes before another item of the list, or last.
LEMMA InsertMaps ==
    ASSUME TreeInv, NEW p, NEW i \in Nat, NEW x, InsertItemInArray(p, i, x)
    PROVE  /\ p \in Live /\ x \in roots
           /\ Forest!Add(p, x) \/ \E k \in DOMAIN Kids(heap)[p] : Forest!Insert(p, k, x)
<1>1. /\ Parent(p) /\ x \in roots /\ x # p /\ x \in Items /\ p \in Live /\ p \in Items
      /\ heap \in Heap /\ roots' = roots \ {x} /\ Kids(heap)[p] \in Seq(Items)
  BY AddableIs, ParentIs DEF InsertItemInArray, Parent, TreeInv, TreeOf
<1>2. Keeps(heap, heap')
  <2>1. CASE get_array_item(p, i) = NULL
    BY <1>1, <2>1, AddingKeeps DEF InsertItemInArray
  <2>2. CASE get_array_item(p, i) # NULL
    <3>1. get_array_item(p, i) \in Items
      BY <1>1, <2>2, ByIndex
    <3> QED  BY <1>1, <2>2, <3>1, InsertingKeeps DEF InsertItemInArray
  <2> QED  BY <2>1, <2>2
<1>3. LiveIn(heap') = LiveIn(heap) /\ NamesOf(heap') = NamesOf(heap)
  BY <1>2, KeptIs
<1>4. CASE Kids(heap)' = [Kids(heap) EXCEPT ![p] = Append(Kids(heap)[p], x)]
  <2>1. /\ NamesOf(heap) = [NamesOf(heap) EXCEPT ![x] = heap[x].name]
        /\ heap[x].name \in Names \cup {NULL}
    BY <1>1 DEF NamesOf, Heap, Record
  <2>2. Forest!Add(p, x)
    BY <1>1, <1>3, <1>4, <2>1, Zenon
       DEF Forest!Add, Forest!PutIn, Forest!NameMayChange, Live, NamesOf
  <2> QED  BY <1>1, <2>2
<1>5. CASE \E k \in 1..Len(Kids(heap)[p]) :
             Kids(heap)' = [Kids(heap) EXCEPT ![p] = InsertAt(Kids(heap)[p], k, x)]
  <2>1. PICK k \in 1..Len(Kids(heap)[p]) :
          Kids(heap)' = [Kids(heap) EXCEPT ![p] = InsertAt(Kids(heap)[p], k, x)]
    BY <1>5
  <2>2. k \in DOMAIN Kids(heap)[p]
    BY <1>1
  <2>3. Forest!Insert(p, k, x)
    BY <1>1, <1>3, <2>1, <2>2, Zenon
       DEF Forest!Insert, Forest!PutIn, Forest!InsertAt, InsertAt, Live, NamesOf
  <2> QED  BY <1>1, <2>2, <2>3
<1> QED  BY <1>4, <1>5, Insert

\* What freeing x leaves.
LEMMA FreedIs ==
    ASSUME NEW h, NEW R, NEW K, TreeOf(h, R, K), NEW x \in R, NEW h2, h2 = Free(h, x)
    PROVE  /\ LiveIn(h2) = LiveIn(h) \ Forest!Below(K, x)
           /\ NamesOf(h2) = [y \in Items |-> IF y \in Forest!Below(K, x) THEN NULL
                                             ELSE NamesOf(h)[y]]
           /\ Without(K, Reach(h, x)) = [y \in Items |-> IF y \in Forest!Below(K, x) THEN <<>>
                                                         ELSE K[y]]
<1>1. PICK F : F = Reach(h, x) /\ F = Forest!Below(K, x)
  BY ReachIsBelow
<1>2. \A y \in Items : h2[y] = IF y \in F THEN Unused ELSE h[y]
  BY <1>1 DEF Free
<1>3. LiveIn(h2) = LiveIn(h) \ F
  BY <1>2 DEF LiveIn, Unused
<1>4. NamesOf(h2) = [y \in Items |-> IF y \in F THEN NULL ELSE NamesOf(h)[y]]
  BY <1>2 DEF NamesOf, Unused
<1> QED  BY <1>1, <1>3, <1>4 DEF Without

\* What is deleted is freed with all that is below it.
LEMMA DeleteMaps ==
    ASSUME TreeInv, NEW x, cJSON_Delete(x)
    PROVE  x \in roots /\ Forest!Delete(x)
<1>1. /\ x \in roots /\ roots' = roots \ {x} /\ heap' = Free(heap, x)
      /\ Kids(heap)' = Without(Kids(heap), Reach(heap, x))
      /\ TreeOf(heap, roots, Kids(heap))
  BY Delete DEF TreeInv
<1>2. PICK B : B = Forest!Below(Kids(heap), x)
  OBVIOUS
<1>3. /\ LiveIn(heap') = LiveIn(heap) \ B
      /\ NamesOf(heap') = [y \in Items |-> IF y \in B THEN NULL ELSE NamesOf(heap)[y]]
      /\ Kids(heap)' = [y \in Items |-> IF y \in B THEN <<>> ELSE Kids(heap)[y]]
  BY <1>1, <1>2, FreedIs
<1>4. Forest!Free(Kids(heap), x)
  BY <1>2, <1>3, Zenon DEF Forest!Free, Live
<1>5. [y \in Items |-> heap[y].name]' = Forest!Nameless(B)
  BY <1>3 DEF NamesOf, Forest!Nameless
<1>6. Forest!Delete(x)
  BY <1>1, <1>2, <1>4, <1>5, Zenon DEF Forest!Delete
<1> QED  BY <1>1, <1>6

\* DeleteItem is a DropChild of JsonForest.
LEMMA DropChildMaps ==
    ASSUME TreeInv, NEW p, DeleteItem(p)
    PROVE  p \in Live /\ \E k \in DOMAIN Kids(heap)[p] : Forest!DropChild(p, k)
<1>1. PICK k \in 1..Len(Kids(heap)[p]) : \E h :
        LET x == Kids(heap)[p][k]
        IN /\ roots' = roots /\ h = DetachItemViaPointer(heap, p, x)
           /\ TreeOf(h, roots \cup {x}, [Kids(heap) EXCEPT ![p] = RemoveAt(Kids(heap)[p], k)])
           /\ heap' = Free(h, x)
           /\ Kids(heap)' = Without([Kids(heap) EXCEPT ![p] = RemoveAt(Kids(heap)[p], k)],
                                    Reach(h, x))
  BY DetachAndDelete
<1>2. PICK h, x, K : /\ x = Kids(heap)[p][k] /\ roots' = roots
                     /\ h = DetachItemViaPointer(heap, p, x) /\ heap' = Free(h, x)
                     /\ K = [Kids(heap) EXCEPT ![p] = RemoveAt(Kids(heap)[p], k)]
                     /\ TreeOf(h, roots \cup {x}, K)
                     /\ Kids(heap)' = Without(K, Reach(h, x))
  BY <1>1
<1>3. p \in Live /\ p \in Items /\ heap \in Heap /\ Kids(heap)[p] \in Seq(Items)
  BY ParentIs DEF DeleteItem, Parent, TreeInv, TreeOf
<1>4. x \in Items /\ k \in DOMAIN Kids(heap)[p] /\ x \in roots \cup {x}
  BY <1>2, <1>3
<1>5. LiveIn(h) = LiveIn(heap) /\ NamesOf(h) = NamesOf(heap)
  BY <1>2, <1>3, <1>4, DetachingKeeps, KeptIs
<1>6. PICK B, R, h2 : B = Forest!Below(K, x) /\ R = roots \cup {x} /\ h2 = heap'
  OBVIOUS
<1>7. /\ LiveIn(heap') = LiveIn(heap) \ B
      /\ NamesOf(heap') = [y \in Items |-> IF y \in B THEN NULL ELSE NamesOf(heap)[y]]
      /\ Kids(heap)' = [y \in Items |-> IF y \in B THEN <<>> ELSE K[y]]
  <2>1. TreeOf(h, R, K) /\ x \in R /\ h2 = Free(h, x)
    BY <1>2, <1>4, <1>6
  <2>2. /\ LiveIn(h2) = LiveIn(h) \ B
        /\ NamesOf(h2) = [y \in Items |-> IF y \in B THEN NULL ELSE NamesOf(h)[y]]
        /\ Without(K, Reach(h, x)) = [y \in Items |-> IF y \in B THEN <<>> ELSE K[y]]
    BY <1>6, <2>1, FreedIs
  <2> QED  BY <1>2, <1>5, <1>6, <2>2
<1>8. Forest!Free(K, x)
  BY <1>6, <1>7, Zenon DEF Forest!Free, Live
<1>9. [y \in Items |-> heap[y].name]' = Forest!Nameless(B)
  BY <1>7 DEF NamesOf, Forest!Nameless
<1>10. Forest!DropChild(p, k)
  BY <1>2, <1>4, <1>6, <1>8, <1>9, Zenon DEF Forest!DropChild, Forest!RemoveAt, RemoveAt
<1> QED  BY <1>3, <1>4, <1>10

\* An item of the caller takes the place of another, which is freed; h is the memory with
\* the name that the new one is given.
LEMMA ReplacedMaps ==
    ASSUME NEW p, p \in Live, p \in Items, NEW r \in roots, r # p, NEW h, h \in Heap,
           TreeOf(heap, roots, Kids(heap)), NEW k \in 1..Len(Kids(heap)[p]),
           ReplacedBy(h, p, k, r), LiveIn(h) = LiveIn(heap), NEW n \in Names \cup {NULL},
           NamesOf(h) = [NamesOf(heap) EXCEPT ![r] = n]
    PROVE  \E i \in DOMAIN Kids(heap)[p] : Forest!Replace(p, i, r)
<1>1. PICK x, h2, K2 :
        /\ x = Kids(heap)[p][k] /\ h2 = TakePlace(h, p, x, r)
        /\ K2 = [Kids(heap) EXCEPT ![p] = ReplaceAt(Kids(heap)[p], k, r)]
        /\ TreeOf(h2, (roots \ {r}) \cup {x}, K2)
        /\ heap' = Free(h2, x) /\ roots' = roots \ {r}
        /\ Kids(heap)' = Without(K2, Reach(h2, x))
  BY DEF ReplacedBy
<1>2. /\ Kids(heap)[p] \in Seq(Items) /\ x \in Items /\ k \in DOMAIN Kids(heap)[p]
      /\ r \in Items /\ r \in LiveIn(heap)
  BY <1>1 DEF TreeOf, Placed
<1>3. LiveIn(h2) = LiveIn(heap) /\ NamesOf(h2) = [NamesOf(heap) EXCEPT ![r] = n]
  BY <1>1, <1>2, TakingKeeps, KeptIs
<1>4. PICK B, R, h3 : B = Forest!Below(K2, x) /\ R = (roots \ {r}) \cup {x} /\ h3 = heap'
  OBVIOUS
<1>5. /\ LiveIn(heap') = LiveIn(heap) \ B
      /\ NamesOf(heap') = [y \in Items |-> IF y \in B THEN NULL ELSE NamesOf(h2)[y]]
      /\ Kids(heap)' = [y \in Items |-> IF y \in B THEN <<>> ELSE K2[y]]
  <2>1. TreeOf(h2, R, K2) /\ x \in R /\ h3 = Free(h2, x)
    BY <1>1, <1>4
  <2>2. /\ LiveIn(h3) = LiveIn(h2) \ B
        /\ NamesOf(h3) = [y \in Items |-> IF y \in B THEN NULL ELSE NamesOf(h2)[y]]
        /\ Without(K2, Reach(h2, x)) = [y \in Items |-> IF y \in B THEN <<>> ELSE K2[y]]
    BY <1>4, <2>1, FreedIs
  <2> QED  BY <1>1, <1>3, <1>4, <2>2
<1>6. Forest!Free(K2, x)
  BY <1>4, <1>5, Zenon DEF Forest!Free, Live
<1>7. PICK m \in Names \cup {NULL} : m = IF r \in B THEN NULL ELSE n
  OBVIOUS
<1>8. [y \in Items |-> heap[y].name]' = [Forest!Nameless(B) EXCEPT ![r] = m]
  <2>1. [y \in Items |-> heap[y].name]' = NamesOf(heap')
    BY DEF NamesOf
  <2>2. Forest!Nameless(B) = [y \in Items |-> IF y \in B THEN NULL ELSE NamesOf(heap)[y]]
    BY DEF NamesOf, Forest!Nameless
  <2>3. NamesOf(h2)[r] = n /\ \A y \in Items \ {r} : NamesOf(h2)[y] = NamesOf(heap)[y]
    BY <1>2, <1>3 DEF NamesOf
  <2> QED  BY <1>2, <1>5, <1>7, <2>1, <2>2, <2>3
<1>9. Forest!Replace(p, k, r)
  BY <1>1, <1>2, <1>4, <1>6, <1>8, Zenon DEF Forest!Replace, Forest!ReplaceAt, ReplaceAt
<1> QED  BY <1>2, <1>9

\* ReplaceItemInArray is a Replace of JsonForest.
LEMMA ReplaceArrayMaps ==
    ASSUME TreeInv, NEW p, NEW i \in Nat, NEW r, ReplaceItemInArray(p, i, r)
    PROVE  /\ p \in Live /\ r \in roots
           /\ \E k \in DOMAIN Kids(heap)[p] : Forest!Replace(p, k, r)
<1>1. /\ r \in roots /\ r # p /\ r \in Items /\ p \in Live /\ p \in Items /\ heap \in Heap
      /\ TreeOf(heap, roots, Kids(heap))
  BY AddableIs, ParentIs DEF ReplaceItemInArray, Parent, TreeInv, TreeOf
<1>2. PICK k \in 1..Len(Kids(heap)[p]) : ReplacedBy(heap, p, k, r)
  BY ReplaceInArray
<1>3. PICK n \in Names \cup {NULL} : NamesOf(heap) = [NamesOf(heap) EXCEPT ![r] = n]
  <2>1. /\ NamesOf(heap) = [NamesOf(heap) EXCEPT ![r] = heap[r].name]
        /\ heap[r].name \in Names \cup {NULL}
    BY <1>1 DEF NamesOf, Heap, Record
  <2> QED  BY <2>1
<1> QED  BY <1>1, <1>2, <1>3, ReplacedMaps

\* replace_item_in_object is a Replace of JsonForest, or a Rename if nothing is found.
LEMMA ReplaceObjectMaps ==
    ASSUME TreeInv, NEW p, NEW n \in Names, NEW r, NEW cs \in BOOLEAN,
           replace_item_in_object(p, n, r, cs)
    PROVE  /\ p \in Live /\ r \in roots
           /\ Forest!Rename(r) \/ \E k \in DOMAIN Kids(heap)[p] : Forest!Replace(p, k, r)
<1>1. /\ r \in roots /\ r # p /\ r \in Items /\ p \in Live /\ p \in Items /\ heap \in Heap
      /\ TreeOf(heap, roots, Kids(heap))
  BY AddableIs, ParentIs DEF replace_item_in_object, Parent, TreeInv, TreeOf
<1>2. PICK h : /\ IsNamed(heap, h, r, n)
               /\ \/ heap' = h /\ roots' = roots /\ Kids(heap)' = Kids(heap)
                  \/ \E k \in 1..Len(Kids(heap)[p]) : ReplacedBy(h, p, k, r)
  BY ReplaceInObject DEF IsNamed
<1>3. h \in Heap /\ LiveIn(h) = LiveIn(heap) /\ NamesOf(h) = [NamesOf(heap) EXCEPT ![r] = n]
  BY <1>1, <1>2, OneName
<1>4. CASE heap' = h /\ roots' = roots /\ Kids(heap)' = Kids(heap)
  <2>1. Forest!Rename(r)
    BY <1>1, <1>3, <1>4, Zenon DEF Forest!Rename, Forest!NameMayChange, Live, NamesOf
  <2> QED  BY <1>1, <2>1
<1>5. CASE \E k \in 1..Len(Kids(heap)[p]) : ReplacedBy(h, p, k, r)
  <2>1. PICK k \in 1..Len(Kids(heap)[p]) : ReplacedBy(h, p, k, r)
    BY <1>5
  <2>2. n \in Names \cup {NULL}
    OBVIOUS
  <2> QED  BY <1>1, <1>3, <2>1, <2>2, ReplacedMaps
<1> QED  BY <1>2, <1>4, <1>5

\* New items leave the old ones where they are.
LEMMA CreateMaps ==
    ASSUME TreeInv, TreeInv', roots \subseteq roots', NEW new \in Available,
           heap'[new].kind # "free",
           \A x \in Live : /\ heap'[x].kind = heap[x].kind /\ heap'[x].name = heap[x].name
                           /\ \/ Kids(heap)'[x] = Kids(heap)[x]
                              \/ \E y \in Items : Kids(heap)'[x] = Append(Kids(heap)[x], y)
    PROVE  Forest!Next
<1>1. Kids(heap) \in [Items -> Seq(Items)] /\ Live \subseteq Items
  BY DEF TreeInv, TreeOf, Live, LiveIn
<1>2. Live \subseteq LiveIn(heap') /\ new \in LiveIn(heap') /\ new \notin Live
  BY DEF Live, LiveIn, Available
<1>3. ASSUME NEW x \in Live
      PROVE  /\ SubSeq(Kids(heap)'[x], 1, Len(Kids(heap)[x])) = Kids(heap)[x]
             /\ Len(Kids(heap)'[x]) <= Len(Kids(heap)[x]) + 1
             /\ [y \in Items |-> heap[y].name]'[x] = [y \in Items |-> heap[y].name][x]
  <2>1. PICK s, t : s = Kids(heap)[x] /\ t = Kids(heap)'[x]
    OBVIOUS
  <2>2. s \in Seq(Items)
    BY <1>1, <2>1
  <2>3. t = s \/ \E y \in Items : t = Append(s, y)
    BY <2>1
  <2>4. SubSeq(t, 1, Len(s)) = s /\ Len(t) <= Len(s) + 1
    <3>1. CASE t = s
      BY <2>2, <3>1
    <3>2. ASSUME NEW y \in Items, t = Append(s, y)
          PROVE  SubSeq(t, 1, Len(s)) = s /\ Len(t) <= Len(s) + 1
      BY <2>2, <3>2
    <3> QED  BY <2>3, <3>1, <3>2
  <2>5. [y \in Items |-> heap[y].name]'[x] = [y \in Items |-> heap[y].name][x]
    BY <1>1
  <2> QED  BY <2>1, <2>4, <2>5
<1>4. Forest!Create
  BY <1>2, <1>3, Zenon DEF Forest!Create, Live
<1> QED  BY <1>4, Zenon DEF Forest!Next

HasNew(h, new) == h[new].kind # "free" /\ \A y \in Items \ {new} : h[y] = heap[y]
MakesOne(new) == HasNew(heap', new) /\ roots' = roots \cup {new} /\ Kids(heap)' = Kids(heap)
AddsOne(p, new) ==
    /\ \E h : HasNew(h, new) /\ Keeps(h, heap')
    /\ roots' = roots /\ Kids(heap)' = [Kids(heap) EXCEPT ![p] = Append(Kids(heap)[p], new)]

\* One item more at the top is a Create of JsonForest.
LEMMA MakesOneMaps ==
    ASSUME TreeInv, TreeInv', NEW new \in Available, MakesOne(new)
    PROVE  Forest!Next
<1>1. new \in Items \ Live /\ Live \subseteq Items
  BY DEF Available, Live, LiveIn
<1>2. /\ heap'[new].kind # "free" /\ roots \subseteq roots'
      /\ \A x \in Live : heap'[x] = heap[x] /\ Kids(heap)'[x] = Kids(heap)[x]
  BY <1>1 DEF MakesOne, HasNew
<1> QED  BY <1>2, CreateMaps

\* One new item behind a list is a Create of JsonForest.
LEMMA AddsOneMaps ==
    ASSUME TreeInv, TreeInv', NEW p, NEW new \in Available, AddsOne(p, new)
    PROVE  Forest!Next
<1>1. /\ new \in Items \ Live /\ Live \subseteq Items /\ roots' = roots
      /\ Kids(heap) \in [Items -> Seq(Items)]
  BY DEF Available, TreeInv, TreeOf, Live, LiveIn, AddsOne
<1>2. heap'[new].kind # "free"
      /\ \A x \in Live : heap'[x].kind = heap[x].kind /\ heap'[x].name = heap[x].name
  BY <1>1 DEF AddsOne, Keeps, HasNew
<1>3. \A x \in Live : \/ Kids(heap)'[x] = Kids(heap)[x]
                      \/ \E y \in Items : Kids(heap)'[x] = Append(Kids(heap)[x], y)
  BY <1>1 DEF AddsOne
<1> QED  BY <1>1, <1>2, <1>3, CreateMaps

\* Create makes one item.
LEMMA MadeItem ==
    ASSUME TreeInv, NEW k \in Kinds, Create(k)
    PROVE  \E new \in Available : MakesOne(new)
<1>1. PICK new \in Available : /\ heap' = [heap EXCEPT ![new] = Item(k)]
                               /\ roots' = roots \cup {new} /\ Kids(heap)' = Kids(heap)
  BY CreateItem
<1>2. new \in Items /\ heap \in Heap
  BY DEF Available, TreeInv, TreeOf
<1>3. HasNew(heap', new)
  BY <1>1, <1>2, NewRecord DEF HasNew, Heap
<1> QED  BY <1>1, <1>3 DEF MakesOne

\* CreateListReference makes one item.
LEMMA MadeReference ==
    ASSUME TreeInv, NEW k \in Kinds, NEW x, CreateListReference(k, x)
    PROVE  \E new \in Available : MakesOne(new)
<1>1. PICK new \in Available :
        /\ heap' = [heap EXCEPT ![new] = [Item(k) EXCEPT !.ref = TRUE, !.child = x]]
        /\ roots' = roots \cup {new} /\ Kids(heap)' = Kids(heap)
  BY ReferToList
<1>2. new \in Items /\ heap \in Heap
  BY DEF Available, TreeInv, TreeOf
<1>3. PICK r : r = [Item(k) EXCEPT !.ref = TRUE, !.child = x]
  OBVIOUS
<1>4. r.kind # "free"
  BY <1>3, NewRecord DEF Record
<1>5. HasNew(heap', new)
  BY <1>1, <1>2, <1>3, <1>4 DEF HasNew, Heap
<1> QED  BY <1>1, <1>5 DEF MakesOne

\* AddNewToObject makes one item and adds it.
LEMMA AddedNew ==
    ASSUME TreeInv, NEW p, NEW n \in Names, NEW k \in Kinds, AddNewToObject(p, n, k)
    PROVE  Parent(p) /\ \E new \in Available : AddsOne(p, new)
<1>1. PICK new \in Available :
        /\ heap' = add_item_to_object([heap EXCEPT ![new] = Item(k)], p, n, new)
        /\ Kids(heap)' = [Kids(heap) EXCEPT ![p] = Append(Kids(heap)[p], new)]
  BY AddNew
<1>2. /\ p \in Items /\ new \in Items /\ heap \in Heap /\ TreeInv' /\ roots' = roots
      /\ Parent(p)
  BY AddNew, ParentIs DEF AddNewToObject, Available, TreeInv, TreeOf
<1>3. PICK a : a = [heap EXCEPT ![new] = Item(k)]
  OBVIOUS
<1>4. a \in Heap /\ a[new].kind # "free" /\ \A y \in Items \ {new} : a[y] = heap[y]
  BY <1>2, <1>3, NewRecord DEF Heap
<1>5. PICK h : IsNamed(a, h, new, n)
  BY DEF IsNamed
<1>6. h \in Heap /\ HasNew(h, new)
  BY <1>2, <1>4, <1>5 DEF IsNamed, HasNew, Heap, Record
<1>7. heap' = add_item_to_array(h, p, new)
  BY <1>1, <1>3, <1>5 DEF IsNamed, add_item_to_object
<1>8. Keeps(h, heap')
  BY <1>2, <1>6, <1>7, AddingKeeps
<1> QED  BY <1>1, <1>2, <1>6, <1>8 DEF AddsOne

\* Adding a reference makes one item and adds it.
LEMMA AddedReference ==
    ASSUME TreeInv, NEW p, NEW n \in Names \cup {NULL}, NEW x, AddsReference(p, n, x)
    PROVE  Parent(p) /\ \E new \in Available : AddsOne(p, new)
<1>1. PICK new \in Available :
        /\ heap' = add_item_to_array([heap EXCEPT ![new] = Reference(x, n)], p, new)
        /\ Kids(heap)' = [Kids(heap) EXCEPT ![p] = Append(Kids(heap)[p], new)]
  BY AddReference
<1>2. /\ p \in Items /\ new \in Items /\ heap \in Heap /\ TreeInv' /\ roots' = roots
      /\ x \in LiveIn(heap) /\ Parent(p)
  BY AddReference, ParentIs DEF AddsReference, Available, TreeInv, TreeOf, Live
<1>3. PICK h, r : h = [heap EXCEPT ![new] = r] /\ r = Reference(x, n)
  OBVIOUS
<1>4. r \in Record /\ r.kind # "free"
  <2>1. heap[x] \in Record /\ heap[x].kind # "free"
    BY <1>2 DEF Heap, LiveIn
  <2> QED  BY <1>3, <2>1 DEF Reference, create_reference, Record, Place
<1>5. h \in Heap /\ HasNew(h, new)
  BY <1>2, <1>3, <1>4 DEF Heap, HasNew
<1>6. Keeps(h, heap')
  BY <1>1, <1>2, <1>3, <1>5, AddingKeeps
<1> QED  BY <1>1, <1>2, <1>5, <1>6 DEF AddsOne

\* A copy, or an array made at once.
LEMMA GraftMaps ==
    ASSUME TreeInv, TreeInv', NEW D, NEW L, NEW root,
           IsGraft(heap, heap', Kids(heap), D, L, root), roots' = roots \cup {root},
           Kids(heap)' = With(Kids(heap), D, L)
    PROVE  Forest!Next
<1>1. /\ D \subseteq Items \ Live /\ root \in D /\ heap'[root].kind # "free"
      /\ \A y \in Items \ D : heap'[y] = heap[y]
  BY DEF IsGraft, Live
<1>2. root \in Available /\ Live \subseteq Items \ D
  BY <1>1 DEF Available, Live, LiveIn
<1>3. \A x \in Live : Kids(heap)'[x] = Kids(heap)[x] /\ heap'[x] = heap[x]
  BY <1>1, <1>2 DEF With
<1> QED  BY <1>1, <1>2, <1>3, CreateMaps

\* Every operation does to the lists what JsonForest says of sequences.
THEOREM Refinement == Spec => ImplementsForest
<1>1. Init => Forest!Init
  <2> SUFFICES ASSUME Init  PROVE Forest!Init
    OBVIOUS
  <2>1. heap = [x \in Items |-> Unused] /\ roots = {}
    BY DEF Init
  <2>2. Live = {} /\ [x \in Items |-> heap[x].name] = [x \in Items |-> NULL]
    BY <2>1 DEF Live, LiveIn, Unused
  <2>3. Kids(heap) = [x \in Items |-> <<>>]
    BY <2>2 DEF Kids, Live
  <2> QED  BY <2>1, <2>2, <2>3 DEF Forest!Init
<1>2. TreeInv /\ TreeInv' /\ [Next]_vars => [Forest!Next]_(Forest!fvars)
  <2> SUFFICES ASSUME TreeInv, TreeInv', [Next]_vars
               PROVE  Forest!Next \/ UNCHANGED Forest!fvars
    OBVIOUS
  <2>1. ASSUME NEW k \in Kinds, Create(k)  PROVE Forest!Next
    BY <2>1, MadeItem, MakesOneMaps
  <2>2. ASSUME NEW k \in Kinds, NEW n \in 0..2, CreateLeafArray(n, k)  PROVE Forest!Next
    BY <2>2, CreateArray, GraftMaps
  <2>3. ASSUME NEW k \in Kinds, NEW x, CreateListReference(k, x)  PROVE Forest!Next
    BY <2>3, MadeReference, MakesOneMaps
  <2>4. ASSUME NEW p, NEW x, AddItemToArray(p, x)  PROVE Forest!Next
    BY <2>4, AddMaps, Zenon DEF Forest!Next
  <2>5. ASSUME NEW p, NEW x, AddItemReferenceToArray(p, x)  PROVE Forest!Next
    BY <2>5, ReferToArray, AddedReference, AddsOneMaps
  <2>6. ASSUME NEW p, NEW x, NEW i \in 0..2, InsertItemInArray(p, i, x)  PROVE Forest!Next
    <3>1. i \in Nat
      OBVIOUS
    <3> QED  BY <2>6, <3>1, InsertMaps, Zenon DEF Forest!Next
  <2>7. ASSUME NEW p, NEW x, NEW i \in 0..2, ReplaceItemInArray(p, i, x)  PROVE Forest!Next
    <3>1. i \in Nat
      OBVIOUS
    <3> QED  BY <2>7, <3>1, ReplaceArrayMaps, Zenon DEF Forest!Next
  <2>8. ASSUME NEW p, NEW x, NEW n \in Names, AddItemToObject(p, n, x)  PROVE Forest!Next
    BY <2>8, AddMaps, Zenon DEF Forest!Next
  <2>9. ASSUME NEW p, NEW x, NEW n \in Names, NEW cs \in BOOLEAN,
               replace_item_in_object(p, n, x, cs)
        PROVE  Forest!Next
    BY <2>9, ReplaceObjectMaps, Zenon DEF Forest!Next
  <2>10. ASSUME NEW p, DetachItem(p)  PROVE Forest!Next
    BY <2>10, DetachMaps, Zenon DEF Forest!Next
  <2>11. ASSUME NEW p, DeleteItem(p)  PROVE Forest!Next
    BY <2>11, DropChildMaps, Zenon DEF Forest!Next
  <2>12. ASSUME NEW p, cJSON_Delete(p)  PROVE Forest!Next
    BY <2>12, DeleteMaps, Zenon DEF Forest!Next
  <2>13. ASSUME NEW p, NEW n \in Names, NEW k \in Kinds, AddNewToObject(p, n, k)
         PROVE  Forest!Next
    BY <2>13, AddedNew, AddsOneMaps
  <2>14. ASSUME NEW x, NEW recurse \in BOOLEAN, cJSON_Duplicate(x, recurse)  PROVE Forest!Next
    BY <2>14, Duplicate, GraftMaps
  <2>15. ASSUME NEW p, NEW n \in Names, NEW x, AddItemReferenceToObject(p, n, x)
         PROVE  Forest!Next
    BY <2>15, ReferToObject, AddedReference, AddsOneMaps
  <2>16. CASE UNCHANGED vars
    <3>1. heap' = heap /\ roots' = roots
      BY <2>16 DEF vars
    <3>2. Kids(heap)' = Kids(heap) /\ Live' = Live
      BY <3>1 DEF Kids, Live, LiveIn, Chain
    <3> QED  BY <3>1, <3>2 DEF Forest!fvars
  <2> QED  BY <2>1, <2>2, <2>3, <2>4, <2>5, <2>6, <2>7, <2>8, <2>9, <2>10, <2>11, <2>12, <2>13,
              <2>14, <2>15, <2>16 DEF Next
<1> QED  BY <1>1, <1>2, AlwaysTree, PTL DEF Spec, ImplementsForest, Forest!Spec

-------------------------------------------------------------------------------
(* Nothing is lost. *)

\* What holds R and the lists of what it holds, holds V.
Held(R, K, V) == \A S \in SUBSET Items : R \subseteq S /\ ListsWithin(K, S) => V \subseteq S
HeldInv == Held(roots, Kids(heap), Live)

\* s has what q had, or R2 has it.
Passes(q, s, R2) == ToSet(q) \subseteq ToSet(s) \cup R2

\* x of R goes to the list of p, which is not below it; what leaves that list is in R2.
LEMMA HeldMoved ==
    ASSUME NEW R \in SUBSET Items, NEW K \in [Items -> Seq(Items)], NEW V, Held(R, K, V),
           NEW x \in R, NEW p \in V, p \in Items, p \notin Forest!Below(K, x),
           NEW s \in Seq(Items), NEW R2, R \ {x} \subseteq R2,
           Passes(K[p], s, R2), x \in ToSet(s)
    PROVE  Held(R2, [K EXCEPT ![p] = s], V)
<1>0. PICK B : B = Forest!Below(K, x)
  OBVIOUS
<1>1. PICK K2 : K2 = [K EXCEPT ![p] = s]
  OBVIOUS
<1>2. K2[p] = s /\ \A q \in Items \ {p} : K2[q] = K[q]
  BY <1>1
<1>3. x \in B /\ B \subseteq Items /\ ListsWithin(K, B) /\ p \notin B
  <2>1. x \in Items
    OBVIOUS
  <2>2. LeastWithin(K, x, Forest!Below(K, x))
    BY <2>1, BelowIs, Zenon
  <2> QED  BY <1>0, <2>2 DEF LeastWithin
<1>4. SUFFICES ASSUME NEW S \in SUBSET Items, R2 \subseteq S, ListsWithin(K2, S)
               PROVE  V \subseteq S
  BY <1>1, Zenon DEF Held
<1>5. ASSUME NEW y \in S, NEW i \in 1..Len(K[y])
      PROVE  K[y][i] \in S
  <2>1. CASE y = p
    <3>1. K[p][i] \in ToSet(K[p])
      BY <1>5, <2>1, MembersOf
    <3>2. \A j \in 1..Len(s) : s[j] \in S
      BY <1>2, <1>4, <2>1 DEF ListsWithin
    <3>3. ToSet(s) \subseteq S
      BY <3>2, MembersOf
    <3> QED  BY <1>4, <2>1, <3>1, <3>3 DEF Passes
  <2>2. CASE y # p
    BY <1>2, <1>4, <2>2 DEF ListsWithin
  <2> QED  BY <2>1, <2>2
<1>6. p \in S
  <2>1. ListsWithin(K, S \cup B)
    BY <1>3, <1>5 DEF ListsWithin
  <2>2. S \cup B \in SUBSET Items /\ R \subseteq S \cup B
    BY <1>3, <1>4
  <2>3. V \subseteq S \cup B
    BY <2>1, <2>2 DEF Held
  <2> QED  BY <1>3, <2>3
<1>7. x \in S
  <2>1. PICK i \in 1..Len(s) : s[i] = x
    BY MembersOf
  <2> QED  BY <1>2, <1>4, <1>6, <2>1 DEF ListsWithin
<1>8. R \subseteq S /\ ListsWithin(K, S)
  BY <1>4, <1>5, <1>7 DEF ListsWithin
<1> QED  BY <1>8 DEF Held

\* x leaves the list of p for R.
LEMMA HeldTaken ==
    ASSUME NEW R \in SUBSET Items, NEW K \in [Items -> Seq(Items)], NEW V, Held(R, K, V),
           NEW x \in Items, NEW p \in Items, NEW s \in Seq(Items),
           ToSet(K[p]) \subseteq ToSet(s) \cup {x}
    PROVE  Held(R \cup {x}, [K EXCEPT ![p] = s], V)
<1>1. PICK K2 : K2 = [K EXCEPT ![p] = s]
  OBVIOUS
<1>2. K2[p] = s /\ \A q \in Items \ {p} : K2[q] = K[q]
  BY <1>1
<1>3. SUFFICES ASSUME NEW S \in SUBSET Items, R \cup {x} \subseteq S, ListsWithin(K2, S)
               PROVE  V \subseteq S
  BY <1>1, Zenon DEF Held
<1>4. ASSUME NEW y \in S, NEW i \in 1..Len(K[y])
      PROVE  K[y][i] \in S
  <2>1. CASE y = p
    <3>1. K[p][i] \in ToSet(K[p])
      BY <1>4, <2>1, MembersOf
    <3>2. \A j \in 1..Len(s) : s[j] \in S
      BY <1>2, <1>3, <2>1 DEF ListsWithin
    <3>3. ToSet(s) \subseteq S
      BY <3>2, MembersOf
    <3> QED  BY <1>3, <2>1, <3>1, <3>3
  <2>2. CASE y # p
    BY <1>2, <1>3, <2>2 DEF ListsWithin
  <2> QED  BY <2>1, <2>2
<1>5. ListsWithin(K, S)
  BY <1>4 DEF ListsWithin
<1> QED  BY <1>3, <1>5 DEF Held

\* x of R is freed with what is below it.
LEMMA HeldFreed ==
    ASSUME NEW R \in SUBSET Items, NEW K \in [Items -> Seq(Items)], NEW V, Held(R, K, V),
           NEW x \in R, NEW B, B = Forest!Below(K, x)
    PROVE  Held(R \ {x}, Without(K, B), V \ B)
<1>1. PICK K2 : K2 = Without(K, B)
  OBVIOUS
<1>2. x \in B /\ B \subseteq Items /\ ListsWithin(K, B)
  <2>1. x \in Items
    OBVIOUS
  <2>2. LeastWithin(K, x, Forest!Below(K, x))
    BY <2>1, BelowIs, Zenon
  <2> QED  BY <2>2 DEF LeastWithin
<1>3. SUFFICES ASSUME NEW S \in SUBSET Items, R \ {x} \subseteq S, ListsWithin(K2, S)
               PROVE  V \ B \subseteq S
  BY <1>1, Zenon DEF Held
<1>4. ListsWithin(K, S \cup B)
  <2>1. \A y \in S \ B : K2[y] = K[y]
    BY <1>1 DEF Without
  <2> QED  BY <1>2, <1>3, <2>1 DEF ListsWithin
<1>5. S \cup B \in SUBSET Items /\ R \subseteq S \cup B
  BY <1>2, <1>3
<1> QED  BY <1>4, <1>5 DEF Held

\* New items, all below x.
LEMMA HeldGrafted ==
    ASSUME NEW R \in SUBSET Items, NEW K \in [Items -> Seq(Items)], NEW V, Held(R, K, V),
           NEW D \in SUBSET Items, \A d \in D : K[d] = <<>>, NEW L,
           \A d \in D : L[d] \in Seq(D), NEW x \in D, AllUnder(D, L, x)
    PROVE  Held(R \cup {x}, With(K, D, L), V \cup D)
<1>1. PICK K2 : K2 = With(K, D, L)
  OBVIOUS
<1>2. \A y \in Items : K2[y] = IF y \in D THEN L[y] ELSE K[y]
  BY <1>1 DEF With
<1>3. SUFFICES ASSUME NEW S \in SUBSET Items, R \cup {x} \subseteq S, ListsWithin(K2, S)
               PROVE  V \cup D \subseteq S
  BY <1>1, Zenon DEF Held
<1>4. ListsWithin(K, S)
  <2>1. SUFFICES ASSUME NEW y \in S, NEW i \in 1..Len(K[y])  PROVE K[y][i] \in S
    BY DEF ListsWithin
  <2>2. y \notin D
    BY <2>1
  <2> QED  BY <1>2, <1>3, <2>1, <2>2 DEF ListsWithin
<1>5. D \subseteq S
  <2>1. PICK T : T = S \cap D
    OBVIOUS
  <2>2. ListsWithin(L, T)
    <3>1. SUFFICES ASSUME NEW y \in T, NEW i \in 1..Len(L[y])  PROVE L[y][i] \in T
      BY DEF ListsWithin
    <3>2. K2[y] = L[y] /\ y \in S /\ L[y] \in Seq(D)
      BY <1>2, <2>1, <3>1
    <3> QED  BY <1>3, <2>1, <3>1, <3>2 DEF ListsWithin
  <2> QED  BY <1>3, <2>1, <2>2 DEF AllUnder
<1> QED  BY <1>3, <1>4, <1>5 DEF Held

\* What HeldInv says of, and what an item may be added to.
LEMMA InvIs ==
    ASSUME TreeInv
    PROVE  /\ roots \in SUBSET Items /\ Kids(heap) \in [Items -> Seq(Items)]
           /\ Live \in SUBSET Items
  BY DEF TreeInv, TreeOf, Live, LiveIn

\* What may be added to a list is not above it and not yet in it.
LEMMA ApartIs ==
    ASSUME TreeInv, NEW p, NEW x, Addable(p, x)
    PROVE  /\ p \in Items /\ p \in Live /\ x \in roots /\ x \in Items
           /\ p \notin Forest!Below(Kids(heap), x)
           /\ Once(Kids(heap)[p]) /\ x \notin ToSet(Kids(heap)[p])
<1>1. Parent(p) /\ x \in roots /\ x \in Items /\ p \notin Reach(heap, x)
  BY AddableIs DEF Addable, Subtree
<1>2. p \in Items /\ p \in Live /\ Owner(heap, p) /\ TreeOf(heap, roots, Kids(heap))
  BY <1>1, ParentIs DEF Parent, TreeInv
<1>3. Reach(heap, x) = Forest!Below(Kids(heap), x)
  BY <1>1, <1>2, ReachIsBelow
<1> QED  BY <1>1, <1>2, <1>3, ListOf

\* What is added stays below a root: the one its new list is below.
LEMMA HeldAfterAdd ==
    ASSUME TreeInv, HeldInv, NEW p, NEW x, Addable(p, x), Forest!Add(p, x)
    PROVE  HeldInv'
<1>1. /\ roots' = roots \ {x} /\ Live' = Live
      /\ Kids(heap)' = [Kids(heap) EXCEPT ![p] = Append(Kids(heap)[p], x)]
  BY DEF Forest!Add, Forest!PutIn
<1>2. PICK R, K, V : R = roots /\ K = Kids(heap) /\ V = Live
  OBVIOUS
<1>3. /\ R \in SUBSET Items /\ K \in [Items -> Seq(Items)] /\ p \in Items /\ p \in V
      /\ x \in R /\ x \in Items /\ p \notin Forest!Below(K, x) /\ Held(R, K, V)
      /\ Once(K[p]) /\ x \notin ToSet(K[p])
  BY <1>2, InvIs, ApartIs DEF HeldInv
<1>4. PICK s : s = Append(K[p], x)
  OBVIOUS
<1>5. s \in Seq(Items) /\ Passes(K[p], s, R \ {x}) /\ x \in ToSet(s)
  <2>1. s \in Seq(Items) /\ ToSet(s) = ToSet(K[p]) \cup {x}
    BY <1>3, <1>4, AppendShape
  <2> QED  BY <2>1 DEF Passes
<1>6. Held(R \ {x}, [K EXCEPT ![p] = s], V)
  BY <1>3, <1>5, HeldMoved
<1> QED  BY <1>1, <1>2, <1>4, <1>6 DEF HeldInv

\* The same of what is inserted.
LEMMA HeldAfterInsert ==
    ASSUME TreeInv, HeldInv, NEW p, NEW x, Addable(p, x), NEW k \in DOMAIN Kids(heap)[p],
           Forest!Insert(p, k, x)
    PROVE  HeldInv'
<1>1. /\ roots' = roots \ {x} /\ Live' = Live
      /\ Kids(heap)' = [Kids(heap) EXCEPT ![p] = InsertAt(Kids(heap)[p], k, x)]
  BY DEF Forest!Insert, Forest!PutIn, Forest!InsertAt, InsertAt
<1>2. PICK R, K, V : R = roots /\ K = Kids(heap) /\ V = Live
  OBVIOUS
<1>3. /\ R \in SUBSET Items /\ K \in [Items -> Seq(Items)] /\ p \in Items /\ p \in V
      /\ x \in R /\ x \in Items /\ p \notin Forest!Below(K, x) /\ Held(R, K, V)
      /\ Once(K[p]) /\ x \notin ToSet(K[p]) /\ k \in 1..Len(K[p])
  BY <1>2, InvIs, ApartIs DEF HeldInv
<1>4. PICK s : s = InsertAt(K[p], k, x)
  OBVIOUS
<1>5. s \in Seq(Items) /\ Passes(K[p], s, R \ {x}) /\ x \in ToSet(s)
  BY <1>3, <1>4, InsertShape DEF IsInserted, Passes
<1>6. Held(R \ {x}, [K EXCEPT ![p] = s], V)
  BY <1>3, <1>5, HeldMoved
<1> QED  BY <1>1, <1>2, <1>4, <1>6 DEF HeldInv

\* What replaces an item is below the root its list is below; the rest of the old one is freed.
LEMMA HeldAfterReplace ==
    ASSUME TreeInv, HeldInv, NEW p, NEW r, Addable(p, r), NEW k \in DOMAIN Kids(heap)[p],
           Forest!Replace(p, k, r)
    PROVE  HeldInv'
<1>1. PICK R, K, V : R = roots /\ K = Kids(heap) /\ V = Live
  OBVIOUS
<1>2. /\ R \in SUBSET Items /\ K \in [Items -> Seq(Items)] /\ p \in Items /\ p \in V
      /\ r \in R /\ r \in Items /\ p \notin Forest!Below(K, r) /\ Held(R, K, V)
      /\ Once(K[p]) /\ r \notin ToSet(K[p]) /\ k \in 1..Len(K[p])
  BY <1>1, InvIs, ApartIs DEF HeldInv
<1>3. PICK x, s : x = K[p][k] /\ s = ReplaceAt(K[p], k, r)
  OBVIOUS
<1>4. /\ s \in Seq(Items) /\ ToSet(s) = (ToSet(K[p]) \ {x}) \cup {r} /\ x \in Items
      /\ x \in ToSet(K[p])
  <2>1. x \in ToSet(K[p])
    BY <1>2, <1>3, MembersOf
  <2> QED  BY <1>2, <1>3, <2>1, ReplaceShape DEF IsReplaced
<1>5. PICK R2, K2, B : /\ R2 = (R \ {r}) \cup {x} /\ K2 = [K EXCEPT ![p] = s]
                       /\ B = Forest!Below(K2, x)
  OBVIOUS
<1>6. /\ roots' = roots \ {r} /\ Live' = Live \ B
      /\ Kids(heap)' = Without(K2, B)
  BY <1>1, <1>3, <1>5, Zenon
     DEF Forest!Replace, Forest!Free, Without, Forest!ReplaceAt, ReplaceAt
<1>7. Held(R2, K2, V)
  <2>1. Passes(K[p], s, R2) /\ r \in ToSet(s) /\ R \ {r} \subseteq R2
    BY <1>4, <1>5 DEF Passes
  <2> QED  BY <1>2, <1>4, <1>5, <2>1, HeldMoved
<1>8. R2 \in SUBSET Items /\ K2 \in [Items -> Seq(Items)] /\ x \in R2
  BY <1>2, <1>4, <1>5
<1>9. Held(R2 \ {x}, Without(K2, B), V \ B)
  BY <1>5, <1>7, <1>8, HeldFreed
<1>10. x \notin R
  BY <1>1, <1>2, <1>3, NotHeld DEF TreeInv
<1>11. R2 \ {x} = R \ {r}
  BY <1>5, <1>10
<1> QED  BY <1>1, <1>6, <1>9, <1>11 DEF HeldInv

\* What is detached is a root, and all below it is still below it.
LEMMA HeldAfterDetach ==
    ASSUME TreeInv, HeldInv, NEW p \in Live, NEW k \in DOMAIN Kids(heap)[p],
           Forest!Detach(p, k), Once(Kids(heap)[p])
    PROVE  HeldInv'
<1>1. /\ roots' = roots \cup {Kids(heap)[p][k]} /\ Live' = Live
      /\ Kids(heap)' = [Kids(heap) EXCEPT ![p] = RemoveAt(Kids(heap)[p], k)]
  BY Zenon DEF Forest!Detach, Forest!RemoveAt, RemoveAt
<1>2. PICK R, K, V : R = roots /\ K = Kids(heap) /\ V = Live
  OBVIOUS
<1>3. /\ R \in SUBSET Items /\ K \in [Items -> Seq(Items)] /\ p \in Items
      /\ Held(R, K, V) /\ Once(K[p]) /\ k \in 1..Len(K[p])
  BY <1>2, InvIs DEF HeldInv
<1>4. PICK x, s : x = K[p][k] /\ s = RemoveAt(K[p], k)
  OBVIOUS
<1>5. s \in Seq(Items) /\ ToSet(s) = ToSet(K[p]) \ {x} /\ x \in Items
  BY <1>3, <1>4, RemoveShape DEF IsRemoved
<1>6. Held(R \cup {x}, [K EXCEPT ![p] = s], V)
  BY <1>3, <1>5, HeldTaken
<1> QED  BY <1>1, <1>2, <1>4, <1>6 DEF HeldInv

\* What stays in use after a deletion from a list is below a root as before.
LEMMA HeldAfterDropChild ==
    ASSUME TreeInv, HeldInv, NEW p \in Live, NEW k \in DOMAIN Kids(heap)[p],
           Forest!DropChild(p, k), Once(Kids(heap)[p])
    PROVE  HeldInv'
<1>1. PICK R, K, V : R = roots /\ K = Kids(heap) /\ V = Live
  OBVIOUS
<1>2. /\ R \in SUBSET Items /\ K \in [Items -> Seq(Items)] /\ p \in Items
      /\ Held(R, K, V) /\ Once(K[p]) /\ k \in 1..Len(K[p])
  BY <1>1, InvIs DEF HeldInv
<1>3. PICK x, s : x = K[p][k] /\ s = RemoveAt(K[p], k)
  OBVIOUS
<1>4. s \in Seq(Items) /\ ToSet(s) = ToSet(K[p]) \ {x} /\ x \in Items
  BY <1>2, <1>3, RemoveShape DEF IsRemoved
<1>5. PICK R2, K2, B : /\ R2 = R \cup {x} /\ K2 = [K EXCEPT ![p] = s]
                       /\ B = Forest!Below(K2, x)
  OBVIOUS
<1>6. /\ roots' = roots /\ Live' = Live \ B
      /\ Kids(heap)' = Without(K2, B)
  BY <1>1, <1>3, <1>5, Zenon
     DEF Forest!DropChild, Forest!Free, Without, Forest!RemoveAt, RemoveAt
<1>7. Held(R2, K2, V)
  BY <1>2, <1>4, <1>5, HeldTaken
<1>8. R2 \in SUBSET Items /\ K2 \in [Items -> Seq(Items)] /\ x \in R2
  BY <1>2, <1>4, <1>5
<1>9. Held(R2 \ {x}, Without(K2, B), V \ B)
  BY <1>5, <1>7, <1>8, HeldFreed
<1>10. x \notin R
  BY <1>1, <1>2, <1>3, NotHeld DEF TreeInv
<1>11. R2 \ {x} = R
  BY <1>5, <1>10
<1> QED  BY <1>1, <1>6, <1>9, <1>11 DEF HeldInv

\* What was below the root that is deleted is freed.
LEMMA HeldAfterDelete ==
    ASSUME TreeInv, HeldInv, NEW x, Forest!Delete(x)
    PROVE  HeldInv'
<1>1. PICK R, K, V, B : /\ R = roots /\ K = Kids(heap) /\ V = Live
                        /\ B = Forest!Below(K, x)
  OBVIOUS
<1>2. /\ x \in R /\ roots' = roots \ {x} /\ Live' = Live \ B
      /\ Kids(heap)' = Without(K, B)
  BY <1>1, Zenon DEF Forest!Delete, Forest!Free, Without
<1>3. R \in SUBSET Items /\ K \in [Items -> Seq(Items)] /\ Held(R, K, V)
  BY <1>1, InvIs DEF HeldInv
<1>4. Held(R \ {x}, Without(K, B), V \ B)
  BY <1>1, <1>2, <1>3, HeldFreed
<1> QED  BY <1>1, <1>2, <1>4 DEF HeldInv

\* New lists are below their root.
LEMMA HeldAfterGraft ==
    ASSUME TreeInv, HeldInv, NEW D, NEW L, NEW root,
           IsGraft(heap, heap', Kids(heap), D, L, root), roots' = roots \cup {root},
           Kids(heap)' = With(Kids(heap), D, L)
    PROVE  HeldInv'
<1>1. PICK R, K, V : R = roots /\ K = Kids(heap) /\ V = Live
  OBVIOUS
<1>2. R \in SUBSET Items /\ K \in [Items -> Seq(Items)] /\ V \subseteq Items /\ Held(R, K, V)
  BY <1>1, InvIs DEF HeldInv
<1>3. /\ D \in SUBSET (Items \ LiveIn(heap)) /\ \A y \in Items \ D : heap'[y] = heap[y]
      /\ root \in D /\ AllUnder(D, L, root)
      /\ \A d \in D : heap'[d].kind # "free" /\ L[d] \in Seq(D)
  BY Zenon DEF IsGraft
<1>4. \A d \in D : K[d] = <<>>
  BY <1>1, <1>3 DEF Kids
<1>5. Live' = V \cup D
  BY <1>1, <1>3 DEF Live, LiveIn
<1>6. Held(R \cup {root}, With(K, D, L), V \cup D)
  BY <1>2, <1>3, <1>4, HeldGrafted
<1> QED  BY <1>1, <1>5, <1>6 DEF HeldInv

\* A new item is a root.
LEMMA HeldAfterMakes ==
    ASSUME TreeInv, HeldInv, NEW new \in Available, MakesOne(new)
    PROVE  HeldInv'
<1>1. Live' = Live \cup {new}
  BY DEF Live, LiveIn, MakesOne, HasNew, Available
<1> QED  BY <1>1 DEF HeldInv, Held, MakesOne

\* A new item in a list is below the root its list is below.
LEMMA HeldAfterAddsOne ==
    ASSUME TreeInv, HeldInv, NEW p, Parent(p), NEW new \in Available, AddsOne(p, new)
    PROVE  HeldInv'
<1>1. PICK R, K, V : R = roots /\ K = Kids(heap) /\ V = Live
  OBVIOUS
<1>2. R \in SUBSET Items /\ K \in [Items -> Seq(Items)] /\ V \subseteq Items /\ Held(R, K, V)
  BY <1>1, InvIs DEF HeldInv
<1>3. new \in Items /\ new \notin V /\ new \notin R /\ K[new] = <<>>
  <2>1. new \in Items /\ new \notin LiveIn(heap)
    BY DEF Available, Live
  <2> QED  BY <1>1, <2>1 DEF Kids, Live, TreeInv, TreeOf, Placed
<1>4. /\ p \in Items /\ p \in V /\ p # new /\ Once(K[p])
      /\ \A i \in 1..Len(K[p]) : K[p][i] \in V
  <2>1. p \in Items /\ Owner(heap, p) /\ TreeOf(heap, roots, K)
    BY <1>1, ParentIs DEF TreeInv
  <2>2. \A i \in 1..Len(K[p]) : K[p][i] \in V
    BY <1>1, <2>1, NotHeld DEF Live
  <2> QED  BY <1>1, <1>3, <2>1, <2>2, ListOf DEF Owner, Live
<1>5. Live' = V \cup {new}
  <2>1. PICK h : HasNew(h, new) /\ Keeps(h, heap')
    BY DEF AddsOne
  <2> QED  BY <1>1, <1>3, <2>1 DEF HasNew, Keeps, Live, LiveIn
<1>6. Held(R \cup {new}, K, V \cup {new})
  BY <1>2 DEF Held
<1>7. p \notin Forest!Below(K, new)
  <2>1. ListsWithin(K, {new})
    BY <1>3 DEF ListsWithin
  <2>2. LeastWithin(K, new, Forest!Below(K, new))
    BY <1>2, <1>3, BelowIs, Zenon
  <2>3. Forest!Below(K, new) \subseteq {new}
    BY <1>3, <2>1, <2>2 DEF LeastWithin
  <2> QED  BY <1>4, <2>3
<1>8. PICK s : s = Append(K[p], new)
  OBVIOUS
<1>9. s \in Seq(Items) /\ Passes(K[p], s, R) /\ new \in ToSet(s)
  <2>1. new \notin ToSet(K[p]) /\ K[p] \in Seq(Items)
    BY SMTT(60), <1>2, <1>3, <1>4, MembersOf
  <2>2. s \in Seq(Items) /\ ToSet(s) = ToSet(K[p]) \cup {new}
    BY <1>3, <1>4, <1>8, <2>1, AppendShape
  <2> QED  BY <2>2 DEF Passes
<1>10. PICK R2, V2 : R2 = R \cup {new} /\ V2 = V \cup {new}
  OBVIOUS
<1>11. Held(R, [K EXCEPT ![p] = s], V2)
  <2>1. R2 \in SUBSET Items /\ Held(R2, K, V2) /\ new \in R2 /\ p \in V2 /\ R2 \ {new} \subseteq R
    BY <1>2, <1>3, <1>4, <1>6, <1>10
  <2> QED  BY <1>2, <1>4, <1>7, <1>9, <2>1, HeldMoved
<1> QED  BY <1>1, <1>5, <1>8, <1>10, <1>11 DEF HeldInv, AddsOne

\* Every operation leaves all items in use below a root.
LEMMA HeldStep == TreeInv /\ HeldInv /\ [Next]_vars => HeldInv'
<1> SUFFICES ASSUME TreeInv, HeldInv, [Next]_vars  PROVE HeldInv'
  OBVIOUS
<1>1. ASSUME NEW k \in Kinds, Create(k)  PROVE HeldInv'
  BY <1>1, MadeItem, HeldAfterMakes
<1>2. ASSUME NEW k \in Kinds, NEW n \in 0..2, CreateLeafArray(n, k)  PROVE HeldInv'
  BY <1>2, CreateArray, HeldAfterGraft
<1>3. ASSUME NEW k \in Kinds, NEW x, CreateListReference(k, x)  PROVE HeldInv'
  BY <1>3, MadeReference, HeldAfterMakes
<1>4. ASSUME NEW p, NEW x, AddItemToArray(p, x)  PROVE HeldInv'
  BY <1>4, AddMaps, HeldAfterAdd DEF AddItemToArray
<1>5. ASSUME NEW p, NEW x, AddItemReferenceToArray(p, x)  PROVE HeldInv'
  BY <1>5, ReferToArray, AddedReference, HeldAfterAddsOne
<1>6. ASSUME NEW p, NEW x, NEW i \in 0..2, InsertItemInArray(p, i, x)  PROVE HeldInv'
  <2>1. Addable(p, x) /\ i \in Nat
    BY <1>6 DEF InsertItemInArray
  <2> QED  BY <1>6, <2>1, InsertMaps, HeldAfterAdd, HeldAfterInsert
<1>7. ASSUME NEW p, NEW x, NEW i \in 0..2, ReplaceItemInArray(p, i, x)  PROVE HeldInv'
  <2>1. Addable(p, x) /\ i \in Nat
    BY <1>7 DEF ReplaceItemInArray
  <2> QED  BY <1>7, <2>1, ReplaceArrayMaps, HeldAfterReplace
<1>8. ASSUME NEW p, NEW x, NEW n \in Names, AddItemToObject(p, n, x)  PROVE HeldInv'
  BY <1>8, AddMaps, HeldAfterAdd DEF AddItemToObject
<1>9. ASSUME NEW p, NEW x, NEW n \in Names, NEW cs \in BOOLEAN, replace_item_in_object(p, n, x, cs)
      PROVE  HeldInv'
  <2>1. Addable(p, x)
    BY <1>9 DEF replace_item_in_object
  <2>2. CASE Forest!Rename(x)
    <3>1. Kids(heap)' = Kids(heap) /\ roots' = roots /\ Live' = Live
      BY <2>2 DEF Forest!Rename
    <3> QED  BY <3>1 DEF HeldInv
  <2> QED  BY <1>9, <2>1, <2>2, ReplaceObjectMaps, HeldAfterReplace
<1>10. ASSUME NEW p, DetachItem(p)  PROVE HeldInv'
  <2>1. Once(Kids(heap)[p])
    BY <1>10, ParentIs, ListOf DEF DetachItem, TreeInv
  <2> QED  BY <1>10, <2>1, DetachMaps, HeldAfterDetach
<1>11. ASSUME NEW p, DeleteItem(p)  PROVE HeldInv'
  <2>1. Once(Kids(heap)[p])
    BY <1>11, ParentIs, ListOf DEF DeleteItem, TreeInv
  <2> QED  BY <1>11, <2>1, DropChildMaps, HeldAfterDropChild
<1>12. ASSUME NEW p, cJSON_Delete(p)  PROVE HeldInv'
  BY <1>12, DeleteMaps, HeldAfterDelete
<1>13. ASSUME NEW p, NEW n \in Names, NEW k \in Kinds, AddNewToObject(p, n, k)  PROVE HeldInv'
  BY <1>13, AddedNew, HeldAfterAddsOne
<1>14. ASSUME NEW x, NEW recurse \in BOOLEAN, cJSON_Duplicate(x, recurse)  PROVE HeldInv'
  BY <1>14, Duplicate, HeldAfterGraft
<1>15. ASSUME NEW p, NEW n \in Names, NEW x, AddItemReferenceToObject(p, n, x)  PROVE HeldInv'
  BY <1>15, ReferToObject, AddedReference, HeldAfterAddsOne
<1>16. CASE UNCHANGED vars
  <2>1. Kids(heap)' = Kids(heap) /\ Live' = Live /\ roots' = roots
    BY <1>16 DEF vars, Kids, Live, LiveIn, Chain
  <2> QED  BY <2>1 DEF HeldInv
<1> QED  BY <1>1, <1>2, <1>3, <1>4, <1>5, <1>6, <1>7, <1>8, <1>9, <1>10, <1>11, <1>12, <1>13,
            <1>14, <1>15, <1>16 DEF Next

\* Every item in use is below one that the caller holds: nothing leaks, and there are no cycles.
THEOREM NoLeak == Spec => []NothingLost
<1>1. Init => HeldInv
  <2> SUFFICES ASSUME Init  PROVE HeldInv
    OBVIOUS
  <2>1. Live = {}
    BY DEF Init, Live, LiveIn, Unused
  <2> QED  BY <2>1 DEF HeldInv, Held
<1>2. TreeInv /\ HeldInv /\ [Next]_vars => HeldInv'
  BY HeldStep
<1>3. TreeInv /\ HeldInv => NothingLost
  <2> SUFFICES ASSUME TreeInv, HeldInv  PROVE NothingLost
    OBVIOUS
  <2>1. PICK S : S = {x \in Items : \E r \in roots : x \in Reach(heap, r)}
    OBVIOUS
  <2>2. PICK K : K = Kids(heap) /\ TreeOf(heap, roots, K)
    BY DEF TreeInv
  <2>3. ASSUME NEW r \in roots
        PROVE  /\ r \in Reach(heap, r) /\ Reach(heap, r) \subseteq Items
               /\ ListsWithin(K, Reach(heap, r))
    <3>1. r \in Items /\ K \in [Items -> Seq(Items)]
      BY <2>2 DEF TreeOf
    <3>2. LeastWithin(K, r, Forest!Below(K, r))
      BY <3>1, BelowIs, Zenon
    <3>3. Reach(heap, r) = Forest!Below(K, r)
      BY <2>2, ReachIsBelow
    <3> QED  BY <3>2, <3>3 DEF LeastWithin
  <2>4. ListsWithin(K, S)
    <3>1. SUFFICES ASSUME NEW y \in S, NEW i \in 1..Len(K[y])  PROVE K[y][i] \in S
      BY DEF ListsWithin
    <3>2. PICK r \in roots : y \in Reach(heap, r)
      BY <2>1, <3>1
    <3>3. K[y][i] \in Reach(heap, r)
      BY <2>3, <3>1, <3>2 DEF ListsWithin
    <3> QED  BY <2>1, <2>3, <3>3
  <2>5. S \in SUBSET Items /\ roots \subseteq S
    BY <2>1, <2>3
  <2>6. Live \subseteq S
    BY <2>2, <2>4, <2>5 DEF HeldInv, Held
  <2> QED  BY <2>1, <2>6 DEF NothingLost, Subtree
<1> QED  BY <1>1, <1>2, <1>3, AlwaysTree, PTL DEF Spec

\* An item in use has one owner, and the caller gets to it.
THEOREM Possession == Spec => []OwnedAndHeld
  BY Ownership, NoLeak, PTL DEF OwnedAndHeld
=============================================================================
