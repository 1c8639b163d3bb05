----------------------------- MODULE HttpProofs -----------------------------
(***************************************************************************)
(* Proofs about HttpExchange: the response is as asked, and a head is      *)
(* accepted and a body decoded alike, wherever the network cuts them.      *)
(***************************************************************************)
EXTENDS HttpExchange, FiniteSetTheorems, WellFoundedInduction, SequenceTheorems, TLAPS

-------------------------------------------------------------------------------
(* Naturals and what is computed by counting. *)

\* A nonempty set of naturals has a least element, and that is the one Min chooses.
LEMMA LeastNatural ==
    ASSUME NEW S \in SUBSET Nat, S # {}
    PROVE  LET m == CHOOSE x \in S : \A y \in S : x =< y
           IN  m \in S /\ \A y \in S : m =< y
<1>1. PICK n \in S : TRUE
  OBVIOUS
<1> DEFINE below == {0..x : x \in {y \in S : y <= n}}
<1>2. below \subseteq SUBSET (0..n) /\ below # {}
  <2>1. \A x \in S : x <= n => 0..x \subseteq 0..n
    OBVIOUS
  <2>2. 0..n \in below
    OBVIOUS
  <2> QED  BY <2>1, <2>2
<1>3. IsWellFoundedOn(StrictSubsetOrdering(0..n), SUBSET (0..n))
  <2>1. IsFiniteSet(0..n)
    BY FS_Interval
  <2> QED  BY <2>1, FS_FiniteSubsetsOfFinite, FS_StrictSubsetOrderingWellFounded, Zenon
<1> HIDE DEF below
<1>4. PICK b \in below : \A c \in below : ~(<<c, b>> \in StrictSubsetOrdering(0..n))
  BY <1>2, <1>3, WFMin, Zenon
<1>5. PICK m \in S : m <= n /\ b = 0..m
  BY <1>4 DEF below
<1>6. \A x \in S : m =< x
  <2>1. SUFFICES ASSUME NEW x \in S, x < m  PROVE FALSE
    OBVIOUS
  <2>2. 0..x \in below /\ 0..x \subseteq 0..m /\ 0..x # 0..m
    BY <1>5, <2>1 DEF below
  <2> QED  BY <1>2, <1>4, <1>5, <2>2 DEF StrictSubsetOrdering
<1> QED  BY <1>6

\* A set of naturals that holds the first of an interval, and with each the next, holds all.
LEMMA Counting ==
    ASSUME NEW a \in Nat, NEW b \in Nat, NEW P, a \in P,
           \A n \in a..b : n < b /\ n \in P => n + 1 \in P
    PROVE  \A n \in a..b : n \in P
<1>1. SUFFICES ASSUME NEW n \in a..b, n \notin P  PROVE FALSE
  OBVIOUS
<1>2. PICK S : S = {k \in a..b : k \notin P}
  OBVIOUS
<1>3. S \in SUBSET Nat /\ S # {}
  BY <1>1, <1>2
<1>4. PICK m \in S : \A k \in S : m =< k
  BY <1>3, LeastNatural
<1>5. m \in a..b /\ m \notin P /\ m # a /\ m \in Nat
  BY <1>2, <1>4
<1>6. m - 1 \in a..b /\ m - 1 < b /\ m - 1 \in Nat
  BY <1>5
<1>7. m - 1 \notin S
  BY <1>4, <1>5, <1>6
<1>8. m - 1 \in P
  BY <1>2, <1>6, <1>7
<1> QED  BY <1>5, <1>6, <1>8

\* A step taken again and again, the n-th of which may depend on n.
Steps(T, N, x, S) == N \in Nat /\ x \in T /\ S \in [(1..N) \X T -> T]
Takes(T, N, x, S, g) ==
    g \in [0..N -> T] /\ g[0] = x /\ \A n \in 1..N : g[n] = S[<<n, g[n - 1]>>]

\* Such steps can be taken one after the other, by a function that remembers them all.
LEMMA Iteration ==
    ASSUME NEW T, NEW N, NEW x, NEW S, Steps(T, N, x, S)
    PROVE  \E g : Takes(T, N, x, S, g)
<1>1. N \in Nat /\ x \in T /\ S \in [(1..N) \X T -> T]
  BY DEF Steps
<1> DEFINE Good(m, g) == g[0] = x /\ \A n \in 1..m : g[n] = S[<<n, g[n - 1]>>]
           P == {m \in 0..N : \E g \in [0..m -> T] : Good(m, g)}
<1>2. 0 \in P
  <2>1. PICK g : g = [k \in 0..0 |-> x]
    OBVIOUS
  <2>2. g \in [0..0 -> T] /\ g[0] = x /\ 0 \in 0..N
    BY <1>1, <2>1
  <2> QED  BY <1>1, <2>2
<1>3. ASSUME NEW m \in 0..N, m < N, m \in P
      PROVE  m + 1 \in P
  <2>1. PICK g \in [0..m -> T] : Good(m, g)
    BY <1>1, <1>3
  <2>2. PICK h : h = [k \in 0..(m + 1) |-> IF k <= m THEN g[k] ELSE S[<<m + 1, g[m]>>]]
    OBVIOUS
  <2>3. m \in 0..m /\ m + 1 \in 1..N /\ 0 \in 0..m
    BY <1>1, <1>3
  <2>4. g[m] \in T /\ S[<<m + 1, g[m]>>] \in T
    BY <1>1, <2>3
  <2>5. h \in [0..(m + 1) -> T]
    <3>1. \A k \in 0..(m + 1) : (IF k <= m THEN g[k] ELSE S[<<m + 1, g[m]>>]) \in T
      BY <1>1, <2>3, <2>4
    <3> QED  BY <1>1, <2>2, <3>1
  <2>6. /\ \A k \in 0..m : h[k] = g[k]
        /\ h[m + 1] = S[<<m + 1, g[m]>>]
    BY <1>1, <2>2, <2>3
  <2>7. h[0] = x
    BY <1>1, <2>1, <2>3, <2>6
  <2>8. ASSUME NEW n \in 1..(m + 1)
        PROVE  h[n] = S[<<n, h[n - 1]>>]
    <3>1. n - 1 \in 0..m /\ h[n - 1] = g[n - 1]
      BY <1>1, <2>6
    <3>2. CASE n = m + 1
      BY <1>1, <2>6, <3>1, <3>2
    <3>3. CASE n # m + 1
      BY <1>1, <2>1, <2>6, <3>1, <3>3
    <3> QED  BY <3>2, <3>3
  <2>9. m + 1 \in 0..N
    BY <1>1, <2>3
  <2> QED  BY <1>1, <2>5, <2>7, <2>8, <2>9
<1>4. N \in P
  <2>1. P \subseteq 0..N /\ 0 \in Nat
    OBVIOUS
  <2> HIDE DEF P
  <2> QED  BY SMTT(60), <1>1, <1>2, <1>3, <2>1, Counting
<1> QED  BY <1>4 DEF Takes

-------------------------------------------------------------------------------
(* Strings in buffers. *)

Names == {"nul", "any", "default", "date", "length", "given", "blank", "body", "200 OK",
          "400 Bad Request", "404 Not Found", "405 Method Not Allowed",
          "500 Internal Server Error"}
Characters == Names \X Nat
NoNul(s) == s \in Seq(Characters) /\ \A i \in 1..Len(s) : s[i] # Reply!Nul

\* A buffer that holds s and n zeroes behind it.
Filled(s, n) == s \o Reply!Padding(n)

\* The two characters that stand for themselves.
LEMMA NulIsCharacter == Reply!Nul \in Characters /\ Reply!Unwritten \in Characters
<1>1. "nul" \in Names /\ "any" \in Names /\ 0 \in Nat
  BY DEF Names
<1> QED  BY <1>1 DEF Characters, Reply!Nul, Reply!Unwritten

\* A text has no terminator in it.
LEMMA TextHasNoNul ==
    ASSUME NEW name \in Names, NEW n \in Nat
    PROVE  NoNul(Reply!Text(name, n)) /\ Len(Reply!Text(name, n)) = n
<1>1. Reply!Text(name, n) = [i \in 1..n |-> <<name, i>>]
  BY DEF Reply!Text
<1>2. \A i \in 1..n : <<name, i>> \in Characters /\ <<name, i>> # <<"nul", 0>>
  BY DEF Characters
<1>3. Reply!Text(name, n) \in Seq(Characters) /\ Len(Reply!Text(name, n)) = n
  BY <1>1, <1>2
<1> QED  BY <1>1, <1>2, <1>3 DEF NoNul, Reply!Nul

\* Two such strings put together.
LEMMA ConcatHasNoNul ==
    ASSUME NEW s, NEW t, NoNul(s), NoNul(t)
    PROVE  NoNul(s \o t) /\ Len(s \o t) = Len(s) + Len(t)
BY DEF NoNul

\* Zeroes, place by place.
LEMMA PaddingPlaces ==
    ASSUME NEW n \in Nat
    PROVE  /\ Reply!Padding(n) \in Seq(Characters) /\ Len(Reply!Padding(n)) = n
           /\ \A i \in 1..n : Reply!Padding(n)[i] = Reply!Nul
BY NulIsCharacter DEF Reply!Padding

\* Such a buffer, place by place.
LEMMA FilledPlaces ==
    ASSUME NEW s, NoNul(s), NEW n \in Nat
    PROVE  /\ Filled(s, n) \in Seq(Characters) /\ Len(Filled(s, n)) = Len(s) + n
           /\ \A i \in 1..(Len(s) + n) :
                Filled(s, n)[i] = IF i <= Len(s) THEN s[i] ELSE Reply!Nul
<1>1. /\ Reply!Padding(n) \in Seq(Characters) /\ Len(Reply!Padding(n)) = n
      /\ \A i \in 1..n : Reply!Padding(n)[i] = Reply!Nul
  BY PaddingPlaces
<1> QED  BY <1>1 DEF Filled, NoNul

\* A sequence with those places is that buffer.
LEMMA FilledFromPlaces ==
    ASSUME NEW s, NoNul(s), NEW n \in Nat, NEW buf \in Seq(Characters),
           Len(buf) = Len(s) + n,
           \A i \in 1..(Len(s) + n) : buf[i] = IF i <= Len(s) THEN s[i] ELSE Reply!Nul
    PROVE  buf = Filled(s, n)
<1>1. PICK f \in Seq(Characters) :
        /\ f = Filled(s, n) /\ Len(f) = Len(s) + n
        /\ \A i \in 1..(Len(s) + n) : f[i] = IF i <= Len(s) THEN s[i] ELSE Reply!Nul
  BY FilledPlaces
<1>2. Len(buf) = Len(f) /\ \A i \in 1..Len(buf) : buf[i] = f[i]
  BY <1>1
<1> QED  BY <1>1, <1>2, SeqEqual

\* The string in such a buffer is s.
LEMMA StringOfFilled ==
    ASSUME NEW s, NoNul(s), NEW n \in Nat
    PROVE  Reply!StringIn(Filled(s, n)) = s
<1>1. PICK buf : buf = Filled(s, n)
  OBVIOUS
<1>2. /\ buf \in Seq(Characters) /\ Len(buf) = Len(s) + n /\ s \in Seq(Characters)
      /\ \A i \in 1..(Len(s) + n) : buf[i] = IF i <= Len(s) THEN s[i] ELSE Reply!Nul
  BY <1>1, FilledPlaces DEF NoNul
<1>3. PICK long : long = Append(buf, Reply!Nul)
  OBVIOUS
<1>4. /\ Len(long) = Len(buf) + 1 /\ long[Len(s) + 1] = Reply!Nul
      /\ \A i \in 1..Len(s) : long[i] = s[i]
  <2>1. Reply!Nul \in Characters
    BY NulIsCharacter
  <2> QED  BY <1>2, <1>3, <2>1, SMTT(60)
<1>5. PICK I : I = {i \in 1..Len(long) : long[i] = Reply!Nul}
  OBVIOUS
<1>6. I \in SUBSET Nat /\ Len(s) + 1 \in I /\ \A i \in I : i >= Len(s) + 1
  BY <1>2, <1>4, <1>5 DEF NoNul
<1>7. PICK m : m = Reply!Min(I)
  OBVIOUS
<1>8. m \in I /\ \A i \in I : m =< i
  BY <1>6, <1>7, LeastNatural, Zenon DEF Reply!Min
<1>9. m = Len(s) + 1
  <2>1. m \in Nat /\ Len(s) \in Nat
    BY <1>2, <1>6, <1>8
  <2> QED  BY <1>6, <1>8, <2>1
<1>10. Reply!SelectInSeq(Append(buf, Reply!Nul), LAMBDA c : c = Reply!Nul) = m
  BY <1>3, <1>5, <1>6, <1>7, Zenon DEF Reply!SelectInSeq
<1>11. Reply!StringIn(buf) = SubSeq(buf, 1, m - 1)
  BY <1>10, Zenon DEF Reply!StringIn
<1>12. SubSeq(buf, 1, Len(s)) = s /\ m - 1 = Len(s)
  BY <1>2, <1>9
<1> QED  BY <1>1, <1>11, <1>12

\* Put leaves a buffer its length.
LEMMA PutPlaces ==
    ASSUME NEW buf \in Seq(Characters), NEW text \in Seq(Characters), NEW at \in Nat \ {0}
    PROVE  /\ Reply!Put(buf, at, text) \in Seq(Characters)
           /\ Len(Reply!Put(buf, at, text)) = Len(buf)
           /\ \A i \in 1..Len(buf) : Reply!Put(buf, at, text)[i] =
                IF i \in at..(at + Len(text) - 1) THEN text[i - at + 1] ELSE buf[i]
<1>1. \A i \in 1..Len(buf) :
        (IF i \in at..(at + Len(text) - 1) THEN text[i - at + 1] ELSE buf[i]) \in Characters
  OBVIOUS
<1> QED  BY <1>1 DEF Reply!Put

\* First returns all of a text that is short enough.
LEMMA FirstOfShort ==
    ASSUME NEW text \in Seq(Characters), NEW n \in Nat, Len(text) <= n
    PROVE  Reply!First(n, text) = text
<1>1. {n, Len(text)} \in SUBSET Nat /\ Len(text) \in {n, Len(text)}
  OBVIOUS
<1>2. Reply!Min({n, Len(text)}) = Len(text)
  BY <1>1, LeastNatural DEF Reply!Min
<1> QED  BY <1>2 DEF Reply!First

\* There is room for text behind s, and n counts all of it.
Fits(s, text, k, n, rest) ==
    /\ NoNul(s) /\ NoNul(text) /\ k \in Nat /\ n \in Nat /\ rest \in Nat
    /\ Len(text) <= n /\ k = rest + Len(text)

\* A text is appended whole if n counts it and there is room, if only just, for it.
LEMMA CatFilled ==
    ASSUME NEW s, NEW text, NEW k, NEW n, NEW rest, Fits(s, text, k, n, rest)
    PROVE  Reply!strncat(Filled(s, k), text, n) = Filled(s \o text, rest)
<1>1. /\ NoNul(s) /\ NoNul(text) /\ k \in Nat /\ n \in Nat /\ rest \in Nat
      /\ Len(text) <= n /\ k = rest + Len(text)
  BY DEF Fits
<1>2. PICK buf, t : buf = Filled(s, k) /\ t = text \o <<Reply!Nul>>
  OBVIOUS
<1>3. s \in Seq(Characters) /\ text \in Seq(Characters) /\ Reply!Nul \in Characters
  BY <1>1, NulIsCharacter DEF NoNul
<1>4. /\ buf \in Seq(Characters) /\ Len(buf) = Len(s) + k
      /\ \A i \in 1..(Len(s) + k) : buf[i] = IF i <= Len(s) THEN s[i] ELSE Reply!Nul
  BY <1>1, <1>2, FilledPlaces
<1>5. /\ t \in Seq(Characters) /\ Len(t) = Len(text) + 1 /\ t[Len(text) + 1] = Reply!Nul
      /\ \A i \in 1..Len(text) : t[i] = text[i]
  BY <1>1, <1>2, <1>3
<1>6. PICK out : out = Reply!strncat(Filled(s, k), text, n)
  OBVIOUS
<1>7. out = Reply!Put(buf, Len(s) + 1, t)
  BY <1>1, <1>2, <1>3, <1>6, StringOfFilled, FirstOfShort DEF Reply!strncat
<1>8. /\ out \in Seq(Characters) /\ Len(out) = Len(buf)
      /\ \A i \in 1..Len(buf) : out[i] =
           IF i \in (Len(s) + 1)..(Len(s) + 1 + Len(t) - 1) THEN t[i - (Len(s) + 1) + 1] ELSE buf[i]
  <2>1. Len(s) + 1 \in Nat \ {0}
    BY <1>1, <1>3
  <2>2. PICK at \in Nat \ {0} : at = Len(s) + 1
    BY <2>1
  <2>3. out = Reply!Put(buf, at, t)
    BY <1>1, <1>7, <2>2
  <2>4. /\ out \in Seq(Characters) /\ Len(out) = Len(buf)
        /\ \A i \in 1..Len(buf) : out[i] =
             IF i \in at..(at + Len(t) - 1) THEN t[i - at + 1] ELSE buf[i]
    BY <1>1, <1>4, <1>5, <2>3, PutPlaces, SMTT(60)
  <2> QED  BY <2>2, <2>4
<1>9. PICK st : st = s \o text /\ NoNul(st) /\ Len(st) = Len(s) + Len(text)
  BY <1>1, ConcatHasNoNul
<1>10. \A i \in 1..Len(st) : st[i] = IF i <= Len(s) THEN s[i] ELSE text[i - Len(s)]
  BY <1>1, <1>3, <1>9
<1>11. Len(text) \in Nat /\ Len(out) = Len(st) + rest
  BY <1>1, <1>3, <1>4, <1>8, <1>9
<1>12. ASSUME NEW i \in 1..(Len(st) + rest)
       PROVE  out[i] = IF i <= Len(st) THEN st[i] ELSE Reply!Nul
  <2>1. i \in 1..Len(buf) /\ Len(s) \in Nat /\ Len(text) \in Nat
    BY <1>1, <1>3, <1>4, <1>8, <1>11
  <2>2. CASE i <= Len(s)
    BY <1>1, <1>4, <1>5, <1>8, <1>9, <1>10, <2>1, <2>2
  <2>3. CASE i > Len(s) /\ i <= Len(s) + Len(text)
    <3>1. i \in (Len(s) + 1)..(Len(s) + 1 + Len(t) - 1) /\ i - (Len(s) + 1) + 1 = i - Len(s)
      BY <1>1, <1>5, <2>1, <2>3
    <3>2. i - Len(s) \in 1..Len(text)
      BY <2>1, <2>3
    <3>3. out[i] = text[i - Len(s)]
      BY <1>1, <1>5, <1>8, <2>1, <2>3, <3>1, <3>2
    <3> QED  BY <1>1, <1>9, <1>10, <2>1, <2>3, <3>3
  <2>4. CASE i = Len(s) + Len(text) + 1
    BY <1>1, <1>4, <1>5, <1>8, <1>9, <1>10, <2>1, <2>4
  <2>5. CASE i > Len(s) + Len(text) + 1
    BY <1>1, <1>4, <1>5, <1>8, <1>9, <1>10, <2>1, <2>5
  <2> QED  BY <2>1, <2>2, <2>3, <2>4, <2>5
<1>13. out = Filled(st, rest)
  BY <1>1, <1>8, <1>9, <1>11, <1>12, FilledFromPlaces
<1> QED  BY <1>1, <1>6, <1>9, <1>13

-------------------------------------------------------------------------------
(* The response. *)

\* The buffer keeps its size; before the response is put together it holds the caller's.
ResponseInv ==
    /\ headersLen \in Nat /\ bodyLen \in Nat /\ Digits(bodyLen) \in Nat
    /\ headers \in Seq(Characters) /\ Len(headers) = Reply!HeadersLength + 1
    /\ pc = "stringify" =>
         headers = Filled(Reply!Text("given", headersLen), Reply!HeadersLength + 1 - headersLen)
    /\ Reply!ResponseIsAsAsked

\* The lengths of the parts.
LEMMA PartLengths ==
    ASSUME headersLen \in Nat, bodyLen \in Nat, Digits(bodyLen) \in Nat
    PROVE  /\ Reply!HeadersLength = headersLen + 97 + Digits(bodyLen)
           /\ \A text \in {Reply!DefaultHeaders, Reply!DateHeader, Reply!LengthHeader,
                            Reply!Text("given", headersLen), Reply!Text("blank", 3),
                            Reply!Text("body", bodyLen),
                                Reply!StatusLine(status)} : NoNul(text)
           /\ Len(Reply!DefaultHeaders) = 43 /\ Len(Reply!DateHeader) = 36
           /\ Len(Reply!Text("given", headersLen)) = headersLen
           /\ Len(Reply!Text("blank", 3)) = 3
           /\ Len(Reply!Text("body", bodyLen)) = bodyLen
<1>1. /\ NoNul(Reply!DefaultHeaders) /\ Len(Reply!DefaultHeaders) = 43
      /\ NoNul(Reply!DateHeader) /\ Len(Reply!DateHeader) = 36
      /\ NoNul(Reply!LengthHeader)
      /\ NoNul(Reply!Text("given", headersLen)) /\
          Len(Reply!Text("given", headersLen)) = headersLen
      /\ NoNul(Reply!Text("blank", 3)) /\ Len(Reply!Text("blank", 3)) = 3
      /\ NoNul(Reply!Text("body", bodyLen)) /\ Len(Reply!Text("body", bodyLen)) = bodyLen
  <2>1. \A name \in Names, n \in Nat : NoNul(Reply!Text(name, n)) /\
            Len(Reply!Text(name, n)) = n
    BY TextHasNoNul, Zenon
  <2>2. {"default", "date", "length", "given", "blank", "body"} \subseteq Names
    BY DEF Names
  <2>3. 43 \in Nat /\ 36 \in Nat /\ 17 + Digits(bodyLen) \in Nat /\ 3 \in Nat
    OBVIOUS
  <2> QED  BY <2>1, <2>2, <2>3 DEF Reply!DefaultHeaders, Reply!DateHeader, Reply!LengthHeader
<1>2. NoNul(Reply!StatusLine(status))
  <2>1. {"200 OK", "400 Bad Request", "404 Not Found", "405 Method Not Allowed",
         "500 Internal Server Error"} \subseteq Names
    BY DEF Names
  <2>2. \A name \in Names, n \in Nat : NoNul(Reply!Text(name, n))
    BY TextHasNoNul, Zenon
  <2>3. /\ NoNul(Reply!Text("200 OK", 16)) /\ NoNul(Reply!Text("400 Bad Request", 25))
        /\ NoNul(Reply!Text("404 Not Found", 23)) /\
            NoNul(Reply!Text("405 Method Not Allowed", 32))
        /\ NoNul(Reply!Text("500 Internal Server Error", 35))
    <3>1. 16 \in Nat /\ 25 \in Nat /\ 23 \in Nat /\ 32 \in Nat /\ 35 \in Nat
      OBVIOUS
    <3>2. /\ "200 OK" \in Names /\ "400 Bad Request" \in Names /\ "404 Not Found" \in Names
          /\ "405 Method Not Allowed" \in Names /\ "500 Internal Server Error" \in Names
      BY <2>1
    <3> QED  BY <2>2, <3>1, <3>2, Zenon
  <2> QED  BY <2>3, Zenon DEF Reply!StatusLine
<1>3. Reply!HeadersLength = headersLen + 97 + Digits(bodyLen)
  BY <1>1 DEF Reply!HeadersLength
<1> QED  BY <1>1, <1>2, <1>3, Zenon

\* strncpy and strncat leave a buffer its length.
LEMMA CopiesKeepLength ==
    ASSUME NEW buf \in Seq(Characters), NEW text, NoNul(text), NEW n \in Nat
    PROVE  /\ Reply!strncpy(buf, text, n) \in Seq(Characters)
           /\ Len(Reply!strncpy(buf, text, n)) = Len(buf)
           /\ Reply!strncat(buf, text, n) \in Seq(Characters)
           /\ Len(Reply!strncat(buf, text, n)) = Len(buf)
<1>1. text \in Seq(Characters) /\ Reply!Nul \in Characters
  BY NulIsCharacter DEF NoNul
<1>2. PICK first : first = Reply!First(n, text) /\ first \in Seq(Characters)
  <2>1. {n, Len(text)} \in SUBSET Nat /\ {n, Len(text)} # {}
    BY <1>1
  <2>2. PICK m : m = Reply!Min({n, Len(text)})
    OBVIOUS
  <2>3. m \in {n, Len(text)} /\ \A i \in {n, Len(text)} : m =< i
    BY <2>1, <2>2, LeastNatural, Zenon DEF Reply!Min
  <2>4. m \in 0..Len(text)
    BY <1>1, <2>1, <2>3
  <2>5. SubSeq(text, 1, m) \in Seq(Characters)
    BY <1>1, <2>4
  <2> QED  BY <2>2, <2>5 DEF Reply!First
<1>3. PICK copied : /\ copied = IF Len(text) >= n THEN first
                               ELSE text \o Reply!Padding(n - Len(text))
                    /\ copied \in Seq(Characters)
  <2>1. CASE Len(text) >= n
    BY <1>2, <2>1
  <2>2. CASE ~(Len(text) >= n)
    <3>1. n - Len(text) \in Nat
      BY <1>1, <2>2
    <3>2. PICK zeroes : zeroes = Reply!Padding(n - Len(text)) /\ zeroes \in Seq(Characters)
      BY <3>1, PaddingPlaces
    <3>3. text \o zeroes \in Seq(Characters)
      BY <1>1, <3>2
    <3> QED  BY <2>2, <3>2, <3>3
  <2> QED  BY <2>1, <2>2
<1>4. Reply!strncpy(buf, text, n) = Reply!Put(buf, 1, copied)
  BY <1>2, <1>3 DEF Reply!strncpy
<1>5. PICK at \in Nat \ {0} : at = Len(Reply!StringIn(buf)) + 1
  <2>1. Reply!StringIn(buf) \in Seq(Characters)
    <3>1. PICK long : long = Append(buf, Reply!Nul)
      OBVIOUS
    <3>2. PICK I : I = {i \in 1..Len(long) : long[i] = Reply!Nul}
      OBVIOUS
    <3>3. I \in SUBSET (1..(Len(buf) + 1)) /\ I # {}
      <4>1. Len(long) = Len(buf) + 1 /\ long[Len(buf) + 1] = Reply!Nul /\ Len(buf) \in Nat
        BY <1>1, <3>1
      <4> QED  BY <3>2, <4>1
    <3>4. PICK m : m = Reply!Min(I)
      OBVIOUS
    <3>5. m \in I
      <4>1. I \in SUBSET Nat
        BY <3>3
      <4> QED  BY <3>3, <3>4, <4>1, LeastNatural, Zenon DEF Reply!Min
    <3>6. Reply!SelectInSeq(Append(buf, Reply!Nul), LAMBDA c : c = Reply!Nul) = m
      BY <3>1, <3>2, <3>3, <3>4, Zenon DEF Reply!SelectInSeq
    <3>7. Reply!StringIn(buf) = SubSeq(buf, 1, m - 1)
      BY <3>6, Zenon DEF Reply!StringIn
    <3>8. m - 1 \in 0..Len(buf)
      BY <3>3, <3>5
    <3>9. SubSeq(buf, 1, m - 1) \in Seq(Characters)
      BY <3>8
    <3> QED  BY <3>7, <3>9
  <2> QED  BY <2>1
<1>6. PICK added : added = first \o <<Reply!Nul>> /\ added \in Seq(Characters)
  <2>1. <<Reply!Nul>> \in Seq(Characters)
    BY <1>1
  <2> QED  BY <1>2, <2>1, ConcatProperties
<1>7. Reply!strncat(buf, text, n) = Reply!Put(buf, at, added)
  BY <1>2, <1>5, <1>6 DEF Reply!strncat
<1>8. /\ Reply!Put(buf, 1, copied) \in Seq(Characters)
      /\ Len(Reply!Put(buf, 1, copied)) = Len(buf)
  <2>1. PICK one \in Nat \ {0} : one = 1
    OBVIOUS
  <2> QED  BY <1>3, <2>1, PutPlaces
<1>9. /\ Reply!Put(buf, at, added) \in Seq(Characters)
      /\ Len(Reply!Put(buf, at, added)) = Len(buf)
  BY <1>5, <1>6, PutPlaces
<1> QED  BY <1>4, <1>7, <1>8, <1>9

\* A copy that fills the buffer but for its last byte, and the byte that is set behind it.
LEMMA GivenIsCopied ==
    ASSUME NEW buf \in Seq(Characters), NEW text, NoNul(text), NEW n \in Nat,
           Len(text) < n, Len(buf) = n + 1
    PROVE  [Reply!strncpy(buf, text, n) EXCEPT ![n + 1] = Reply!Nul]
             = Filled(text, n + 1 - Len(text))
<1>1. text \in Seq(Characters) /\ Reply!Nul \in Characters /\ Len(text) \in Nat
  BY NulIsCharacter DEF NoNul
<1>2. PICK k \in Nat : k = n - Len(text)
  BY <1>1
<1>3. PICK copied : copied = Filled(text, k)
  OBVIOUS
<1>4. /\ copied \in Seq(Characters) /\ Len(copied) = n
      /\ \A i \in 1..n : copied[i] = IF i <= Len(text) THEN text[i] ELSE Reply!Nul
  <2>1. Len(text) + k = n
    BY <1>1, <1>2
  <2> QED  BY <1>3, <2>1, FilledPlaces
<1>5. Reply!strncpy(buf, text, n) = Reply!Put(buf, 1, copied)
  <2>1. ~(Len(text) >= n)
    BY <1>1
  <2> QED  BY <1>2, <1>3, <2>1 DEF Reply!strncpy, Filled
<1>6. PICK put : /\ put = Reply!Put(buf, 1, copied) /\ put \in Seq(Characters) /\
                     Len(put) = n + 1
                 /\ \A i \in 1..(n + 1) : put[i] =
                      IF i \in 1..(1 + Len(copied) - 1) THEN copied[i - 1 + 1] ELSE buf[i]
  <2>1. PICK one \in Nat \ {0} : one = 1
    OBVIOUS
  <2> QED  BY SMTT(60), <1>4, <2>1, PutPlaces
<1>7. \A i \in 1..n : put[i] = copied[i]
  BY <1>4, <1>6
<1>8. PICK out : out = [put EXCEPT ![n + 1] = Reply!Nul]
  OBVIOUS
<1>9. /\ out \in Seq(Characters) /\ Len(out) = n + 1 /\ out[n + 1] = Reply!Nul
      /\ \A i \in 1..n : out[i] = put[i]
  BY <1>1, <1>6, <1>8, ExceptSeq
<1>10. n + 1 - Len(text) \in Nat /\ Len(out) = Len(text) + (n + 1 - Len(text))
  BY <1>1, <1>9
<1>11. \A i \in 1..(Len(text) + (n + 1 - Len(text))) :
         out[i] = IF i <= Len(text) THEN text[i] ELSE Reply!Nul
  <2>1. SUFFICES ASSUME NEW i \in 1..(n + 1)
                 PROVE  out[i] = IF i <= Len(text) THEN text[i] ELSE Reply!Nul
    BY <1>1
  <2>2. CASE i = n + 1
    BY <1>1, <1>9, <2>2
  <2>3. CASE i # n + 1
    <3>1. i \in 1..n
      BY <2>3
    <3> QED  BY <1>4, <1>7, <1>9, <3>1
  <2> QED  BY <2>2, <2>3
<1>12. out = Filled(text, n + 1 - Len(text))
  BY <1>9, <1>10, <1>11, FilledFromPlaces
<1> QED  BY <1>5, <1>6, <1>8, <1>12

\* A block of total zeroes has room for them, and H counts the second.
AllFit(line, fields, blank, content, H, total) ==
    /\ NoNul(line) /\ NoNul(fields) /\ NoNul(blank) /\ NoNul(content)
    /\ H \in Nat /\ total \in Nat /\ Len(blank) = 3 /\ Len(fields) + 3 < H
    /\ total = Len(content) + H + Len(line)

\* Four texts appended to a block of zeroes that has room for them.
LEMMA FourFit ==
    ASSUME NEW line, NEW fields, NEW blank, NEW content, NEW H, NEW total,
           AllFit(line, fields, blank, content, H, total)
    PROVE  \E k \in Nat \ {0} :
             Reply!strncat(Reply!strncat(Reply!strncat(Reply!strncat(
                 Reply!Padding(total),
                     line, Len(line)), fields, H), blank, 4), content, Len(content))
               = Filled(((line \o fields) \o blank) \o content, k)
<1>1. /\ NoNul(line) /\ NoNul(fields) /\ NoNul(blank) /\ NoNul(content)
      /\ H \in Nat /\ total \in Nat /\ Len(blank) = 3 /\ Len(fields) + 3 < H
      /\ total = Len(content) + H + Len(line)
  BY DEF AllFit
<1>2. PICK l \in Nat, g \in Nat, c \in Nat : l = Len(line) /\ g = Len(fields) /\
          c = Len(content)
  BY <1>1 DEF NoNul
<1>3. NoNul(<<>>) /\ <<>> \o line = line /\ Reply!Padding(total) = Filled(<<>>, total)
  <2>1. NoNul(<<>>)
    BY DEF NoNul
  <2>2. PICK z : z = Reply!Padding(total) /\ z \in Seq(Characters)
    BY <1>1, PaddingPlaces
  <2>3. <<>> \o z = z /\ <<>> \o line = line
    BY <1>1, <2>2 DEF NoNul
  <2> QED  BY <2>1, <2>2, <2>3 DEF Filled
<1>4. PICK k1 \in Nat : k1 = total - l /\ k1 = c + H
  BY <1>1, <1>2
<1>5. Reply!strncat(Filled(<<>>, total), line, l) = Filled(line, k1)
  <2>1. l <= l /\ total = k1 + l
    BY <1>1, <1>2, <1>4
  <2>2. Reply!strncat(Filled(<<>>, total), line, l) = Filled(<<>> \o line, k1)
    <3>1. Fits(<<>>, line, total, l, k1)
      BY <1>1, <1>2, <1>3, <1>4, <2>1 DEF Fits
    <3> QED  BY <3>1, CatFilled, Zenon
  <2> QED  BY <1>1, <1>3, <2>2
<1>6. PICK k2 \in Nat : k2 = k1 - g /\ k2 > 3 + c
  <2>1. k1 - g \in Nat /\ k1 - g > 3 + c
    BY <1>1, <1>2, <1>4
  <2> QED  BY <2>1
<1>7. Reply!strncat(Filled(line, k1), fields, H) = Filled(line \o fields, k2)
  <2>1. g <= H /\ k1 = k2 + g
    BY <1>1, <1>2, <1>4, <1>6
  <2>2. Fits(line, fields, k1, H, k2)
    BY <1>1, <1>2, <2>1 DEF Fits
  <2> QED  BY <2>2, CatFilled, Zenon
<1>8. NoNul(line \o fields) /\ NoNul((line \o fields) \o blank)
  BY <1>1, ConcatHasNoNul
<1>9. PICK k3 \in Nat : k3 = k2 - 3 /\ k3 > c
  BY <1>1, <1>6
<1>10. Reply!strncat(Filled(line \o fields, k2), blank, 4) =
           Filled((line \o fields) \o blank, k3)
  <2>1. 4 \in Nat /\ 3 <= 4 /\ k2 = k3 + 3
    BY <1>1, <1>2, <1>9
  <2>2. Fits(line \o fields, blank, k2, 4, k3)
    BY <1>1, <1>8, <1>9, <2>1 DEF Fits
  <2> QED  BY <2>2, CatFilled, Zenon
<1>11. PICK k4 \in Nat \ {0} : k4 = k3 - c
  BY <1>1, <1>9
<1>12. Reply!strncat(Filled((line \o fields) \o blank, k3), content, c)
         = Filled(((line \o fields) \o blank) \o content, k4)
  <2>1. c <= c /\ k3 = k4 + c
    BY <1>1, <1>11
  <2>2. Fits((line \o fields) \o blank, content, k3, c, k4)
    BY <1>1, <1>2, <1>8, <2>1 DEF Fits
  <2> QED  BY <2>2, CatFilled, Zenon
<1> QED  BY <1>1, <1>2, <1>3, <1>5, <1>7, <1>10, <1>12

\* Everything fits into the response, with a byte to spare.
LEMMA PartsFit ==
    ASSUME ResponseInv, pc = "stringify", Reply!Stringify
    PROVE  Reply!ResponseIsAsAsked'
<1>1. PICK line, fields, blank, content :
        /\ line = Reply!StatusLine(status) /\ fields = Reply!Text("given", headersLen)
        /\ blank = Reply!Text("blank", 3) /\ content = Reply!Text("body", bodyLen)
  OBVIOUS
<1>2. PICK H, total : H = Reply!HeadersLength /\ total = Reply!TotalLength
  OBVIOUS
<1>3. /\ headersLen \in Nat /\ bodyLen \in Nat /\ Digits(bodyLen) \in Nat
      /\ headers = Filled(fields, H + 1 - headersLen)
  BY <1>1, <1>2 DEF ResponseInv
<1>4. /\ H = headersLen + 97 + Digits(bodyLen)
      /\ NoNul(line) /\ NoNul(fields) /\ NoNul(blank) /\ NoNul(content)
      /\ Len(fields) = headersLen /\ Len(blank) = 3 /\ Len(content) = bodyLen
  BY <1>1, <1>2, <1>3, PartLengths
<1>5. /\ status' = status /\ headersLen' = headersLen /\ bodyLen' = bodyLen
      /\ response' = Reply!strncat(Reply!strncat(Reply!strncat(Reply!strncat(
                       Reply!Padding(total), line, Len(line)),
                       Reply!StringIn(headers), H), blank, 4), content, bodyLen)
  BY <1>1, <1>2 DEF Reply!Stringify
<1>6. Reply!StringIn(headers) = fields
  <2>1. H + 1 - headersLen \in Nat
    BY <1>3, <1>4
  <2> QED  BY <1>3, <1>4, <2>1, StringOfFilled
<1>7. H \in Nat /\ Len(fields) + 3 < H
  BY <1>3, <1>4
<1>8. total = Len(content) + H + Len(line) /\ total \in Nat
  <2>1. Len(line) \in Nat
    BY <1>4 DEF NoNul
  <2> QED  BY <1>1, <1>2, <1>3, <1>4, <1>7, <2>1, SMTT(60) DEF Reply!TotalLength
<1>9. PICK k \in Nat \ {0} : response' = Filled(((line \o fields) \o blank) \o content, k)
  <2>1. AllFit(line, fields, blank, content, H, total)
    BY <1>4, <1>7, <1>8 DEF AllFit
  <2>2. PICK k \in Nat \ {0} :
          Reply!strncat(Reply!strncat(Reply!strncat(Reply!strncat(
              Reply!Padding(total),
                  line, Len(line)), fields, H), blank, 4), content, Len(content))
            = Filled(((line \o fields) \o blank) \o content, k)
    BY <2>1, FourFit
  <2> QED  BY <1>4, <1>5, <1>6, <2>2
<1>10. PICK s : s = ((line \o fields) \o blank) \o content
  OBVIOUS
<1>11. NoNul(s)
  <2>1. NoNul(line \o fields)
    BY <1>4, ConcatHasNoNul
  <2>2. NoNul((line \o fields) \o blank)
    BY <1>4, <2>1, ConcatHasNoNul
  <2> QED  BY <1>4, <1>10, <2>2, ConcatHasNoNul
<1>12. /\ Reply!StringIn(response') = s /\ Len(response') = Len(s) + k /\ Len(s) \in Nat
  <2>1. k \in Nat
    BY <1>9
  <2>2. Reply!StringIn(Filled(s, k)) = s /\ Len(Filled(s, k)) = Len(s) + k
    BY <1>11, <2>1, StringOfFilled, FilledPlaces, Zenon
  <2> QED  BY <1>9, <1>11, <1>10, <2>2 DEF NoNul
<1>13. Len(Reply!StringIn(response')) < Len(response')
  BY <1>9, <1>12
<1>14. Reply!StringIn(response') = Reply!StatusLine(status') \o Reply!Text("given", headersLen')
                                    \o Reply!Text("blank", 3) \o Reply!Text("body", bodyLen')
  BY <1>1, <1>5, <1>12, <1>10
<1> QED  BY <1>13, <1>14, Zenon DEF Reply!ResponseIsAsAsked

\* Every step keeps the invariant.
LEMMA ResponseStep ==
    ASSUME ResponseInv, Reply!Next
    PROVE  ResponseInv'
<1>1. /\ headersLen \in Nat /\ bodyLen \in Nat /\ Digits(bodyLen) \in Nat
      /\ headers \in Seq(Characters) /\ Len(headers) = Reply!HeadersLength + 1
  BY DEF ResponseInv
<1>2. status' = status /\ headersLen' = headersLen /\ bodyLen' = bodyLen
  BY DEF Reply!Next, Reply!CopyDefaults, Reply!AppendLength, Reply!CopyGiven, Reply!Stringify
<1>3. /\ Reply!HeadersLength = headersLen + 97 + Digits(bodyLen)
      /\ NoNul(Reply!DefaultHeaders) /\ NoNul(Reply!DateHeader) /\ NoNul(Reply!LengthHeader)
      /\ NoNul(Reply!Text("given", headersLen)) /\
          Len(Reply!Text("given", headersLen)) = headersLen
      /\ Len(Reply!DefaultHeaders) = 43 /\ Len(Reply!DateHeader) = 36
  BY <1>1, PartLengths
<1>4. Reply!HeadersLength' = Reply!HeadersLength
  BY <1>2 DEF Reply!HeadersLength, Reply!DefaultHeaders, Reply!DateHeader
<1> SUFFICES /\ headers' \in Seq(Characters) /\ Len(headers') = Reply!HeadersLength + 1
             /\ pc' = "stringify" =>
                  headers' = Filled(Reply!Text("given", headersLen),
                                    Reply!HeadersLength + 1 - headersLen)
             /\ Reply!ResponseIsAsAsked'
  BY <1>1, <1>2, <1>4 DEF ResponseInv, Reply!Text
<1>5. CASE Reply!CopyDefaults
  <2>1. pc' = "length" /\ headers' = Reply!strncpy(Reply!strncpy(headers, Reply!DefaultHeaders,
          Len(Reply!DefaultHeaders)), Reply!DateHeader, Len(Reply!DateHeader))
    BY <1>5 DEF Reply!CopyDefaults
  <2>2. PICK first : first = Reply!strncpy(headers, Reply!DefaultHeaders, 43)
                     /\ first \in Seq(Characters) /\ Len(first) = Len(headers)
    <3>1. 43 \in Nat
      OBVIOUS
    <3> QED  BY <1>1, <1>3, <3>1, CopiesKeepLength
  <2>3. headers' \in Seq(Characters) /\ Len(headers') = Len(first)
    <3>1. 36 \in Nat /\ headers' = Reply!strncpy(first, Reply!DateHeader, 36)
      BY <1>3, <2>1, <2>2
    <3> QED  BY <1>3, <2>2, <3>1, CopiesKeepLength
  <2> QED  BY <1>1, <2>1, <2>2, <2>3 DEF Reply!ResponseIsAsAsked
<1>6. CASE Reply!AppendLength
  <2>1. PICK i \in 1..(Len(headers) + 1) :
          IF i + Digits(bodyLen) <= Len(headers)
          THEN /\ headers' = Reply!strncat([headers EXCEPT ![i] = Reply!Nul],
                                            Reply!LengthHeader, Digits(bodyLen))
               /\ pc' = "given"
          ELSE pc' = "overflow" /\ UNCHANGED headers
    BY <1>6, Zenon DEF Reply!AppendLength
  <2>2. pc' \in {"given", "overflow"}
    BY <2>1
  <2>3. Reply!ResponseIsAsAsked'
    BY <2>2 DEF Reply!ResponseIsAsAsked
  <2>4. CASE i + Digits(bodyLen) <= Len(headers)
    <3>1. headers' = Reply!strncat([headers EXCEPT ![i] = Reply!Nul], Reply!LengthHeader,
                                   Digits(bodyLen))
      BY <2>1, <2>4
    <3>2. i \in 1..Len(headers)
      BY <1>1, <2>4
    <3>3. PICK zeroed : /\ zeroed = [headers EXCEPT ![i] = Reply!Nul]
                        /\ zeroed \in Seq(Characters) /\ Len(zeroed) = Len(headers)
      <4>1. Reply!Nul \in Characters
        BY NulIsCharacter
      <4>2. [headers EXCEPT ![i] = Reply!Nul] \in Seq(Characters)
            /\ Len([headers EXCEPT ![i] = Reply!Nul]) = Len(headers)
        BY <1>1, <3>2, <4>1, ExceptSeq
      <4> QED  BY <4>2
    <3>4. headers' \in Seq(Characters) /\ Len(headers') = Len(zeroed)
      <4>1. headers' = Reply!strncat(zeroed, Reply!LengthHeader, Digits(bodyLen))
        BY <3>1, <3>3, Zenon
      <4>2. NoNul(Reply!LengthHeader) /\ Digits(bodyLen) \in Nat
        BY <1>1, <1>3
      <4> QED  BY <3>3, <4>1, <4>2, CopiesKeepLength, Zenon
    <3>5. Len(headers') = Reply!HeadersLength + 1
      BY <1>1, <3>3, <3>4, Zenon
    <3> QED  BY <2>2, <2>3, <3>4, <3>5
  <2>5. CASE ~(i + Digits(bodyLen) <= Len(headers))
    BY <1>1, <2>1, <2>2, <2>3, <2>5
  <2> QED  BY <2>4, <2>5
<1>7. CASE Reply!CopyGiven
  <2>1. /\ pc' = "stringify"
        /\ headers' = [Reply!strncpy(headers, Reply!Text("given", headersLen), Reply!HeadersLength)
                        EXCEPT ![Reply!HeadersLength + 1] = Reply!Nul]
    BY <1>7 DEF Reply!CopyGiven
  <2>2. Reply!HeadersLength \in Nat /\ headersLen < Reply!HeadersLength
    BY <1>1, <1>3
  <2>3. headers' = Filled(Reply!Text("given", headersLen), Reply!HeadersLength + 1 - headersLen)
    <3>1. PICK n \in Nat, text \in {Reply!Text("given", headersLen)} : n =
              Reply!HeadersLength /\ text = Reply!Text("given", headersLen)
      BY <2>2
    <3>2. [Reply!strncpy(headers, text, n) EXCEPT ![n + 1] = Reply!Nul]
            = Filled(text, n + 1 - Len(text))
      BY <1>1, <1>3, <2>2, <3>1, GivenIsCopied, SMTT(60)
    <3> QED  BY <1>3, <2>1, <3>1, <3>2
  <2>4. PICK k \in Nat : k = Reply!HeadersLength + 1 - headersLen
    BY <1>1, <2>2
  <2>5. headers' \in Seq(Characters) /\ Len(headers') = headersLen + k
    <3>1. PICK text : text = Reply!Text("given", headersLen) /\ headers' = Filled(text, k)
      BY <2>3, <2>4, Zenon
    <3>2. NoNul(text) /\ Len(text) = headersLen
      BY <1>3, <3>1
    <3> QED  BY <2>4, <3>1, <3>2, FilledPlaces, Zenon
  <2>6. Len(headers') = Reply!HeadersLength + 1
    BY <1>1, <2>2, <2>4, <2>5
  <2> QED  BY <2>1, <2>3, <2>5, <2>6 DEF Reply!ResponseIsAsAsked
<1>8. CASE Reply!Stringify
  <2>1. headers' = headers /\ pc = "stringify" /\ pc' = "done"
    BY <1>8 DEF Reply!Stringify
  <2> QED  BY <1>1, <1>8, <2>1, PartsFit
<1> QED  BY <1>5, <1>6, <1>7, <1>8 DEF Reply!Next

(* Whatever the status, the headers and the body, and wherever in the block line 56 found
   the end of a string (if it wrote behind the block the model ends there), the response is
   the status line, the headers, a blank line and the body, and its terminator is inside the
   block (http_response.c:26-108). *)
THEOREM ResponseCorrect == Spec => []ResponseIsAsAsked
<1>1. Init => ResponseInv
  <2> SUFFICES ASSUME Init  PROVE ResponseInv
    OBVIOUS
  <2>1. PICK e \in Exchanges : Reply!Start(e.reply)
    BY DEF Init
  <2>2. headersLen \in Nat /\ bodyLen \in Nat /\ Digits(bodyLen) \in Nat /\ pc = "defaults"
    BY <2>1, RepliesAssumption DEF Reply!Start
  <2>3. PICK n \in Nat : n = Reply!HeadersLength + 1
    BY <2>2, PartLengths
  <2>4. headers = [i \in 1..n |-> Reply!Unwritten]
    BY <2>1, <2>3 DEF Reply!Start
  <2>5. headers \in Seq(Characters) /\ Len(headers) = n
    BY <2>4, NulIsCharacter
  <2> QED  BY <2>2, <2>3, <2>5 DEF ResponseInv, Reply!ResponseIsAsAsked
<1>2. ResponseInv /\ [Next]_vars => ResponseInv'
  <2> SUFFICES ASSUME ResponseInv, [Next]_vars  PROVE ResponseInv'
    OBVIOUS
  <2>1. CASE Reply!Next
    BY <2>1, ResponseStep
  <2>2. CASE UNCHANGED replyVars
    BY <2>2, ZenonT(60)
       DEF replyVars, ResponseInv, Reply!ResponseIsAsAsked, Reply!HeadersLength, Reply!Text,
            Reply!DefaultHeaders, Reply!DateHeader, Reply!StatusLine
  <2> QED  BY <2>1, <2>2 DEF Next, HeadArrives, BodyArrives, ReplyIsMade, vars
<1>3. ResponseInv => ResponseIsAsAsked
  BY DEF ResponseInv, ResponseIsAsAsked
<1> QED  BY <1>1, <1>2, <1>3, PTL DEF Spec

-------------------------------------------------------------------------------
(* A decoder that takes one byte at a time. *)

States == {"size", "ext", "data", "crlf", "head", "middle"}
Decoders == [state : States, left : Nat, hex : Nat, consume_trailer : BOOLEAN]

\* What it has come to: ret is -2 while it goes on, -1 if it refused the byte behind the
\* at-th and 0 if the at-th was the last.
Configurations == [d : Decoders, out : Seq(Nat), ret : {-2, -1, 0}, at : Nat]

Config(d, out, r, i) == [d |-> d, out |-> out, ret |-> r, at |-> i]
With(d, s, l, h) == [state |-> s, left |-> l, hex |-> h, consume_trailer |-> d.consume_trailer]

\* A byte of an extension, and what another byte in another state does; it is the i-th.
InExtension(m, b, i) ==
    IF b # Decoder!LF THEN Config(With(m.d, "ext", m.d.left, 0), m.out, -2, i)
    ELSE IF m.d.left # 0 THEN Config(With(m.d, "data", m.d.left, 0), m.out, -2, i)
    ELSE IF m.d.consume_trailer THEN Config(With(m.d, "head", 0, 0), m.out, -2, i)
    ELSE Config(With(m.d, "ext", 0, 0), m.out, 0, i)

InSize(m, b, i) ==
    IF b \in 0..15
    THEN IF m.d.hex < MaxDigits
         THEN Config(With(m.d, "size", m.d.left * 16 + b, m.d.hex + 1), m.out, -2, i)
         ELSE Config(m.d, m.out, -1, i - 1)
    ELSE IF m.d.hex = 0 THEN Config(m.d, m.out, -1, i - 1) ELSE InExtension(m, b, i)

InData(m, b, i) ==
    Config(With(m.d, IF m.d.left = 1 THEN "crlf" ELSE "data", m.d.left - 1, 0),
           Append(m.out, b), -2, i)

InCrlf(m, b, i) ==
    IF b = Decoder!CR THEN Config(m.d, m.out, -2, i)
    ELSE IF b = Decoder!LF THEN Config(With(m.d, "size", 0, 0), m.out, -2, i)
    ELSE Config(m.d, m.out, -1, i - 1)

InHead(m, b, i) ==
    IF b = Decoder!CR THEN Config(m.d, m.out, -2, i)
    ELSE IF b = Decoder!LF THEN Config(m.d, m.out, 0, i)
    ELSE Config(With(m.d, "middle", 0, 0), m.out, -2, i)

InMiddle(m, b, i) ==
    Config(With(m.d, IF b = Decoder!LF THEN "head" ELSE "middle", 0, 0), m.out, -2, i)

Taken(m, b, i) ==
    CASE m.ret # -2 -> m
      [] m.ret = -2 /\ m.d.state = "size" -> InSize(m, b, i)
      [] m.ret = -2 /\ m.d.state = "ext" -> InExtension(m, b, i)
      [] m.ret = -2 /\ m.d.state = "data" -> InData(m, b, i)
      [] m.ret = -2 /\ m.d.state = "crlf" -> InCrlf(m, b, i)
      [] m.ret = -2 /\ m.d.state = "head" -> InHead(m, b, i)
      [] m.ret = -2 /\ m.d.state = "middle" -> InMiddle(m, b, i)

\* The size of a chunk fits its type; nothing is left of a chunk outside of it.
GoodDecoder(d) ==
    /\ d \in Decoders /\ d.hex <= MaxDigits
    /\ d.state = "size" => d.left < Decoder!Sizes[d.hex]
    /\ d.state # "size" => d.hex = 0 /\ d.left < Decoder!Sizes[MaxDigits]
    /\ d.state = "data" => d.left > 0
    /\ d.state \in {"crlf", "head", "middle"} => d.left = 0
Good(m) == m \in Configurations /\ GoodDecoder(m.d)

-------------------------------------------------------------------------------
(* What it does byte by byte. *)

\* Each digit makes room for sixteen times as many sizes.
LEMMA SizesGrow ==
    /\ Decoder!Sizes \in [0..MaxDigits -> Nat]
    /\ Decoder!Sizes[0] = 1
    /\ \A n \in 1..MaxDigits : Decoder!Sizes[n] = 16 * Decoder!Sizes[n - 1]
    /\ \A n \in 0..MaxDigits : Decoder!Sizes[n] <= Decoder!Sizes[MaxDigits]
<1> DEFINE sizes == CHOOSE f : f = [n \in 0..MaxDigits |-> IF n = 0 THEN 1 ELSE 16 * f[n - 1]]
<1>1. MaxDigits \in Nat /\ Decoder!Sizes = sizes
  BY HttpExchangeAssumption DEF Decoder!Sizes
<1>2. PICK S : S = [p \in (1..MaxDigits) \X Nat |-> 16 * p[2]]
  OBVIOUS
<1>3. S \in [(1..MaxDigits) \X Nat -> Nat]
  BY <1>2
<1>4. PICK g \in [0..MaxDigits -> Nat] : g[0] = 1 /\
          \A n \in 1..MaxDigits : g[n] = S[<<n, g[n - 1]>>]
  <2>1. PICK N \in Nat, one \in Nat : N = MaxDigits /\ one = 1
    BY <1>1
  <2>2. Steps(Nat, N, one, S)
    BY <1>3, <2>1 DEF Steps
  <2>3. PICK g : Takes(Nat, N, one, S, g)
    BY <2>2, Iteration, Zenon
  <2> QED  BY <2>1, <2>3 DEF Takes
<1>5. \A n \in 1..MaxDigits : n - 1 \in 0..MaxDigits /\ g[n] = 16 * g[n - 1]
  <2> SUFFICES ASSUME NEW n \in 1..MaxDigits
               PROVE  n - 1 \in 0..MaxDigits /\ g[n] = 16 * g[n - 1]
    OBVIOUS
  <2>1. n - 1 \in 0..MaxDigits
    BY <1>1
  <2>2. <<n, g[n - 1]>> \in (1..MaxDigits) \X Nat
    BY <1>4, <2>1
  <2> QED  BY <1>2, <1>4, <2>1, <2>2
<1>6. g = [n \in 0..MaxDigits |-> IF n = 0 THEN 1 ELSE 16 * g[n - 1]]
  <2>1. \A n \in 0..MaxDigits : g[n] = IF n = 0 THEN 1 ELSE 16 * g[n - 1]
    BY <1>1, <1>4, <1>5
  <2> QED  BY <1>4, <2>1
<1>7. sizes = [n \in 0..MaxDigits |-> IF n = 0 THEN 1 ELSE 16 * sizes[n - 1]]
  BY <1>6
<1> HIDE DEF sizes
<1>8. \A n \in 1..MaxDigits : sizes[n] = 16 * sizes[n - 1]
  BY <1>1, <1>7
<1>9. sizes[0] = 1
  BY <1>1, <1>7
<1>10. PICK P : P = {n \in 0..MaxDigits : sizes[n] = g[n]}
  OBVIOUS
<1>11. \A n \in 0..MaxDigits : n \in P
  <2>1. 0 \in P
    BY <1>1, <1>4, <1>9, <1>10
  <2>2. \A n \in 0..MaxDigits : n < MaxDigits /\ n \in P => n + 1 \in P
    BY <1>1, <1>5, <1>8, <1>10
  <2>3. 0 \in Nat
    OBVIOUS
  <2> QED  BY <1>1, <2>1, <2>2, <2>3, Counting
<1>12. sizes \in [0..MaxDigits -> Nat]
  BY <1>4, <1>7, <1>10, <1>11
<1>13. PICK Q : Q = {n \in 0..MaxDigits : sizes[MaxDigits - n] <= sizes[MaxDigits]}
  OBVIOUS
<1>14. \A n \in 0..MaxDigits : n \in Q
  <2>1. 0 \in Q
    BY <1>1, <1>12, <1>13
  <2>2. ASSUME NEW n \in 0..MaxDigits, n < MaxDigits, n \in Q
        PROVE  n + 1 \in Q
    <3>1. MaxDigits - n \in 1..MaxDigits /\ MaxDigits - (n + 1) = (MaxDigits - n) - 1
          /\ MaxDigits - (n + 1) \in 0..MaxDigits /\ n + 1 \in 0..MaxDigits
      BY <1>1, <2>2
    <3>2. sizes[MaxDigits - n] = 16 * sizes[MaxDigits - (n + 1)]
      BY <1>8, <3>1
    <3>3. sizes[MaxDigits - (n + 1)] \in Nat /\ sizes[MaxDigits - n] <= sizes[MaxDigits]
          /\ sizes[MaxDigits] \in Nat
      BY <1>1, <1>12, <1>13, <2>2, <3>1
    <3>4. sizes[MaxDigits - (n + 1)] <= sizes[MaxDigits]
      BY <3>2, <3>3
    <3> QED  BY <1>13, <3>1, <3>4
  <2>3. 0 \in Nat
    OBVIOUS
  <2> QED  BY <1>1, <2>1, <2>2, <2>3, Counting
<1>15. ASSUME NEW n \in 0..MaxDigits
       PROVE  sizes[n] <= sizes[MaxDigits]
  <2>1. MaxDigits - n \in 0..MaxDigits /\ MaxDigits - (MaxDigits - n) = n
    BY <1>1
  <2> QED  BY <1>13, <1>14, <2>1
<1> QED  BY <1>1, <1>8, <1>9, <1>12, <1>15

\* A byte leaves the configuration good.
LEMMA TakenIsGood ==
    ASSUME NEW m, Good(m), NEW b \in Nat, NEW i \in Nat \ {0}
    PROVE  Good(Taken(m, b, i)) /\ Taken(m, b, i).d.consume_trailer = m.d.consume_trailer
<1>1. /\ m \in Configurations /\ m.d \in Decoders /\ m.d.hex <= MaxDigits
      /\ m.d.state = "size" => m.d.left < Decoder!Sizes[m.d.hex]
      /\ m.d.state # "size" => m.d.hex = 0 /\ m.d.left < Decoder!Sizes[MaxDigits]
      /\ m.d.state = "data" => m.d.left > 0
      /\ m.d.state \in {"crlf", "head", "middle"} => m.d.left = 0
  BY DEF Good, GoodDecoder, Configurations
<1>2. /\ m.d.state \in States /\ m.d.left \in Nat /\ m.d.hex \in Nat
      /\ m.d.consume_trailer \in BOOLEAN
      /\ m.out \in Seq(Nat) /\ m.ret \in {-2, -1, 0} /\ m.at \in Nat
  BY <1>1 DEF Configurations, Decoders
<1>3. /\ MaxDigits \in Nat /\ Decoder!Sizes \in [0..MaxDigits -> Nat] /\ Decoder!Sizes[0] = 1
      /\ \A n \in 1..MaxDigits : Decoder!Sizes[n] = 16 * Decoder!Sizes[n - 1]
      /\ \A n \in 0..MaxDigits : Decoder!Sizes[n] <= Decoder!Sizes[MaxDigits]
  BY SizesGrow, HttpExchangeAssumption
<1>4. PICK top \in Nat : top = Decoder!Sizes[MaxDigits]
  BY <1>3
<1>5. 0 < top
  <2>1. 0 \in 0..MaxDigits
    BY <1>3
  <2> QED  BY <1>3, <1>4, <2>1
<1>6. i - 1 \in Nat
  OBVIOUS
<1>7. ASSUME NEW s \in States, NEW l \in Nat, NEW h \in Nat,
          NEW o \in Seq(Nat), NEW r \in {-2, -1, 0},
             NEW j \in Nat, h <= MaxDigits,
             s = "size" => l < Decoder!Sizes[h], s # "size" => h = 0 /\ l < top,
             s = "data" => l > 0, s \in {"crlf", "head", "middle"} => l = 0
      PROVE  Good(Config(With(m.d, s, l, h), o, r, j))
             /\ Config(With(m.d, s, l, h), o, r, j).d.consume_trailer = m.d.consume_trailer
  BY <1>2, <1>4, <1>7 DEF Good, GoodDecoder, Config, With, Configurations, Decoders
<1>8. ASSUME NEW r \in {-2, -1, 0}, NEW j \in Nat
      PROVE  Good(Config(m.d, m.out, r, j))
             /\ Config(m.d, m.out, r, j).d.consume_trailer = m.d.consume_trailer
  BY <1>1, <1>2, <1>8 DEF Good, GoodDecoder, Config, Configurations
<1>9. m.d.left < top
  <2>1. CASE m.d.state = "size"
    <3>1. m.d.hex \in 0..MaxDigits /\ Decoder!Sizes[m.d.hex] \in Nat
      BY <1>1, <1>2, <1>3
    <3> QED  BY SMTT(60), <1>1, <1>2, <1>3, <1>4, <2>1, <3>1
  <2>2. CASE m.d.state # "size"
    BY <1>1, <1>4, <2>2
  <2> QED  BY <2>1, <2>2
<1> DEFINE Fine(x) == Good(x) /\ x.d.consume_trailer = m.d.consume_trailer
<1>10. Fine(InExtension(m, b, i))
  <2>1. Fine(Config(With(m.d, "ext", m.d.left, 0), m.out, -2, i))
    BY <1>2, <1>3, <1>4, <1>9 DEF Good, GoodDecoder, Config, With,
        Configurations, Decoders, States
  <2>2. m.d.left # 0 => Fine(Config(With(m.d, "data", m.d.left, 0), m.out, -2, i))
    BY <1>2, <1>3, <1>4, <1>9 DEF Good, GoodDecoder, Config, With,
        Configurations, Decoders, States
  <2>3. Fine(Config(With(m.d, "head", 0, 0), m.out, -2, i))
    BY <1>2, <1>3, <1>4, <1>5 DEF Good, GoodDecoder, Config, With,
        Configurations, Decoders, States
  <2>4. Fine(Config(With(m.d, "ext", 0, 0), m.out, 0, i))
    BY <1>2, <1>3, <1>4, <1>5 DEF Good, GoodDecoder, Config, With,
        Configurations, Decoders, States
  <2> QED  BY <2>1, <2>2, <2>3, <2>4 DEF InExtension
<1>11. CASE m.ret # -2
  BY <1>11 DEF Taken
<1>12. CASE m.ret = -2 /\ m.d.state = "size"
  <2>1. ASSUME b \in 0..15, m.d.hex < MaxDigits
        PROVE  Fine(Config(With(m.d, "size", m.d.left * 16 + b, m.d.hex + 1), m.out, -2, i))
    <3>1. m.d.hex + 1 \in 1..MaxDigits /\ (m.d.hex + 1) - 1 = m.d.hex /\
              m.d.hex \in 0..MaxDigits
      <4>1. PICK h \in Nat : h = m.d.hex /\ h < MaxDigits
        BY <1>2, <2>1
      <4> QED  BY <1>3, <4>1, SMTT(60)
    <3>2. Decoder!Sizes[m.d.hex + 1] = 16 * Decoder!Sizes[m.d.hex] /\
              Decoder!Sizes[m.d.hex] \in Nat
      BY <1>3, <3>1
    <3>3. m.d.left * 16 + b < Decoder!Sizes[m.d.hex + 1] /\ m.d.left * 16 + b \in Nat
      BY <1>1, <1>2, <1>12, <2>1, <3>2, SMTT(60)
    <3>4. PICK l \in Nat, h \in Nat : l = m.d.left * 16 + b /\ h = m.d.hex + 1
      BY <3>1, <3>3
    <3>5. l < Decoder!Sizes[h] /\ h <= MaxDigits
      BY <1>3, <3>1, <3>3, <3>4
    <3> QED  BY <1>2, <3>4, <3>5 DEF Good, GoodDecoder, Config, With, Configurations,
            Decoders, States
  <2>2. Fine(Config(m.d, m.out, -1, i - 1))
    BY <1>6, <1>8
  <2>3. Taken(m, b, i) = InSize(m, b, i)
    BY <1>12 DEF Taken
  <2> QED  BY <1>10, <2>1, <2>2, <2>3 DEF InSize
<1>13. CASE m.ret = -2 /\ m.d.state = "ext"
  BY <1>10, <1>13 DEF Taken
<1>14. CASE m.ret = -2 /\ m.d.state = "data"
  <2>1. Taken(m, b, i) = InData(m, b, i)
    BY <1>14 DEF Taken
  <2>2. m.d.left - 1 \in Nat /\ m.d.left - 1 < top /\ Append(m.out, b) \in Seq(Nat)
    BY <1>1, <1>2, <1>9, <1>14
  <2>3. Fine(Config(With(m.d, "crlf", 0, 0), Append(m.out, b), -2, i))
    BY <1>2, <1>3, <1>4, <1>5, <2>2 DEF Good, GoodDecoder, Config, With, Configurations,
        Decoders, States
  <2>4. m.d.left # 1 => m.d.left - 1 > 0
    BY <1>1, <1>2, <1>14
  <2>5. m.d.left # 1 => Fine(Config(With(m.d, "data", m.d.left - 1, 0), Append(m.out, b), -2, i))
    BY <1>2, <1>3, <1>4, <2>2, <2>4 DEF Good, GoodDecoder, Config, With, Configurations,
        Decoders, States
  <2> QED  BY <1>2, <2>1, <2>3, <2>5 DEF InData
<1>15. CASE m.ret = -2 /\ m.d.state = "crlf"
  <2>1. Taken(m, b, i) = InCrlf(m, b, i)
    BY <1>15 DEF Taken
  <2>2. Fine(Config(With(m.d, "size", 0, 0), m.out, -2, i))
    BY <1>2, <1>3, <1>7, SMTT(60) DEF States
  <2> QED  BY <1>6, <1>8, <2>1, <2>2 DEF InCrlf
<1>16. CASE m.ret = -2 /\ m.d.state = "head"
  <2>1. Taken(m, b, i) = InHead(m, b, i)
    BY <1>16 DEF Taken
  <2>2. Fine(Config(With(m.d, "middle", 0, 0), m.out, -2, i))
    BY <1>2, <1>3, <1>4, <1>5 DEF Good, GoodDecoder, Config, With,
        Configurations, Decoders, States
  <2> QED  BY <1>8, <2>1, <2>2 DEF InHead
<1>17. CASE m.ret = -2 /\ m.d.state = "middle"
  <2>1. Taken(m, b, i) = InMiddle(m, b, i)
    BY <1>17 DEF Taken
  <2>2. Fine(Config(With(m.d, "middle", 0, 0), m.out, -2, i)) /\
            Fine(Config(With(m.d, "head", 0, 0), m.out, -2, i))
    BY <1>2, <1>3, <1>4, <1>5 DEF Good, GoodDecoder, Config, With,
        Configurations, Decoders, States
  <2> QED  BY <2>1, <2>2 DEF InMiddle
<1> QED  BY <1>2, <1>11, <1>12, <1>13, <1>14, <1>15, <1>16, <1>17 DEF States

-------------------------------------------------------------------------------
(* A call follows the bytes. *)

\* t is what the decoder comes to byte by byte; buf are the bytes behind the g-th.
Piece(t, g, buf) ==
    /\ g \in Nat /\ buf \in Seq(Nat)
    /\ \A j \in 0..Len(buf) : Good(t[g + j])
    /\ \A j \in 1..Len(buf) : t[g + j] = Taken(t[g + j - 1], buf[j], g + j)

Calls == [d : Decoders, src : Nat, out : Seq(Nat), ret : Int]
CallOf(d, src, out, r) == [d |-> d, src |-> src, out |-> out, ret |-> r]

\* Before the byte src the decoder is d and has left out in this call.
Reached(t, g, d, src, out, r) == t[g + src - 1] = Config(d, t[g].out \o out, r, g + src - 1)

\* Where a call may be: where the bytes before src lead; at the byte that ends the digits
\* of a size; at a byte that is refused; behind the last byte of the body.
Follows(t, g, buf, c) ==
    /\ c \in Calls /\ c.src \in 1..(Len(buf) + 1)
    /\ \/ c.ret = -2 /\ Reached(t, g, c.d, c.src, c.out, -2)
       \/ /\ c.ret = -2 /\ c.src <= Len(buf) /\ buf[c.src] \notin 0..15
          /\ c.d.state = "ext" /\ c.d.hex = 0
          /\ \E h \in Nat \ {0} :
               Reached(t, g, With(c.d, "size", c.d.left, h), c.src, c.out, -2)
       \/ /\ c.ret = -1 /\ c.src <= Len(buf)
          /\ t[g + c.src] = Config(c.d, t[g].out \o c.out, -1, g + c.src - 1)
       \/ c.ret = Len(buf) - (c.src - 1) /\ Reached(t, g, c.d, c.src, c.out, 0)

\* How far a call has come: a byte counts two.
Left(buf, c) == 2 * (Len(buf) + 1 - c.src) + (IF c.d.state = "ext" THEN 0 ELSE 1)

\* What a turn must do.
Turned(t, g, buf, c, e) ==
    /\ Follows(t, g, buf, e)
    /\ e.ret # -2 \/ e.src = Len(buf) + 1 \/ Left(buf, e) < Left(buf, c)

\* The first byte from src on that is b, or is not b.
Found(buf, src, b, i) ==
    /\ i \in Nat /\ i \in src..(Len(buf) + 1) /\ (i <= Len(buf) => buf[i] = b)
    /\ \A j \in src..(i - 1) : buf[j] # b
Skipped(buf, src, b, i) ==
    /\ i \in Nat /\ i \in src..(Len(buf) + 1) /\ (i <= Len(buf) => buf[i] # b)
    /\ \A j \in src..(i - 1) : buf[j] = b

\* Find goes to the first byte that is b, or behind the buffer.
LEMMA FindFirst ==
    ASSUME NEW buf \in Seq(Nat), NEW src \in 1..(Len(buf) + 1), NEW b
    PROVE  Found(buf, src, b, Decoder!Find(buf, src, b))
<1>1. PICK S : S = {i \in src..Len(buf) : buf[i] = b} \cup {Len(buf) + 1}
  OBVIOUS
<1>2. S \in SUBSET Nat /\ S # {} /\ S \subseteq src..(Len(buf) + 1)
  BY <1>1
<1>3. PICK i : i = Decoder!Min(S)
  OBVIOUS
<1>4. i \in S /\ \A j \in S : i =< j
  BY <1>2, <1>3, LeastNatural, Zenon DEF Decoder!Min
<1>5. i = Decoder!Find(buf, src, b)
  BY <1>1, <1>3 DEF Decoder!Find
<1>6. \A j \in src..(i - 1) : buf[j] # b
  <2> SUFFICES ASSUME NEW j \in src..(i - 1), buf[j] = b  PROVE FALSE
    OBVIOUS
  <2>1. j \in src..Len(buf)
    BY <1>2, <1>4
  <2> QED  BY <1>1, <1>2, <1>4, <2>1
<1> QED  BY <1>1, <1>2, <1>4, <1>5, <1>6 DEF Found

\* Skip goes to the first byte that is not b, or behind the buffer.
LEMMA SkipFirst ==
    ASSUME NEW buf \in Seq(Nat), NEW src \in 1..(Len(buf) + 1), NEW b
    PROVE  Skipped(buf, src, b, Decoder!Skip(buf, src, b))
<1>1. PICK S : S = {i \in src..Len(buf) : buf[i] # b} \cup {Len(buf) + 1}
  OBVIOUS
<1>2. S \in SUBSET Nat /\ S # {} /\ S \subseteq src..(Len(buf) + 1)
  BY <1>1
<1>3. PICK i : i = Decoder!Min(S)
  OBVIOUS
<1>4. i \in S /\ \A j \in S : i =< j
  BY <1>2, <1>3, LeastNatural, Zenon DEF Decoder!Min
<1>5. i = Decoder!Skip(buf, src, b)
  BY <1>1, <1>3 DEF Decoder!Skip
<1>6. \A j \in src..(i - 1) : buf[j] = b
  <2> SUFFICES ASSUME NEW j \in src..(i - 1), buf[j] # b  PROVE FALSE
    OBVIOUS
  <2>1. j \in src..Len(buf)
    BY <1>2, <1>4
  <2> QED  BY <1>1, <1>2, <1>4, <2>1
<1> QED  BY <1>1, <1>2, <1>4, <1>5, <1>6 DEF Skipped

\* Bytes that are skipped, and the one behind them.
Skips(t, g, buf, L, s, d, o, i) ==
    /\ L = Len(buf) /\ L \in Nat /\ s \in Nat /\ 1 <= s /\ i \in Nat /\ s <= i /\ i <= L + 1
    /\ t[g + s - 1] = Config(d, o, -2, g + s - 1)
    /\ \A j \in s..(i - 1) : Taken(Config(d, o, -2, g + j - 1), buf[j], g + j) =
        Config(d, o, -2, g + j)
Stood(t, g, buf, L, d, o, i) ==
    /\ t[g + i - 1] = Config(d, o, -2, g + i - 1)
    /\ i <= L => t[g + i] = Taken(Config(d, o, -2, g + i - 1), buf[i], g + i)

\* Bytes that change nothing are passed: what stands before the first stands behind the last.
LEMMA Skipping ==
    ASSUME NEW t, NEW g, NEW buf, Piece(t, g, buf), NEW L, NEW s, NEW d, NEW o,
           NEW i, Skips(t, g, buf, L, s, d, o, i)
    PROVE  Stood(t, g, buf, L, d, o, i)
<1>1. /\ g \in Nat /\ L = Len(buf) /\ L \in Nat /\ s \in Nat /\ 1 <= s
      /\ t[g + s - 1] = Config(d, o, -2, g + s - 1) /\ i \in Nat /\ s <= i /\ i <= L + 1
      /\ \A j \in 1..Len(buf) : t[g + j] = Taken(t[g + j - 1], buf[j], g + j)
      /\ \A j \in s..(i - 1) : Taken(Config(d, o, -2, g + j - 1), buf[j], g + j) =
          Config(d, o, -2, g + j)
  BY DEF Piece, Skips
<1>2. PICK P : P = {j \in s..i : t[g + j - 1] = Config(d, o, -2, g + j - 1)}
  OBVIOUS
<1>3. s \in P
  BY <1>1, <1>2
<1>4. ASSUME NEW j \in s..i, j < i, j \in P
      PROVE  j + 1 \in P
  <2>1. j \in s..(i - 1) /\ j \in 1..Len(buf) /\ g + (j + 1) - 1 = g + j /\ j + 1 \in s..i
    BY <1>1, <1>4
  <2>2. t[g + j] = Config(d, o, -2, g + j)
    BY <1>1, <1>2, <1>4, <2>1
  <2> QED  BY <1>2, <2>1, <2>2
<1>5. i \in P
  <2>1. \A j \in s..i : j \in P
    BY <1>1, <1>3, <1>4, Counting
  <2> QED  BY <1>1, <2>1
<1>6. i <= L => i \in 1..Len(buf)
  BY <1>1
<1> QED  BY <1>1, <1>2, <1>5, <1>6 DEF Stood

\* A call in progress, field by field.
LEMMA CallFields ==
    ASSUME NEW c \in Calls
    PROVE  /\ c = CallOf(c.d, c.src, c.out, c.ret)
           /\ c.d = With(c.d, c.d.state, c.d.left, c.d.hex)
           /\ c.d \in Decoders /\ c.src \in Nat /\ c.out \in Seq(Nat) /\ c.ret \in Int
           /\ c.d.state \in States /\ c.d.left \in Nat /\ c.d.hex \in Nat
           /\ c.d.consume_trailer \in BOOLEAN
BY DEF Calls, CallOf, Decoders, With

\* What is written into a call in progress.
Written(c, k, r, x, l, h, out) ==
    /\ [c EXCEPT !.src = k] = CallOf(c.d, k, c.out, c.ret)
    /\ [c EXCEPT !.ret = r] = CallOf(c.d, c.src, c.out, r)
    /\ [c EXCEPT !.src = k, !.ret = r] = CallOf(c.d, k, c.out, r)
    /\ [c EXCEPT !.src = k, !.d.state = x] =
        CallOf(With(c.d, x, c.d.left, c.d.hex), k, c.out, c.ret)
    /\ [c EXCEPT !.src = k, !.out = out, !.d.left = l, !.d.state = x] =
         CallOf(With(c.d, x, l, c.d.hex), k, out, c.ret)
    /\ [c EXCEPT !.d.left = l, !.d.hex = h, !.src = k] =
         CallOf(With(c.d, c.d.state, l, h), k, c.out, c.ret)
    /\ [c EXCEPT !.d.hex = h, !.d.state = x] =
        CallOf(With(c.d, x, c.d.left, h), c.src, c.out, c.ret)

\* Every way in which a turn writes to the call, in one record.
LEMMA CallWith ==
    ASSUME NEW c \in Calls, NEW k, NEW r, NEW x, NEW l, NEW h, NEW out
    PROVE  Written(c, k, r, x, l, h, out)
<1>1. PICK d, a, o, q : d = c.d /\ a = c.src /\ o = c.out /\ q = c.ret
  OBVIOUS
<1>2. PICK s, l0, h0, y : s = d.state /\ l0 = d.left /\ h0 = d.hex /\ y = d.consume_trailer
  OBVIOUS
<1>3. c = [d |-> d, src |-> a, out |-> o, ret |-> q]
  BY <1>1, CallFields DEF CallOf
<1>4. d = [state |-> s, left |-> l0, hex |-> h0, consume_trailer |-> y]
  BY <1>1, <1>2, CallFields DEF With
<1>5. PICK c1 : c1 = [c EXCEPT !.src = k]
  OBVIOUS
<1>6. c1 = [d |-> d, src |-> k, out |-> o, ret |-> q]
  BY <1>3, <1>5
<1>7. [c EXCEPT !.ret = r] = CallOf(c.d, c.src, c.out, r)
  BY <1>3 DEF CallOf
<1>8. [c EXCEPT !.src = k, !.ret = r] = CallOf(c.d, k, c.out, r)
  <2>1. [c EXCEPT !.src = k, !.ret = r] = [c1 EXCEPT !.ret = r]
    BY <1>5, Zenon
  <2>2. [c1 EXCEPT !.ret = r] = [d |-> d, src |-> k, out |-> o, ret |-> r]
    BY <1>6
  <2> QED  BY <1>1, <2>1, <2>2 DEF CallOf
<1>9. [c EXCEPT !.src = k, !.d.state = x] =
                CallOf(With(c.d, x, c.d.left, c.d.hex), k, c.out, c.ret)
  <2>1. [c EXCEPT !.src = k, !.d.state = x] = [c1 EXCEPT !.d.state = x]
    BY <1>5, Zenon
  <2>2. [c1 EXCEPT !.d.state = x] = [d |-> [d EXCEPT !.state = x], src |-> k, out |-> o, ret |-> q]
    BY <1>6
  <2>3. [d EXCEPT !.state = x] = With(d, x, l0, h0)
    BY <1>4 DEF With
  <2> QED  BY <1>1, <1>2, <2>1, <2>2, <2>3 DEF CallOf
<1>10. [c EXCEPT !.src = k, !.out = out, !.d.left = l, !.d.state = x] =
                CallOf(With(c.d, x, l, c.d.hex), k, out, c.ret)
  <2>1. PICK c2 : c2 = [c1 EXCEPT !.out = out]
    OBVIOUS
  <2>2. c2 = [d |-> d, src |-> k, out |-> out, ret |-> q]
    BY <1>6, <2>1
  <2>3. PICK c3, e : c3 = [c2 EXCEPT !.d.left = l] /\ e = [d EXCEPT !.left = l]
    OBVIOUS
  <2>4. c3 = [d |-> e, src |-> k, out |-> out, ret |-> q]
    BY <2>2, <2>3
  <2>5. [c EXCEPT !.src = k, !.out = out, !.d.left = l, !.d.state = x] =
            [c3 EXCEPT !.d.state = x]
    BY <1>5, <2>1, <2>3, Zenon
  <2>6. [c3 EXCEPT !.d.state = x] = [d |-> [e EXCEPT !.state = x], src |-> k, out |-> out, ret |-> q]
    BY <2>4
  <2>7. e = [state |-> s, left |-> l, hex |-> h0, consume_trailer |-> y]
    BY <1>4, <2>3
  <2>8. [e EXCEPT !.state = x] = With(d, x, l, h0)
    BY <1>2, <2>7 DEF With
  <2> QED  BY <1>1, <1>2, <2>5, <2>6, <2>8 DEF CallOf
<1>11. [c EXCEPT !.d.left = l, !.d.hex = h, !.src = k] =
                CallOf(With(c.d, c.d.state, l, h), k, c.out, c.ret)
  <2>1. PICK c2, e : c2 = [c EXCEPT !.d.left = l] /\ e = [d EXCEPT !.left = l]
    OBVIOUS
  <2>2. c2 = [d |-> e, src |-> a, out |-> o, ret |-> q]
    BY <1>3, <2>1
  <2>3. PICK c3, f : c3 = [c2 EXCEPT !.d.hex = h] /\ f = [e EXCEPT !.hex = h]
    OBVIOUS
  <2>4. c3 = [d |-> f, src |-> a, out |-> o, ret |-> q]
    BY <2>2, <2>3
  <2>5. [c EXCEPT !.d.left = l, !.d.hex = h, !.src = k] = [c3 EXCEPT !.src = k]
    BY <2>1, <2>3, Zenon
  <2>6. [c3 EXCEPT !.src = k] = [d |-> f, src |-> k, out |-> o, ret |-> q]
    BY <2>4
  <2>7. e = [state |-> s, left |-> l, hex |-> h0, consume_trailer |-> y]
    BY <1>4, <2>1
  <2>8. f = With(d, s, l, h)
    BY <1>2, <2>3, <2>7 DEF With
  <2> QED  BY <1>1, <1>2, <2>5, <2>6, <2>8 DEF CallOf
<1>12. [c EXCEPT !.d.hex = h, !.d.state = x] =
                CallOf(With(c.d, x, c.d.left, h), c.src, c.out, c.ret)
  <2>1. PICK c2, e : c2 = [c EXCEPT !.d.hex = h] /\ e = [d EXCEPT !.hex = h]
    OBVIOUS
  <2>2. c2 = [d |-> e, src |-> a, out |-> o, ret |-> q]
    BY <1>3, <2>1
  <2>3. [c EXCEPT !.d.hex = h, !.d.state = x] = [c2 EXCEPT !.d.state = x]
    BY <2>1, Zenon
  <2>4. [c2 EXCEPT !.d.state = x] = [d |-> [e EXCEPT !.state = x], src |-> a, out |-> o, ret |-> q]
    BY <2>2
  <2>5. e = [state |-> s, left |-> l0, hex |-> h, consume_trailer |-> y]
    BY <1>4, <2>1
  <2>6. [e EXCEPT !.state = x] = With(d, x, l0, h)
    BY <1>2, <2>5 DEF With
  <2> QED  BY <1>1, <1>2, <2>3, <2>4, <2>6 DEF CallOf
<1>13. c1 = CallOf(c.d, k, c.out, c.ret)
  BY <1>1, <1>6 DEF CallOf
<1> QED  BY <1>5, <1>7, <1>8, <1>9, <1>10, <1>11, <1>12, <1>13 DEF Written

\* The three ways to follow that a turn ends in.
LEMMA FollowsOn ==
    ASSUME NEW t, NEW g \in Nat, NEW buf \in Seq(Nat), NEW d \in Decoders,
           NEW src \in 1..(Len(buf) + 1), NEW out \in Seq(Nat)
    PROVE  /\ Reached(t, g, d, src, out, -2) => Follows(t, g, buf, CallOf(d, src, out, -2))
           /\ Reached(t, g, d, src, out, 0) =>
                Follows(t, g, buf, CallOf(d, src, out, Len(buf) - (src - 1)))
           /\ /\ src <= Len(buf)
              /\ t[g + src] = Config(d, t[g].out \o out, -1, g + src - 1)
              => Follows(t, g, buf, CallOf(d, src, out, -1))
<1>1. PICK L \in Nat : L = Len(buf)
  OBVIOUS
<1>2. src \in Nat /\ L - (src - 1) \in Int
  BY <1>1
<1>3. ASSUME NEW r \in Int
      PROVE  /\ CallOf(d, src, out, r) \in Calls
             /\ CallOf(d, src, out, r).d = d /\ CallOf(d, src, out, r).src = src
             /\ CallOf(d, src, out, r).out = out /\ CallOf(d, src, out, r).ret = r
  BY <1>2 DEF CallOf, Calls
<1>4. -2 \in Int /\ -1 \in Int
  OBVIOUS
<1> QED  BY <1>1, <1>2, <1>3, <1>4, Zenon DEF Follows

\* An extension, up to its line feed.
LEMMA ExtFollows ==
    ASSUME NEW t, NEW g, NEW buf, Piece(t, g, buf), NEW c, Follows(t, g, buf, c),
           c.ret = -2, c.d.state = "ext", GoodDecoder(c.d)
    PROVE  Turned(t, g, buf, c, Decoder!Ext(c, buf))
<1>1. /\ g \in Nat /\ buf \in Seq(Nat)
      /\ \A j \in 1..Len(buf) : t[g + j] = Taken(t[g + j - 1], buf[j], g + j)
  BY DEF Piece
<1>2. c \in Calls /\ c.src \in 1..(Len(buf) + 1)
  BY DEF Follows
<1>3. PICK L \in Nat, s \in Nat, o \in {t[g].out \o c.out} : L = Len(buf) /\ s = c.src /\
          o = t[g].out \o c.out
  <2>1. Len(buf) \in Nat /\ c.src \in Nat
    BY <1>1, <1>2, CallFields
  <2> QED  BY <2>1
<1>4. s \in 1..(L + 1) /\ \A j \in 1..L : t[g + j] = Taken(t[g + j - 1], buf[j], g + j)
  BY <1>1, <1>2, <1>3
<1>5. /\ c = CallOf(c.d, s, c.out, -2) /\ c.d = With(c.d, "ext", c.d.left, 0)
      /\ c.d \in Decoders /\ c.out \in Seq(Nat)
      /\ c.d.left \in Nat /\ c.d.consume_trailer \in BOOLEAN /\ c.d.hex = 0
  BY <1>2, <1>3, CallFields DEF GoodDecoder
<1>6. PICK i \in Nat :
             /\ i = Decoder!Find(buf, s, Decoder!LF) /\ i \in s..(L + 1)
             /\ i <= L => buf[i] = Decoder!LF
             /\ \A j \in s..(i - 1) : buf[j] # Decoder!LF
  <2>1. s \in 1..(Len(buf) + 1)
    BY <1>2, <1>3
  <2>2. Found(buf, s, Decoder!LF, Decoder!Find(buf, s, Decoder!LF))
    BY <1>1, <2>1, FindFirst, Zenon
  <2> QED  BY <1>3, <2>2 DEF Found
<1> DEFINE At(n) == Config(c.d, o, -2, n)
<1>7. \A j \in Nat : \A b : Taken(At(g + j - 1), b, g + j) =
          InExtension(At(g + j - 1), b, g + j)
  BY <1>5 DEF Taken, Config
\* The digits end here, and the byte is the first of the extension.
<1>8. ASSUME NEW h \in Nat \ {0}, s <= L, buf[s] \notin 0..15,
             Reached(t, g, With(c.d, "size", c.d.left, h), s, c.out, -2)
      PROVE  t[g + s] = InExtension(At(g + s - 1), buf[s], g + s)
  <2>1. PICK m : m = Config(With(c.d, "size", c.d.left, h), o, -2, g + s - 1)
    OBVIOUS
  <2>2. t[g + s] = Taken(m, buf[s], g + s)
    <3>1. t[g + s - 1] = m
      BY <1>3, <1>8, <2>1 DEF Reached
    <3>2. s \in 1..L
      BY <1>4, <1>8
    <3> QED  BY <1>4, <3>1, <3>2
  <2>3. m.ret = -2 /\ m.d.state = "size" /\ m.d.hex = h /\ m.d.left = c.d.left /\ m.out = o
        /\ m.d.consume_trailer = c.d.consume_trailer
    BY <2>1 DEF Config, With
  <2>4. Taken(m, buf[s], g + s) = InExtension(m, buf[s], g + s)
    BY <1>8, <2>3 DEF Taken, InSize
  <2>5. InExtension(m, buf[s], g + s) = InExtension(At(g + s - 1), buf[s], g + s)
    BY <2>3 DEF InExtension, Config, With
  <2> QED  BY <2>2, <2>4, <2>5
<1>9. \/ t[g + s - 1] = At(g + s - 1)
      \/ s <= L /\ t[g + s] = InExtension(At(g + s - 1), buf[s], g + s)
  <2>1. \/ Reached(t, g, c.d, s, c.out, -2)
        \/ /\ s <= L /\ buf[s] \notin 0..15
           /\ \E h \in Nat \ {0} : Reached(t, g, With(c.d, "size", c.d.left, h), s, c.out, -2)
        \/ c.ret = -1 \/ c.ret = L - (s - 1)
    BY <1>3 DEF Follows
  <2>2. c.ret # -1 /\ c.ret # L - (s - 1)
    BY <1>4
  <2>3. CASE Reached(t, g, c.d, s, c.out, -2)
    BY <1>3, <2>3 DEF Reached
  <2>4. CASE /\ s <= L /\ buf[s] \notin 0..15
             /\ \E h \in Nat \ {0} : Reached(t, g, With(c.d, "size", c.d.left, h), s, c.out, -2)
    <3>1. PICK h \in Nat \ {0} : Reached(t, g, With(c.d, "size", c.d.left, h), s, c.out, -2)
      BY <2>4
    <3> QED  BY <1>8, <2>4, <3>1
  <2> QED  BY <2>1, <2>2, <2>3, <2>4
<1>10. \A j \in s..(i - 1) : InExtension(At(g + j - 1), buf[j], g + j) = At(g + j)
  BY <1>5, <1>6 DEF InExtension, Config
<1>11. \A j \in s..(i - 1) : j \in Nat /\ j \in 1..L
  BY <1>4, <1>6
<1>12. ASSUME t[g + s - 1] = At(g + s - 1) \/ s < i
       PROVE  t[g + i - 1] = At(g + i - 1)
  <2>1. CASE t[g + s - 1] = At(g + s - 1)
    <3>1. \A j \in s..(i - 1) : Taken(At(g + j - 1), buf[j], g + j) = At(g + j)
      BY <1>7, <1>10, <1>11
    <3>2. Skips(t, g, buf, L, s, c.d, o, i)
      BY <1>3, <1>4, <1>6, <2>1, <3>1 DEF Skips
    <3>3. Stood(t, g, buf, L, c.d, o, i)
      BY <3>2, Skipping, Zenon
    <3> QED  BY <3>3 DEF Stood
  <2>2. CASE s <= L /\ s < i /\ t[g + s] = InExtension(At(g + s - 1), buf[s], g + s)
    <3>1. PICK n \in Nat : n = s + 1 /\ n \in 1..(L + 1) /\ i \in n..(L + 1)
      BY <1>4, <1>6, <2>2
    <3>2. t[g + n - 1] = At(g + n - 1)
      <4>1. s \in s..(i - 1)
        BY <1>6, <2>2
      <4>2. g + n - 1 = g + s
        BY <1>1, <3>1
      <4> QED  BY <1>10, <2>2, <4>1, <4>2
    <3>3. \A j \in n..(i - 1) : Taken(At(g + j - 1), buf[j], g + j) = At(g + j)
      <4>1. \A j \in n..(i - 1) : j \in s..(i - 1)
        BY <3>1
      <4> QED  BY <1>7, <1>10, <1>11, <4>1
    <3>4. Skips(t, g, buf, L, n, c.d, o, i)
      BY <1>3, <1>4, <1>6, <3>1, <3>2, <3>3 DEF Skips
    <3>5. Stood(t, g, buf, L, c.d, o, i)
      BY <3>4, Skipping, Zenon
    <3> QED  BY <3>5 DEF Stood
  <2> QED  BY <1>9, <1>12, <2>1, <2>2
<1>13. CASE i > L
  <2>1. i = L + 1 /\ i \in 1..(Len(buf) + 1) /\ ~(i <= Len(buf))
    BY <1>3, <1>4, <1>6, <1>13
  <2>2. Decoder!Ext(c, buf) = CallOf(c.d, i, c.out, -2)
    <3>1. Decoder!Ext(c, buf) = [c EXCEPT !.src = i]
      BY <1>3, <1>6, <1>13 DEF Decoder!Ext
    <3> QED  BY <1>5, <3>1 DEF CallOf
  <2>3. Reached(t, g, c.d, i, c.out, -2)
    <3>1. t[g + s - 1] = At(g + s - 1) \/ s < i
      BY <1>9, <2>1
    <3> QED  BY <1>3, <1>12, <3>1 DEF Reached
  <2>4. Follows(t, g, buf, CallOf(c.d, i, c.out, -2))
    BY <1>1, <1>5, <2>1, <2>3, FollowsOn
  <2> QED  BY <1>3, <2>1, <2>2, <2>4 DEF Turned, CallOf
<1>14. CASE i <= L
  <2>1. t[g + i] = InExtension(At(g + i - 1), buf[i], g + i)
    <3>1. i \in 1..L
      BY <1>4, <1>6, <1>14
    <3>2. CASE t[g + s - 1] = At(g + s - 1) \/ s < i
      BY <1>4, <1>7, <1>12, <3>1, <3>2
    <3>3. CASE ~(t[g + s - 1] = At(g + s - 1)) /\ s = i
      BY <1>9, <3>3
    <3> QED  BY <1>4, <1>6, <3>1, <3>2, <3>3
  <2>2. PICK k \in Nat : k = i + 1 /\ k \in 1..(Len(buf) + 1) /\ g + k - 1 = g + i /\ k > s
    <3>1. i + 1 \in Nat /\ i + 1 \in 1..(L + 1) /\ g + (i + 1) - 1 = g + i /\ i + 1 > s
      <4>1. g \in Nat /\ 1 <= s /\ s <= i /\ i <= L
        BY <1>1, <1>4, <1>6, <1>14
      <4> QED  BY <4>1
    <3> QED  BY <1>3, <3>1
  <2>3. \A d \in Decoders, r \in Int : Left(buf, CallOf(d, k, c.out, r)) < Left(buf, c)
    <3>1. ASSUME NEW d \in Decoders, NEW r \in Int
          PROVE  Left(buf, CallOf(d, k, c.out, r)) < Left(buf, c)
      <4>1. PICK x \in {0, 1} : Left(buf, CallOf(d, k, c.out, r)) = 2 * (L + 1 - k) + x
        BY <1>3 DEF Left, CallOf
      <4>2. Left(buf, c) = 2 * (L + 1 - s) + 0
        BY <1>3, Zenon DEF Left
      <4>3. k > s /\ k \in Nat /\ s \in Nat /\ L \in Nat
        BY <1>4, <1>6, <2>2
      <4>4. 2 * (L + 1 - k) + x < 2 * (L + 1 - s) + 0
        BY <4>3
      <4> QED  BY <4>1, <4>2, <4>4, Zenon
    <3> QED  BY <3>1
  <2>4. -2 \in Int /\ i <= Len(buf)
    BY <1>3, <1>14
  <2> DEFINE next == [c EXCEPT !.src = i + 1]
  <2>5. next = CallOf(c.d, k, c.out, -2)
    <3>1. next = [c EXCEPT !.src = k]
      BY <2>2
    <3> QED  BY <1>5, <3>1, SMTT(60) DEF CallOf
  <2>6. CASE c.d.left # 0
    <3>1. PICK d \in Decoders : d = With(c.d, "data", c.d.left, 0)
      BY <1>5 DEF With, Decoders, States
    <3>2. Decoder!Ext(c, buf) = CallOf(d, k, c.out, -2)
      <4>1. Decoder!Ext(c, buf) = [next EXCEPT !.d.state = "data"]
        BY <1>3, <1>6, <1>14, <2>6 DEF Decoder!Ext
      <4>2. [c.d EXCEPT !.state = "data"] = d
        BY <1>5, <3>1 DEF With
      <4> QED  BY <2>5, <4>1, <4>2 DEF CallOf
    <3>3. Reached(t, g, d, k, c.out, -2)
      BY <1>3, <1>6, <1>14, <2>1, <2>2, <2>6, <3>1 DEF InExtension, Config, Reached, With
    <3>4. Follows(t, g, buf, CallOf(d, k, c.out, -2))
      BY <1>1, <1>5, <2>2, <3>3, FollowsOn
    <3> QED  BY <2>3, <2>4, <3>2, <3>4 DEF Turned
  <2>7. CASE c.d.left = 0 /\ c.d.consume_trailer
    <3>1. PICK d \in Decoders : d = With(c.d, "head", c.d.left, 0)
      BY <1>5 DEF With, Decoders, States
    <3>2. Decoder!Ext(c, buf) = CallOf(d, k, c.out, -2)
      <4>1. Decoder!Ext(c, buf) = [next EXCEPT !.d.state = "head"]
        BY <1>3, <1>6, <1>14, <2>7 DEF Decoder!Ext
      <4>2. [c.d EXCEPT !.state = "head"] = d
        BY <1>5, <3>1 DEF With
      <4> QED  BY <2>5, <4>1, <4>2 DEF CallOf
    <3>3. Reached(t, g, d, k, c.out, -2)
      BY <1>3, <1>6, <1>14, <2>1, <2>2, <2>7, <3>1 DEF InExtension, Config, Reached, With
    <3>4. Follows(t, g, buf, CallOf(d, k, c.out, -2))
      BY <1>1, <1>5, <2>2, <3>3, FollowsOn
    <3> QED  BY <2>3, <2>4, <3>2, <3>4 DEF Turned
  <2>8. CASE c.d.left = 0 /\ ~c.d.consume_trailer
    <3>1. Decoder!Ext(c, buf) = CallOf(c.d, k, c.out, Len(buf) - (k - 1))
      <4>1. Decoder!Ext(c, buf) = [next EXCEPT !.ret = Len(buf) - i]
        BY <1>3, <1>6, <1>14, <2>8 DEF Decoder!Ext
      <4>2. PICK r : r = Len(buf) - i
        OBVIOUS
      <4>3. Len(buf) - (k - 1) = r
        BY <2>2, <4>2
      <4>4. Decoder!Ext(c, buf) = CallOf(c.d, k, c.out, r)
        BY <2>5, <4>1, <4>2 DEF CallOf
      <4> QED  BY <4>3, <4>4
    <3>2. Reached(t, g, c.d, k, c.out, 0)
      BY <1>3, <1>5, <1>6, <1>14, <2>1, <2>2, <2>8 DEF InExtension, Config, Reached, With
    <3>3. Follows(t, g, buf, CallOf(c.d, k, c.out, Len(buf) - (k - 1)))
      BY <1>1, <1>5, <2>2, <3>2, FollowsOn
    <3>4. Len(buf) - (k - 1) # -2
      BY <1>1, <2>2
    <3> QED  BY <3>1, <3>3, <3>4 DEF Turned, CallOf
  <2> QED  BY <2>6, <2>7, <2>8
<1> QED  BY <1>13, <1>14

\* A call in progress, out of the extensions: what it decoded in all is o, and the byte
\* in front of the s-th of the L has been taken.
Going(t, g, buf, c, L, s, o) ==
    /\ g \in Nat /\ buf \in Seq(Nat) /\ L \in Nat /\ L = Len(buf)
    /\ s \in Nat /\ 1 <= s /\ s <= L + 1
    /\ c \in Calls /\ c.src = s /\ c.ret = -2 /\ o = t[g].out \o c.out /\ o \in Seq(Nat)
    /\ GoodDecoder(c.d)
    /\ t[g + s - 1] = Config(c.d, o, -2, g + s - 1)

\* A call that goes on is where its bytes lead, unless it reads an extension.
LEMMA GoesOn ==
    ASSUME NEW t, NEW g, NEW buf, Piece(t, g, buf), NEW c, Follows(t, g, buf, c), c.ret = -2
    PROVE  /\ GoodDecoder(c.d)
           /\ c.d.state # "ext" => \E L, s, o : Going(t, g, buf, c, L, s, o)
<1>1. /\ g \in Nat /\ buf \in Seq(Nat) /\ Len(buf) \in Nat
      /\ \A j \in 0..Len(buf) : Good(t[g + j])
  BY DEF Piece
<1>2. c \in Calls /\ c.src \in 1..(Len(buf) + 1)
  BY DEF Follows
<1>3. PICK L \in Nat, s \in Nat, o \in {t[g].out \o c.out} : L = Len(buf) /\ s = c.src /\
          o = t[g].out \o c.out
  BY <1>1, <1>2, CallFields
<1>4. 1 <= s /\ s <= L + 1 /\ c.ret # -1 /\ c.ret # L - (s - 1)
  BY <1>2, <1>3
<1>5. o \in Seq(Nat)
  <2>1. 0 \in 0..Len(buf) /\ g + 0 = g
    BY <1>1
  <2>2. Good(t[g])
    BY <1>1, <2>1
  <2>3. t[g].out \in Seq(Nat) /\ c.out \in Seq(Nat)
    BY <1>2, <2>2, CallFields DEF Good, Configurations
  <2> QED  BY <1>3, <2>3
<1>6. s - 1 \in 0..L /\ g + (s - 1) = g + s - 1
  BY <1>1, <1>4
<1>7. PICK m : m = t[g + s - 1] /\ Good(m)
  BY <1>1, <1>3, <1>6
<1>8. \/ m = Config(c.d, o, -2, g + s - 1)
      \/ /\ c.d.state = "ext" /\ c.d.hex = 0
         /\ \E h \in Nat \ {0} : m = Config(With(c.d, "size", c.d.left, h), o, -2, g + s - 1)
  BY <1>3, <1>4, <1>7, Zenon DEF Follows, Reached
<1>9. CASE m = Config(c.d, o, -2, g + s - 1)
  <2>1. GoodDecoder(c.d)
    BY <1>7, <1>9 DEF Good, Config
  <2>2. Going(t, g, buf, c, L, s, o)
    BY <1>1, <1>2, <1>3, <1>4, <1>5, <1>7, <1>9, <2>1 DEF Going
  <2> QED  BY <2>1, <2>2
<1>10. ASSUME c.d.state = "ext", c.d.hex = 0, NEW h \in Nat \ {0},
              m = Config(With(c.d, "size", c.d.left, h), o, -2, g + s - 1)
       PROVE  GoodDecoder(c.d)
  <2>1. PICK l \in Nat : l = c.d.left
    BY <1>2, CallFields
  <2>2. h <= MaxDigits /\ l < Decoder!Sizes[h]
    BY <1>7, <1>10, <2>1 DEF Good, GoodDecoder, Config, With
  <2>3. h \in 0..MaxDigits /\ Decoder!Sizes[h] <= Decoder!Sizes[MaxDigits]
        /\ Decoder!Sizes[h] \in Nat /\ Decoder!Sizes[MaxDigits] \in Nat
    BY <2>2, SizesGrow, HttpExchangeAssumption
  <2>4. l < Decoder!Sizes[MaxDigits] /\ 0 <= MaxDigits
    BY <2>2, <2>3, HttpExchangeAssumption
  <2>5. c.d \in Decoders
    BY <1>2, CallFields
  <2> QED  BY <1>10, <2>1, <2>4, <2>5 DEF GoodDecoder
<1> QED  BY <1>8, <1>9, <1>10

\* A call that has taken more bytes has fewer left to take.
LEMMA LeftLess ==
    ASSUME NEW buf \in Seq(Nat), NEW c, NEW s \in Nat, c.src = s, NEW k \in Nat, s < k,
           k <= Len(buf) + 1, NEW d, NEW out, NEW r
    PROVE  Left(buf, CallOf(d, k, out, r)) < Left(buf, c)
<1>1. PICK x \in {0, 1}, L \in Nat : L = Len(buf) /\
          Left(buf, CallOf(d, k, out, r)) = 2 * (L + 1 - k) + x
  BY DEF Left, CallOf
<1>2. PICK y \in {0, 1} : Left(buf, c) = 2 * (L + 1 - s) + y
  BY <1>1 DEF Left
<1> QED  BY <1>1, <1>2

\* Where a turn has got to from the s-th byte on: further, or to the end of the buffer; to
\* the end of the body; to a byte that is refused.
Turns(t, g, L, s, d, k, out, e) ==
    /\ d \in Decoders /\ k \in Nat /\ s <= k /\ k <= L + 1 /\ out \in Seq(Nat)
    /\ \/ /\ e = CallOf(d, k, out, -2) /\ Reached(t, g, d, k, out, -2)
          /\ s < k \/ k = L + 1
       \/ e = CallOf(d, k, out, L - (k - 1)) /\ Reached(t, g, d, k, out, 0)
       \/ /\ e = CallOf(d, k, out, -1) /\ k <= L
          /\ t[g + k] = Config(d, t[g].out \o out, -1, g + k - 1)

\* A turn that ends where the bytes it has taken lead has done what it must.
LEMMA TurnedTo ==
    ASSUME NEW t, NEW g, NEW buf, NEW c, NEW L, NEW s, NEW o, Going(t, g, buf, c, L, s, o),
           NEW d, NEW k, NEW out, NEW e, Turns(t, g, L, s, d, k, out, e)
    PROVE  Turned(t, g, buf, c, e)
<1>1. /\ g \in Nat /\ buf \in Seq(Nat) /\ L = Len(buf) /\ L \in Nat
      /\ s \in Nat /\ 1 <= s /\ c.src = s
  BY DEF Going
<1>2. /\ d \in Decoders /\ k \in Nat /\ s <= k /\ k <= L + 1 /\ out \in Seq(Nat)
      /\ k \in 1..(Len(buf) + 1)
  BY <1>1 DEF Turns
<1>3. \A r : CallOf(d, k, out, r).ret = r /\ CallOf(d, k, out, r).src = k
  BY DEF CallOf
<1>4. L - (k - 1) # -2 /\ -1 # -2
  BY <1>1, <1>2
<1>5. s < k => Left(buf, CallOf(d, k, out, -2)) < Left(buf, c)
  BY <1>1, <1>2, LeftLess
<1>6. /\ Reached(t, g, d, k, out, -2) => Follows(t, g, buf, CallOf(d, k, out, -2))
      /\ Reached(t, g, d, k, out, 0) => Follows(t, g, buf, CallOf(d, k, out, Len(buf) - (k - 1)))
      /\ /\ k <= Len(buf)
         /\ t[g + k] = Config(d, t[g].out \o out, -1, g + k - 1)
         => Follows(t, g, buf, CallOf(d, k, out, -1))
  BY <1>1, <1>2, FollowsOn
<1> QED  BY <1>1, <1>3, <1>4, <1>5, <1>6, Zenon DEF Turned, Turns

\* The end of a line.
LEMMA CrlfFollows ==
    ASSUME NEW t, NEW g, NEW buf, Piece(t, g, buf), NEW c, NEW L, NEW s, NEW o,
           Going(t, g, buf, c, L, s, o), c.d.state = "crlf"
    PROVE  Turned(t, g, buf, c, Decoder!Crlf(c, buf))
<1>1. /\ g \in Nat /\ buf \in Seq(Nat) /\ L = Len(buf) /\ L \in Nat /\ s \in Nat /\ 1 <= s /\
          s <= L + 1
      /\ c \in Calls /\ c.src = s /\ o = t[g].out \o c.out /\ c.ret = -2
      /\ t[g + s - 1] = Config(c.d, o, -2, g + s - 1)
  BY DEF Going
<1>2. c.d = With(c.d, "crlf", 0, 0) /\ c.out \in Seq(Nat) /\ c.d \in Decoders /\
          c.d.left = 0 /\ c.d.hex = 0
  BY <1>1, CallFields DEF Going, GoodDecoder
<1>3. PICK i \in Nat : i = Decoder!Skip(buf, s, Decoder!CR)
             /\ s <= i /\ i <= L + 1 /\ (i <= L => buf[i] # Decoder!CR)
             /\ \A j \in s..(i - 1) : buf[j] = Decoder!CR
  <2>1. s \in 1..(Len(buf) + 1)
    BY <1>1
  <2>2. Skipped(buf, s, Decoder!CR, Decoder!Skip(buf, s, Decoder!CR))
    BY <1>1, <2>1, SkipFirst, Zenon
  <2> QED  BY <1>1, <2>2 DEF Skipped
<1>4. \A n, b, j : Taken(Config(c.d, o, -2, n), b, j) =
         IF b = Decoder!CR THEN Config(c.d, o, -2, j)
         ELSE IF b = Decoder!LF THEN Config(With(c.d, "size", 0, 0), o, -2, j)
         ELSE Config(c.d, o, -1, j - 1)
  <2> SUFFICES ASSUME NEW n, NEW b, NEW j, NEW m, m = Config(c.d, o, -2, n)
               PROVE  Taken(m, b, j) = IF b = Decoder!CR THEN Config(c.d, o, -2, j)
                        ELSE IF b = Decoder!LF THEN Config(With(c.d, "size", 0, 0), o, -2, j)
                        ELSE Config(c.d, o, -1, j - 1)
    OBVIOUS
  <2>1. m.d = c.d /\ m.out = o /\ m.ret = -2 /\ m.d.state = "crlf"
    BY DEF Config
  <2>2. Taken(m, b, j) = InCrlf(m, b, j)
    BY <2>1 DEF Taken
  <2> QED  BY <2>1, <2>2 DEF InCrlf
<1>5. Skips(t, g, buf, L, s, c.d, o, i)
  BY <1>1, <1>3, <1>4 DEF Skips
<1>6. /\ t[g + i - 1] = Config(c.d, o, -2, g + i - 1)
      /\ i <= L => t[g + i] = Taken(Config(c.d, o, -2, g + i - 1), buf[i], g + i)
  <2>1. Stood(t, g, buf, L, c.d, o, i)
    BY <1>5, Skipping, Zenon
  <2> QED  BY <2>1 DEF Stood
<1>7. CASE i > L
  <2>1. Decoder!Crlf(c, buf) = CallOf(c.d, i, c.out, -2)
    <3>1. Decoder!Crlf(c, buf) = [c EXCEPT !.src = i]
      BY <1>1, <1>3, <1>7 DEF Decoder!Crlf
    <3>2. Written(c, i, 0, 0, 0, 0, 0)
      BY <1>1, CallWith, Zenon
    <3> QED  BY <1>1, <3>1, <3>2 DEF Written
  <2>2. i = L + 1
    BY <1>1, <1>3, <1>7
  <2>3. Turns(t, g, L, s, c.d, i, c.out, Decoder!Crlf(c, buf))
    BY <1>1, <1>2, <1>3, <1>6, <2>1, <2>2 DEF Turns, Reached
  <2> QED  BY <2>3, TurnedTo, Zenon
<1>8. CASE i <= L /\ buf[i] # Decoder!LF
  <2>1. Decoder!Crlf(c, buf) = CallOf(c.d, i, c.out, -1)
    <3>1. Decoder!Crlf(c, buf) = [c EXCEPT !.src = i, !.ret = -1]
      BY <1>1, <1>3, <1>8 DEF Decoder!Crlf
    <3>2. Written(c, i, -1, 0, 0, 0, 0)
      BY <1>1, CallWith, Zenon
    <3> QED  BY <1>1, <3>1, <3>2 DEF Written
  <2>2. t[g + i] = Config(c.d, o, -1, g + i - 1)
    <3>1. PICK b, n, j : b = buf[i] /\ n = g + i - 1 /\ j = g + i
      OBVIOUS
    <3>2. b # Decoder!CR /\ b # Decoder!LF /\ n = j - 1
      BY <1>1, <1>3, <1>8, <3>1, SMTT(60)
    <3>3. Taken(Config(c.d, o, -2, n), b, j) = Config(c.d, o, -1, j - 1)
      BY <1>4, <3>2, Zenon
    <3>4. Taken(Config(c.d, o, -2, g + i - 1), buf[i], g + i) = Config(c.d, o, -1, g + i - 1)
      BY <3>1, <3>2, <3>3
    <3> QED  BY <1>6, <1>8, <3>4
  <2>3. Turns(t, g, L, s, c.d, i, c.out, Decoder!Crlf(c, buf))
    BY <1>1, <1>2, <1>3, <1>8, <2>1, <2>2 DEF Turns
  <2> QED  BY <2>3, TurnedTo, Zenon
<1>9. CASE i <= L /\ buf[i] = Decoder!LF
  <2>1. PICK d, k : d = With(c.d, "size", 0, 0) /\ k = i + 1
    OBVIOUS
  <2>2. d \in Decoders /\ k \in Nat /\ g + k - 1 = g + i /\ s < k /\ s <= k /\ k <= L + 1
    <3>1. d \in Decoders
      BY <1>1, <2>1, CallFields DEF With, Decoders, States
    <3>2. g + (i + 1) - 1 = g + i /\ s < i + 1 /\ s <= i + 1 /\ i + 1 <= L + 1 /\ i + 1 \in Nat
      <4>1. g \in Nat /\ L \in Nat /\ s \in Nat /\ s <= i /\ i <= L
        BY <1>1, <1>3, <1>9
      <4> QED  BY <4>1
    <3> QED  BY <2>1, <3>1, <3>2
  <2>3. Decoder!Crlf(c, buf) = CallOf(d, k, c.out, -2)
    <3>1. Decoder!Crlf(c, buf) = [c EXCEPT !.src = i + 1, !.d.state = "size"]
      BY <1>1, <1>3, <1>9 DEF Decoder!Crlf
    <3>2. Written(c, i + 1, 0, "size", 0, 0, 0)
      BY <1>1, CallWith, Zenon
    <3> QED  BY <1>1, <1>2, <2>1, <3>1, <3>2 DEF Written
  <2>4. t[g + i] = Config(d, o, -2, g + i)
    BY <1>3, <1>4, <1>6, <1>9, <2>1 DEF Decoder!CR, Decoder!LF
  <2>5. Turns(t, g, L, s, d, k, c.out, Decoder!Crlf(c, buf))
    BY <1>1, <1>2, <2>2, <2>3, <2>4 DEF Turns, Reached
  <2> QED  BY <2>5, TurnedTo, Zenon
<1> QED  BY <1>1, <1>3, <1>7, <1>8, <1>9

\* The start of a line of the trailer.
LEMMA HeadFollows ==
    ASSUME NEW t, NEW g, NEW buf, Piece(t, g, buf), NEW c, NEW L, NEW s, NEW o,
           Going(t, g, buf, c, L, s, o), c.d.state = "head"
    PROVE  Turned(t, g, buf, c, Decoder!TrailerHead(c, buf))
<1>1. /\ g \in Nat /\ buf \in Seq(Nat) /\ L = Len(buf) /\ L \in Nat /\ s \in Nat /\ 1 <= s /\
          s <= L + 1
      /\ c \in Calls /\ c.src = s /\ o = t[g].out \o c.out /\ c.ret = -2
      /\ t[g + s - 1] = Config(c.d, o, -2, g + s - 1)
  BY DEF Going
<1>2. c.d = With(c.d, "head", 0, 0) /\ c.out \in Seq(Nat) /\ c.d \in Decoders /\
          c.d.left = 0 /\ c.d.hex = 0
  BY <1>1, CallFields DEF Going, GoodDecoder
<1>3. PICK i \in Nat : i = Decoder!Skip(buf, s, Decoder!CR)
             /\ s <= i /\ i <= L + 1 /\ (i <= L => buf[i] # Decoder!CR)
             /\ \A j \in s..(i - 1) : buf[j] = Decoder!CR
  <2>1. s \in 1..(Len(buf) + 1)
    BY <1>1
  <2>2. Skipped(buf, s, Decoder!CR, Decoder!Skip(buf, s, Decoder!CR))
    BY <1>1, <2>1, SkipFirst, Zenon
  <2> QED  BY <1>1, <2>2 DEF Skipped
<1>4. \A n, b, j : Taken(Config(c.d, o, -2, n), b, j) =
         IF b = Decoder!CR THEN Config(c.d, o, -2, j)
         ELSE IF b = Decoder!LF THEN Config(c.d, o, 0, j)
         ELSE Config(With(c.d, "middle", 0, 0), o, -2, j)
  <2> SUFFICES ASSUME NEW n, NEW b, NEW j, NEW m, m = Config(c.d, o, -2, n)
               PROVE  Taken(m, b, j) = IF b = Decoder!CR THEN Config(c.d, o, -2, j)
                        ELSE IF b = Decoder!LF THEN Config(c.d, o, 0, j)
                        ELSE Config(With(c.d, "middle", 0, 0), o, -2, j)
    OBVIOUS
  <2>1. m.d = c.d /\ m.out = o /\ m.ret = -2 /\ m.d.state = "head"
    BY DEF Config
  <2>2. Taken(m, b, j) = InHead(m, b, j)
    BY <2>1 DEF Taken
  <2> QED  BY <2>1, <2>2 DEF InHead
<1>5. Skips(t, g, buf, L, s, c.d, o, i)
  BY <1>1, <1>3, <1>4 DEF Skips
<1>6. /\ t[g + i - 1] = Config(c.d, o, -2, g + i - 1)
      /\ i <= L => t[g + i] = Taken(Config(c.d, o, -2, g + i - 1), buf[i], g + i)
  <2>1. Stood(t, g, buf, L, c.d, o, i)
    BY <1>5, Skipping, Zenon
  <2> QED  BY <2>1 DEF Stood
<1>7. CASE i > L
  <2>1. Decoder!TrailerHead(c, buf) = CallOf(c.d, i, c.out, -2)
    <3>1. Decoder!TrailerHead(c, buf) = [c EXCEPT !.src = i]
      BY <1>1, <1>3, <1>7 DEF Decoder!TrailerHead
    <3>2. Written(c, i, 0, 0, 0, 0, 0)
      BY <1>1, CallWith, Zenon
    <3> QED  BY <1>1, <3>1, <3>2 DEF Written
  <2>2. i = L + 1
    BY <1>1, <1>3, <1>7
  <2>3. Turns(t, g, L, s, c.d, i, c.out, Decoder!TrailerHead(c, buf))
    BY <1>1, <1>2, <1>3, <1>6, <2>1, <2>2 DEF Turns, Reached
  <2> QED  BY <2>3, TurnedTo, Zenon
<1>8. i <= L => i + 1 \in Nat /\ g + (i + 1) - 1 = g + i /\ s < i + 1 /\ s <= i + 1 /\
          i + 1 <= L + 1
                /\ (i + 1) - 1 = i
  <2>1. g \in Nat /\ L \in Nat /\ s \in Nat /\ s <= i
    BY <1>1, <1>3
  <2> QED  BY <2>1
<1>9. CASE i <= L /\ buf[i] = Decoder!LF
  <2>1. PICK k : k = i + 1
    OBVIOUS
  <2>2. Decoder!TrailerHead(c, buf) = CallOf(c.d, k, c.out, L - (k - 1))
    <3>1. PICK r : r = L - i
      OBVIOUS
    <3>2. Decoder!TrailerHead(c, buf) = [c EXCEPT !.src = i + 1, !.ret = r]
      BY <1>1, <1>3, <1>9, <3>1 DEF Decoder!TrailerHead
    <3>3. Written(c, i + 1, r, 0, 0, 0, 0)
      BY <1>1, CallWith, Zenon
    <3>4. Decoder!TrailerHead(c, buf) = CallOf(c.d, k, c.out, r)
      BY <1>1, <2>1, <3>2, <3>3 DEF Written
    <3> QED  BY <1>8, <1>9, <2>1, <3>1, <3>4
  <2>3. t[g + i] = Config(c.d, o, 0, g + i)
    BY <1>3, <1>4, <1>6, <1>9 DEF Decoder!CR, Decoder!LF
  <2>4. Reached(t, g, c.d, k, c.out, 0)
    BY <1>1, <1>8, <1>9, <2>1, <2>3 DEF Reached
  <2>5. Turns(t, g, L, s, c.d, k, c.out, Decoder!TrailerHead(c, buf))
    BY <1>1, <1>2, <1>8, <1>9, <2>1, <2>2, <2>4, Zenon DEF Turns
  <2> QED  BY <2>5, TurnedTo, Zenon
<1>10. CASE i <= L /\ buf[i] # Decoder!LF
  <2>1. PICK d, k : d = With(c.d, "middle", 0, 0) /\ k = i + 1
    OBVIOUS
  <2>2. d \in Decoders
    BY <1>1, <2>1, CallFields DEF With, Decoders, States
  <2>3. Decoder!TrailerHead(c, buf) = CallOf(d, k, c.out, -2)
    <3>1. Decoder!TrailerHead(c, buf) = [c EXCEPT !.src = i + 1, !.d.state = "middle"]
      BY <1>1, <1>3, <1>10 DEF Decoder!TrailerHead
    <3>2. Written(c, i + 1, 0, "middle", 0, 0, 0)
      BY <1>1, CallWith, Zenon
    <3> QED  BY <1>1, <1>2, <2>1, <3>1, <3>2 DEF Written
  <2>4. t[g + i] = Config(d, o, -2, g + i)
    BY <1>3, <1>4, <1>6, <1>10, <2>1
  <2>5. Turns(t, g, L, s, d, k, c.out, Decoder!TrailerHead(c, buf))
    BY <1>1, <1>2, <1>8, <1>10, <2>1, <2>2, <2>3, <2>4 DEF Turns, Reached
  <2> QED  BY <2>5, TurnedTo, Zenon
<1> QED  BY <1>1, <1>3, <1>7, <1>9, <1>10

\* The rest of a line of the trailer.
LEMMA MiddleFollows ==
    ASSUME NEW t, NEW g, NEW buf, Piece(t, g, buf), NEW c, NEW L, NEW s, NEW o,
           Going(t, g, buf, c, L, s, o), c.d.state = "middle"
    PROVE  Turned(t, g, buf, c, Decoder!TrailerMiddle(c, buf))
<1>1. /\ g \in Nat /\ buf \in Seq(Nat) /\ L = Len(buf) /\ L \in Nat /\ s \in Nat /\ 1 <= s /\
          s <= L + 1
      /\ c \in Calls /\ c.src = s /\ o = t[g].out \o c.out /\ c.ret = -2
      /\ t[g + s - 1] = Config(c.d, o, -2, g + s - 1)
  BY DEF Going
<1>2. c.d = With(c.d, "middle", 0, 0) /\ c.out \in Seq(Nat) /\ c.d \in Decoders /\
          c.d.left = 0 /\ c.d.hex = 0
  BY <1>1, CallFields DEF Going, GoodDecoder
<1>3. PICK i \in Nat : i = Decoder!Find(buf, s, Decoder!LF)
             /\ s <= i /\ i <= L + 1 /\ (i <= L => buf[i] = Decoder!LF)
             /\ \A j \in s..(i - 1) : buf[j] # Decoder!LF
  <2>1. s \in 1..(Len(buf) + 1)
    BY <1>1
  <2>2. Found(buf, s, Decoder!LF, Decoder!Find(buf, s, Decoder!LF))
    BY <1>1, <2>1, FindFirst, Zenon
  <2> QED  BY <1>1, <2>2 DEF Found
<1>4. \A n, b, j : /\ b = Decoder!LF => Taken(Config(c.d, o, -2, n), b, j)
                                          = Config(With(c.d, "head", 0, 0), o, -2, j)
                   /\ b # Decoder!LF => Taken(Config(c.d, o, -2, n), b, j) =
                       Config(c.d, o, -2, j)
  <2> SUFFICES ASSUME NEW n, NEW b, NEW j, NEW m, m = Config(c.d, o, -2, n)
               PROVE  /\ b = Decoder!LF => Taken(m, b, j) =
                          Config(With(c.d, "head", 0, 0), o, -2, j)
                      /\ b # Decoder!LF => Taken(m, b, j) = Config(c.d, o, -2, j)
    OBVIOUS
  <2>1. m.d = c.d /\ m.out = o /\ m.ret = -2 /\ m.d.state = "middle"
    BY DEF Config
  <2>2. Taken(m, b, j) = InMiddle(m, b, j)
    BY <2>1 DEF Taken
  <2> QED  BY <1>2, <2>1, <2>2 DEF InMiddle
<1>5. Skips(t, g, buf, L, s, c.d, o, i)
  BY <1>1, <1>3, <1>4 DEF Skips
<1>6. /\ t[g + i - 1] = Config(c.d, o, -2, g + i - 1)
      /\ i <= L => t[g + i] = Taken(Config(c.d, o, -2, g + i - 1), buf[i], g + i)
  <2>1. Stood(t, g, buf, L, c.d, o, i)
    BY <1>5, Skipping, Zenon
  <2> QED  BY <2>1 DEF Stood
<1>7. CASE i > L
  <2>1. Decoder!TrailerMiddle(c, buf) = CallOf(c.d, i, c.out, -2)
    <3>1. Decoder!TrailerMiddle(c, buf) = [c EXCEPT !.src = i]
      BY <1>1, <1>3, <1>7 DEF Decoder!TrailerMiddle
    <3>2. Written(c, i, 0, 0, 0, 0, 0)
      BY <1>1, CallWith, Zenon
    <3> QED  BY <1>1, <3>1, <3>2 DEF Written
  <2>2. i = L + 1
    BY <1>1, <1>3, <1>7
  <2>3. Turns(t, g, L, s, c.d, i, c.out, Decoder!TrailerMiddle(c, buf))
    BY <1>1, <1>2, <1>3, <1>6, <2>1, <2>2 DEF Turns, Reached
  <2> QED  BY <2>3, TurnedTo, Zenon
<1>8. i <= L => i + 1 \in Nat /\ g + (i + 1) - 1 = g + i /\ s < i + 1 /\ s <= i + 1 /\
          i + 1 <= L + 1
  <2>1. g \in Nat /\ L \in Nat /\ s \in Nat /\ s <= i
    BY <1>1, <1>3
  <2> QED  BY <2>1
<1>9. CASE i <= L
  <2>1. PICK d, k : d = With(c.d, "head", 0, 0) /\ k = i + 1
    OBVIOUS
  <2>2. d \in Decoders
    BY <1>1, <2>1, CallFields DEF With, Decoders, States
  <2>3. Decoder!TrailerMiddle(c, buf) = CallOf(d, k, c.out, -2)
    <3>1. Decoder!TrailerMiddle(c, buf) = [c EXCEPT !.src = i + 1, !.d.state = "head"]
      BY <1>1, <1>3, <1>9 DEF Decoder!TrailerMiddle
    <3>2. Written(c, i + 1, 0, "head", 0, 0, 0)
      BY <1>1, CallWith, Zenon
    <3> QED  BY <1>1, <1>2, <2>1, <3>1, <3>2 DEF Written
  <2>4. t[g + i] = Config(d, o, -2, g + i)
    BY <1>3, <1>4, <1>6, <1>9, <2>1
  <2>5. Turns(t, g, L, s, d, k, c.out, Decoder!TrailerMiddle(c, buf))
    BY <1>1, <1>2, <1>8, <1>9, <2>1, <2>2, <2>3, <2>4 DEF Turns, Reached
  <2> QED  BY <2>5, TurnedTo, Zenon
<1> QED  BY <1>1, <1>3, <1>7, <1>9

\* Min of two numbers.
LEMMA LeastOfTwo ==
    ASSUME NEW a \in Nat, NEW b \in Nat
    PROVE  /\ Decoder!Min({a, b}) \in {a, b}
           /\ Decoder!Min({a, b}) <= a /\ Decoder!Min({a, b}) <= b
<1>1. PICK S : S = {a, b}
  OBVIOUS
<1>2. S \in SUBSET Nat /\ S # {}
  BY <1>1
<1>3. PICK m : m = Decoder!Min(S)
  OBVIOUS
<1>4. m \in S /\ \A y \in S : m =< y
  BY <1>2, <1>3, LeastNatural, Zenon DEF Decoder!Min
<1> QED  BY <1>1, <1>3, <1>4

\* Putting pieces together in either order.
LEMMA ThreePieces ==
    \A u, v, w \in Seq(Nat) : (u \o v) \o w = u \o (v \o w)
BY ConcatAssociative, SMTT(60)

\* One byte more of a piece.
LEMMA OneMore ==
    ASSUME NEW o \in Seq(Nat), NEW buf \in Seq(Nat), NEW s \in 1..Len(buf),
        NEW n \in s..Len(buf)
    PROVE  /\ SubSeq(buf, s, n - 1) \in Seq(Nat) /\ SubSeq(buf, s, n) \in Seq(Nat)
           /\ Append(o \o SubSeq(buf, s, n - 1), buf[n]) = o \o SubSeq(buf, s, n)
           /\ Append(SubSeq(buf, s, n - 1), buf[n]) = SubSeq(buf, s, n)
<1>1. PICK p, q, b : p = SubSeq(buf, s, n - 1) /\ q = SubSeq(buf, s, n) /\ b = buf[n]
  OBVIOUS
<1>2. p \in Seq(Nat) /\ q \in Seq(Nat) /\ b \in Nat
  <2>1. s \in Int /\ n \in Int /\ n - 1 \in Int /\ n \in 1..Len(buf)
    OBVIOUS
  <2>2. \A i \in s..n : buf[i] \in Nat
    OBVIOUS
  <2>3. \A i \in s..(n - 1) : buf[i] \in Nat
    OBVIOUS
  <2> QED  BY <1>1, <2>1, <2>2, <2>3, SubSeqProperties
<1>3. q = p \o <<b>>
  BY <1>1, SubSeqRecursiveSecond
<1>4. <<b>> \in Seq(Nat)
  BY <1>2
<1>5. Append(o \o p, b) = (o \o p) \o <<b>> /\ Append(p, b) = p \o <<b>>
  <2>1. o \o p \in Seq(Nat)
    BY <1>2
  <2> QED  BY <1>2, <2>1, AppendIsConcat
<1>6. (o \o p) \o <<b>> = o \o (p \o <<b>>)
  BY <1>2, <1>4, ThreePieces, ZenonT(60), SMTT(60)
<1> QED  BY <1>1, <1>2, <1>3, <1>5, <1>6

\* The data of a chunk.
LEMMA DataFollows ==
    ASSUME NEW t, NEW g, NEW buf, Piece(t, g, buf), NEW c, NEW L, NEW s, NEW o,
           Going(t, g, buf, c, L, s, o), c.d.state = "data"
    PROVE  Turned(t, g, buf, c, Decoder!Data(c, buf))
<1>1. /\ g \in Nat /\ buf \in Seq(Nat) /\ L = Len(buf) /\ L \in Nat /\ s \in Nat /\ 1 <= s /\
          s <= L + 1
      /\ c \in Calls /\ c.src = s /\ o = t[g].out \o c.out /\ c.ret = -2 /\ o \in Seq(Nat)
      /\ t[g + s - 1] = Config(c.d, o, -2, g + s - 1)
      /\ \A j \in 1..L : t[g + j] = Taken(t[g + j - 1], buf[j], g + j)
  BY DEF Going, Piece
<1>2. PICK l \in Nat : l = c.d.left /\ l > 0 /\ c.d = With(c.d, "data", l, 0)
      /\ c.out \in Seq(Nat) /\ c.d \in Decoders /\ c.d.hex = 0
  BY <1>1, CallFields DEF Going, GoodDecoder
<1>3. PICK n \in Nat : /\ n = Decoder!Min({L - s + 1, l}) /\ n <= L - s + 1 /\ n <= l
                       /\ n = L - s + 1 \/ n = l
  <2>1. L - s + 1 \in Nat
    BY <1>1
  <2> QED  BY <2>1, LeastOfTwo
<1> DEFINE at(j) == Config(With(c.d, IF j = l THEN "crlf" ELSE "data", l - j, 0),
                           o \o SubSeq(buf, s, s + j - 1), -2, g + s - 1 + j)
<1>4. PICK P : P = {j \in 0..n : t[g + s - 1 + j] = at(j)}
  OBVIOUS
<1>5. 0 \in P
  <2>1. SubSeq(buf, s, s + 0 - 1) = <<>>
    BY <1>1, SubSeqEmpty
  <2>2. o \o <<>> = o
    BY <1>1, ConcatEmptySeq
  <2>3. g + s - 1 + 0 = g + s - 1 /\ l - 0 = l /\ 0 # l
    BY <1>1, <1>2
  <2>4. at(0) = Config(With(c.d, "data", l, 0), o, -2, g + s - 1)
    BY <2>1, <2>2, <2>3
  <2>5. 0 \in 0..n
    OBVIOUS
  <2> HIDE DEF at
  <2> QED  BY <1>1, <1>2, <1>4, <2>3, <2>4, <2>5
<1>6. ASSUME NEW j \in 0..n, j < n, j \in P
      PROVE  j + 1 \in P
  <2>1. j \in Nat /\ j < n /\ j < l /\ j + 1 \in 0..n
    BY <1>3, <1>6
  <2>2. PICK k \in Nat : k = s + j /\ k \in 1..L /\ k \in s..L /\ s \in 1..L
    <3>1. s + j \in Nat /\ s + j \in 1..L /\ s + j \in s..L /\ s \in 1..L
      <4>1. s \in Nat /\ L \in Nat /\ 1 <= s /\ n <= L - s + 1
        BY <1>1, <1>3
      <4> QED  BY <2>1, <4>1
    <3> QED  BY <3>1
  <2>3. g + s - 1 + j = g + k - 1 /\ g + s - 1 + (j + 1) = g + k /\ s + j - 1 = k - 1 /\
            s + (j + 1) - 1 = k
    BY <1>1, <2>1, <2>2
  <2>4. t[g + k] = Taken(t[g + k - 1], buf[k], g + k)
    BY <1>1, <2>2
  <2>5. PICK m, w : m = t[g + k - 1] /\ w = o \o SubSeq(buf, s, k - 1)
    OBVIOUS
  <2>6. m = Config(With(c.d, "data", l - j, 0), w, -2, g + k - 1)
    <3>1. j # l
      BY <1>2, <2>1
    <3>2. t[g + s - 1 + j] = at(j)
      BY <1>4, <1>6
    <3> QED  BY <2>3, <2>5, <3>1, <3>2
  <2>7. m.ret = -2 /\ m.d.state = "data" /\ m.d.left = l - j /\ m.out = w
        /\ m.d.consume_trailer = c.d.consume_trailer
    BY <2>6 DEF Config, With
  <2>8. Taken(m, buf[k], g + k) = InData(m, buf[k], g + k)
    BY <2>7 DEF Taken
  <2>9. l - j = 1 <=> j + 1 = l
    BY <1>2, <2>1
  <2>10. (l - j) - 1 = l - (j + 1)
    BY <1>2, <2>1
  <2>11. Append(w, buf[k]) = o \o SubSeq(buf, s, k)
    <3>1. s \in 1..Len(buf) /\ k \in s..Len(buf)
      BY <1>1, <2>2
    <3> QED  BY <1>1, <2>5, <3>1, OneMore
  <2>12. InData(m, buf[k], g + k)
           = Config(With(c.d, IF j + 1 = l THEN "crlf" ELSE "data", l - (j + 1), 0),
                    o \o SubSeq(buf, s, k), -2, g + k)
    BY <2>7, <2>9, <2>10, <2>11 DEF InData, With
  <2>13. t[g + k] = at(j + 1)
    BY <2>3, <2>4, <2>5, <2>8, <2>12
  <2> HIDE DEF at
  <2> QED  BY <1>4, <2>1, <2>3, <2>13
<1>7. n \in P
  <2>1. 0 \in Nat
    OBVIOUS
  <2>2. \A j \in 0..n : j \in P
    BY <1>5, <1>6, <2>1, Counting
  <2> QED  BY <2>2
<1>8. PICK k, u, d : k = s + n /\ u = SubSeq(buf, s, s + n - 1)
                     /\ d = With(c.d, IF n = l THEN "crlf" ELSE "data", l - n, 0)
  OBVIOUS
<1>9. k \in Nat /\ s <= k /\ k <= L + 1 /\ g + s - 1 + n = g + k - 1
  <2>1. g \in Nat /\ s \in Nat /\ L \in Nat
    BY <1>1
  <2>2. n <= L - s + 1 /\ k = s + n
    BY <1>3, <1>8
  <2> QED  BY <2>1, <2>2
<1>10. s < k \/ k = L + 1
  <2>1. n = l => n > 0
    BY <1>2
  <2>2. s \in Nat /\ L \in Nat
    BY <1>1
  <2>3. k = s + n /\ (n = L - s + 1 \/ n > 0)
    BY <1>3, <1>8, <2>1
  <2> QED  BY <2>2, <2>3
<1>11. d \in Decoders
  <2>1. l - n \in Nat
    BY <1>2, <1>3
  <2>2. c.d.consume_trailer \in BOOLEAN
    BY <1>1, CallFields
  <2> QED  BY <1>8, <2>1, <2>2 DEF With, Decoders, States
<1>12. u \in Seq(Nat)
  <2>1. \A i \in s..(s + n - 1) : buf[i] \in Nat
    <3>1. \A i \in s..(s + n - 1) : i \in 1..L
      <4>1. s \in Nat /\ 1 <= s /\ L \in Nat
        BY <1>1
      <4> QED  BY <1>3, <4>1
    <3>2. \A i \in 1..L : buf[i] \in Nat
      BY SMTT(60), <1>1
    <3> QED  BY <3>1, <3>2
  <2>2. s \in Int /\ s + n - 1 \in Int
    BY <1>1
  <2> QED  BY <1>8, <2>1, <2>2, SubSeqProperties
<1>13. Reached(t, g, d, k, c.out \o u, -2)
  <2>1. t[g + s - 1 + n] = Config(d, o \o u, -2, g + s - 1 + n)
    BY <1>4, <1>7, <1>8
  <2>2. o \o u = t[g].out \o (c.out \o u)
    <3>1. t[g].out \in Seq(Nat)
      <4>1. 0 \in 0..Len(buf) /\ g + 0 = g
        BY <1>1
      <4>2. Good(t[g])
        BY <4>1 DEF Piece
      <4> QED  BY <4>2 DEF Good, Configurations
    <3>2. (t[g].out \o c.out) \o u = t[g].out \o (c.out \o u)
      BY <1>2, <1>12, <3>1, ThreePieces, Zenon
    <3> QED  BY <1>1, <3>2
  <2> QED  BY <1>9, <2>1, <2>2 DEF Reached
<1>14. Decoder!Data(c, buf) = CallOf(d, k, c.out \o u, -2)
  <2>1. PICK x : x = IF n = l THEN "crlf" ELSE "data"
    OBVIOUS
  <2>2. Len(buf) - c.src + 1 = L - s + 1 /\ c.src + n = k /\ c.src + n - 1 = s + n - 1
        /\ SubSeq(buf, c.src, c.src + n - 1) = u
    BY <1>1, <1>8
  <2>3. Decoder!Min({Len(buf) - c.src + 1, c.d.left}) = n
    BY <1>2, <1>3, <2>2
  <2>4. Decoder!Data(c, buf) = [c EXCEPT !.src = c.src + n, !.out = c.out \o SubSeq(buf, c.src, c.src + n - 1),
               !.d.left = c.d.left - n, !.d.state = IF n = c.d.left THEN "crlf" ELSE c.d.state]
    BY <2>3, Zenon DEF Decoder!Data
  <2>5. Written(c, k, 0, x, l - n, 0, c.out \o u)
    BY <1>1, CallWith, Zenon
  <2>6. (IF n = c.d.left THEN "crlf" ELSE c.d.state) = x
    BY <1>2, <2>1
  <2>7. Decoder!Data(c, buf) = [c EXCEPT !.src = k, !.out = c.out \o u, !.d.left = l - n, !.d.state = x]
    BY <1>2, <2>2, <2>4, <2>6, Zenon
  <2>8. Decoder!Data(c, buf) = CallOf(With(c.d, x, l - n, c.d.hex), k, c.out \o u, c.ret)
    BY <2>5, <2>7, Zenon DEF Written
  <2> QED  BY <1>1, <1>2, <1>8, <2>1, <2>8
<1>15. Turns(t, g, L, s, d, k, c.out \o u, Decoder!Data(c, buf))
  <2>1. c.out \o u \in Seq(Nat)
    BY <1>2, <1>12
  <2> QED  BY <1>9, <1>10, <1>11, <1>13, <1>14, <2>1 DEF Turns
<1> QED  BY <1>15, TurnedTo, Zenon

\* The digits of a size, one by one.
Reads(l, buf, s, V) ==
    /\ V[0] = l
    /\ \A n \in 1..(Len(buf) + 1 - s) : V[n] = V[n - 1] * 16 + buf[s + n - 1]

\* Value is what the digits make, one after the other.
LEMMA DigitByDigit ==
    ASSUME NEW l \in Nat, NEW buf \in Seq(Nat), NEW s \in Nat, 1 <= s, s <= Len(buf) + 1
    PROVE  Reads(l, buf, s, Decoder!Value(l, buf, s))
<1>1. PICK N \in Nat : N = Len(buf) + 1 - s
  <2>1. Len(buf) + 1 - s \in Nat
    OBVIOUS
  <2> QED  BY <2>1
<1> DEFINE V == CHOOSE f : f = [n \in 0..N |-> IF n = 0 THEN l ELSE f[n - 1] * 16 + buf[s + n - 1]]
<1>2. Decoder!Value(l, buf, s) = V
  BY <1>1 DEF Decoder!Value
<1>3. \A n \in 1..N : s + n - 1 \in 1..Len(buf) /\ buf[s + n - 1] \in Nat
  BY <1>1
<1>4. PICK S : S = [p \in (1..N) \X Nat |-> p[2] * 16 + buf[s + p[1] - 1]]
  OBVIOUS
<1>5. S \in [(1..N) \X Nat -> Nat]
  <2>1. ASSUME NEW p \in (1..N) \X Nat
        PROVE  p[2] * 16 + buf[s + p[1] - 1] \in Nat
    <3>1. PICK a \in 1..N, b \in Nat : p[1] = a /\ p[2] = b
      BY <2>1
    <3>2. buf[s + a - 1] \in Nat
      BY <1>3
    <3> QED  BY <3>1, <3>2, SMTT(60)
  <2> QED  BY <1>4, <2>1
<1>6. PICK f \in [0..N -> Nat] : f[0] = l /\ \A n \in 1..N : f[n] = S[<<n, f[n - 1]>>]
  <2>1. Steps(Nat, N, l, S)
    BY <1>5 DEF Steps
  <2>2. PICK f : Takes(Nat, N, l, S, f)
    BY <2>1, Iteration, Zenon
  <2> QED  BY <2>2 DEF Takes
<1>7. ASSUME NEW n \in 1..N
      PROVE  f[n] = f[n - 1] * 16 + buf[s + n - 1]
  <2>1. n - 1 \in 0..N
    OBVIOUS
  <2>2. <<n, f[n - 1]>> \in (1..N) \X Nat
    BY <1>6, <2>1
  <2>3. S[<<n, f[n - 1]>>] = f[n - 1] * 16 + buf[s + n - 1]
    BY <1>4, <2>2
  <2> QED  BY <1>6, <2>3
<1>8. f = [n \in 0..N |-> IF n = 0 THEN l ELSE f[n - 1] * 16 + buf[s + n - 1]]
  <2>1. ASSUME NEW n \in 0..N
        PROVE  f[n] = IF n = 0 THEN l ELSE f[n - 1] * 16 + buf[s + n - 1]
    <3>1. CASE n = 0
      BY <1>6, <3>1
    <3>2. CASE n # 0
      <4>1. n \in 1..N
        BY <3>2
      <4> QED  BY <1>7, <3>2, <4>1
    <3> QED  BY <3>1, <3>2
  <2> QED  BY <1>6, <2>1
<1>9. V = [n \in 0..N |-> IF n = 0 THEN l ELSE V[n - 1] * 16 + buf[s + n - 1]]
  BY <1>8, Zenon
<1> HIDE DEF V
<1>10. V[0] = l
  BY <1>9
<1>11. \A n \in 1..N : V[n] = V[n - 1] * 16 + buf[s + n - 1]
  BY SMTT(60), <1>9
<1> QED  BY <1>1, <1>2, <1>10, <1>11 DEF Reads

\* Where the digits end.
DigitsTo(buf, src, i) ==
    /\ i \in Nat /\ src <= i /\ i <= Len(buf) + 1 /\ (i <= Len(buf) => buf[i] \notin 0..15)
    /\ \A j \in src..(i - 1) : buf[j] \in 0..15

\* The first byte that is no digit, or the end of the buffer.
LEMMA DigitsEnd ==
    ASSUME NEW buf \in Seq(Nat), NEW src \in 1..(Len(buf) + 1)
    PROVE  DigitsTo(buf, src, Decoder!Min({j \in src..Len(buf) : buf[j] \notin 0..15} \cup {Len(buf) + 1}))
<1>1. PICK D : D = 0..15
  OBVIOUS
<1>2. PICK S : S = {j \in src..Len(buf) : buf[j] \notin D} \cup {Len(buf) + 1}
  OBVIOUS
<1>3. S \in SUBSET Nat /\ S # {} /\ S \subseteq src..(Len(buf) + 1)
  BY <1>2
<1>4. PICK i : i = Decoder!Min(S)
  OBVIOUS
<1>5. i \in S /\ \A j \in S : i =< j
  BY <1>3, <1>4, LeastNatural, Zenon DEF Decoder!Min
<1>6. \A j \in src..(i - 1) : buf[j] \in D
  <2> SUFFICES ASSUME NEW j \in src..(i - 1), buf[j] \notin D  PROVE FALSE
    OBVIOUS
  <2>1. j \in src..Len(buf)
    BY <1>3, <1>5
  <2>2. j \in S
    BY <1>2, <2>1
  <2>3. i =< j /\ i \in Nat
    BY <1>3, <1>5, <2>2
  <2> QED  BY <2>3
<1>7. i \in Nat /\ src <= i /\ i <= Len(buf) + 1 /\ (i <= Len(buf) => buf[i] \notin D)
  BY <1>2, <1>3, <1>5
<1>8. DigitsTo(buf, src, i)
  BY <1>1, <1>6, <1>7 DEF DigitsTo
<1> QED  BY <1>1, <1>2, <1>4, <1>8

\* What is no size, or a size too long.
LEMMA Refused ==
    ASSUME NEW m, NEW b, NEW i,
           \/ b \in 0..15 /\ ~(m.d.hex < MaxDigits)
           \/ b \notin 0..15 /\ m.d.hex = 0
    PROVE  InSize(m, b, i) = Config(m.d, m.out, -1, i - 1)
BY DEF InSize

\* The size of a chunk.
LEMMA SizeFollows ==
    ASSUME NEW t, NEW g, NEW buf, Piece(t, g, buf), NEW c, NEW L, NEW s, NEW o,
           Going(t, g, buf, c, L, s, o), c.d.state = "size"
    PROVE  Turned(t, g, buf, c, Decoder!Size(c, buf))
<1>1. /\ g \in Nat /\ buf \in Seq(Nat) /\ L = Len(buf) /\ L \in Nat /\ s \in Nat /\ 1 <= s /\
          s <= L + 1
      /\ c \in Calls /\ c.src = s /\ o = t[g].out \o c.out /\ c.ret = -2 /\ o \in Seq(Nat)
      /\ t[g + s - 1] = Config(c.d, o, -2, g + s - 1)
      /\ \A j \in 1..L : t[g + j] = Taken(t[g + j - 1], buf[j], g + j)
  BY DEF Going, Piece
<1>2. PICK l \in Nat, h \in Nat : l = c.d.left /\ h = c.d.hex /\ h <= MaxDigits
  BY <1>1, CallFields DEF Going, GoodDecoder
<1>3. /\ c.d = With(c.d, "size", l, h) /\ c.out \in Seq(Nat) /\ c.d \in Decoders
      /\ c.d.consume_trailer \in BOOLEAN
  BY <1>1, <1>2, CallFields
<1>4. PICK e \in Nat : /\ e = Decoder!Min({j \in s..Len(buf) : buf[j] \notin 0..15} \cup {Len(buf) + 1})
                       /\ s <= e /\ e <= L + 1 /\ (e <= L => buf[e] \notin 0..15)
                       /\ \A j \in s..(e - 1) : buf[j] \in 0..15
  <2>1. s \in 1..(Len(buf) + 1)
    BY <1>1
  <2>2. PICK e : e = Decoder!Min({j \in s..Len(buf) : buf[j] \notin 0..15} \cup {Len(buf) + 1})
    OBVIOUS
  <2>3. DigitsTo(buf, s, e)
    BY <1>1, <2>1, <2>2, DigitsEnd
  <2> QED  BY <1>1, <2>2, <2>3 DEF DigitsTo
<1>5. PICK M \in Nat : M = MaxDigits
  BY HttpExchangeAssumption
<1>6. PICK n \in Nat : /\ n = Decoder!Min({e - s, MaxDigits - h}) /\ n <= e - s /\ n <= M - h
                       /\ n = e - s \/ n = M - h
  <2>1. e - s \in Nat /\ M - h \in Nat
    <3>1. e \in Nat /\ s \in Nat /\ s <= e /\ h <= M
      BY <1>1, <1>2, <1>4, <1>5
    <3> QED  BY <3>1
  <2> QED  BY <1>5, <2>1, LeastOfTwo
<1>7. PICK V : V = Decoder!Value(l, buf, s) /\ V[0] = l
               /\ \A j \in 1..(L + 1 - s) : V[j] = V[j - 1] * 16 + buf[s + j - 1]
  <2>1. Reads(l, buf, s, Decoder!Value(l, buf, s))
    BY <1>1, DigitByDigit
  <2> QED  BY <1>1, <2>1 DEF Reads
<1> DEFINE at(j) == Config(With(c.d, "size", V[j], h + j), o, -2, g + s - 1 + j)
<1>8. PICK P : P = {j \in 0..n : t[g + s - 1 + j] = at(j) /\ V[j] \in Nat}
  OBVIOUS
<1>9. 0 \in P
  <2>1. g + s - 1 + 0 = g + s - 1 /\ h + 0 = h /\ 0 \in 0..n
    BY <1>1
  <2>2. at(0) = Config(c.d, o, -2, g + s - 1)
    BY <1>3, <1>7, <2>1
  <2> HIDE DEF at
  <2> QED  BY <1>1, <1>7, <1>8, <2>1, <2>2
<1>10. ASSUME NEW j \in 0..n, j < n, j \in P
       PROVE  j + 1 \in P
  <2>1. j \in Nat /\ j < n /\ j + 1 \in 0..n
    BY <1>10
  <2>2. PICK k \in Nat : k = s + j /\ k \in 1..L /\ k \in s..(e - 1)
    <3>1. s + j \in Nat /\ s + j \in 1..L /\ s + j \in s..(e - 1)
      <4>1. s \in Nat /\ L \in Nat /\ 1 <= s /\ n <= e - s /\ e <= L + 1
        BY <1>1, <1>4, <1>6
      <4> QED  BY <2>1, <4>1
    <3> QED  BY <3>1
  <2>3. g + s - 1 + j = g + k - 1 /\ g + s - 1 + (j + 1) = g + k /\ s + (j + 1) - 1 = k
        /\ (j + 1) - 1 = j /\ j + 1 \in 1..(L + 1 - s)
    <3>1. g \in Nat /\ s \in Nat /\ L \in Nat /\ n <= e - s /\ e <= L + 1
      BY <1>1, <1>4, <1>6
    <3> QED  BY <2>1, <2>2, <3>1
  <2>4. t[g + k] = Taken(t[g + k - 1], buf[k], g + k)
    BY <1>1, <2>2
  <2>5. PICK m, b, v : m = t[g + k - 1] /\ b = buf[k] /\ v = V[j] /\ v \in Nat
    BY <1>8, <1>10
  <2>6. m = Config(With(c.d, "size", v, h + j), o, -2, g + k - 1)
    BY <1>8, <1>10, <2>3, <2>5
  <2>7. m.ret = -2 /\ m.d.state = "size" /\ m.d.left = v /\ m.d.hex = h + j /\ m.out = o
        /\ m.d.consume_trailer = c.d.consume_trailer
    BY <2>6 DEF Config, With
  <2>8. b \in 0..15 /\ h + j < MaxDigits
    <3>1. h + j < M
      BY <1>5, <1>6, <2>1
    <3> QED  BY <1>4, <1>5, <2>2, <2>5, <3>1
  <2>9. Taken(m, b, g + k) = Config(With(m.d, "size", m.d.left * 16 + b, m.d.hex + 1), m.out, -2, g + k)
    BY <2>7, <2>8 DEF Taken, InSize
  <2>10. V[j + 1] = v * 16 + b /\ V[j + 1] \in Nat
    <3>1. V[j + 1] = v * 16 + b
      BY <1>7, <2>3, <2>5
    <3> QED  BY <2>5, <2>8, <3>1
  <2>11. h + (j + 1) = h + j + 1
    BY <2>1
  <2>12. With(m.d, "size", v * 16 + b, h + j + 1) = With(c.d, "size", V[j + 1], h + (j + 1))
    BY <2>7, <2>10, <2>11 DEF With
  <2>13. t[g + k] = at(j + 1)
    BY <2>3, <2>4, <2>5, <2>7, <2>9, <2>12
  <2> HIDE DEF at
  <2> QED  BY <1>8, <2>1, <2>3, <2>10, <2>13
<1>11. n \in P
  <2>1. 0 \in Nat
    OBVIOUS
  <2>2. \A j \in 0..n : j \in P
    BY <1>9, <1>10, <2>1, Counting
  <2> QED  BY <2>2
<1>12. PICK k, v, x, d : k = s + n /\ v = V[n] /\ x = h + n /\ d = With(c.d, "size", v, x)
  BY SMTT(60)
<1>13. k \in Nat /\ s <= k /\ k <= e /\ k <= L + 1 /\ g + s - 1 + n = g + k - 1 /\
           (g + k) - 1 = g + k - 1
  <2>1. g \in Nat /\ s \in Nat /\ L \in Nat /\ n <= e - s /\ e <= L + 1 /\ k = s + n
    BY <1>1, <1>4, <1>6, <1>12
  <2> QED  BY SMTT(60), <2>1
<1>14. v \in Nat /\ x \in Nat /\ d \in Decoders
  <2>1. v \in Nat /\ x \in Nat
    BY <1>8, <1>11, <1>12
  <2> QED  BY <1>3, <1>12, <2>1 DEF With, Decoders, States
<1>15. t[g + k - 1] = Config(d, o, -2, g + k - 1)
  BY <1>8, <1>11, <1>12, <1>13
<1>16. PICK read : read = CallOf(d, k, c.out, -2)
  OBVIOUS
<1>17. Decoder!Size(c, buf) =
         CASE read.src > Len(buf) -> read
           [] read.src <= Len(buf) /\
               (read.src < e \/ read.d.hex = 0) -> [read EXCEPT !.ret = -1]
           [] OTHER -> [read EXCEPT !.d.hex = 0, !.d.state = "ext"]
  <2>1. Written(c, k, 0, 0, v, x, 0)
    BY <1>1, CallWith, Zenon
  <2>2. read = [c EXCEPT !.d.left = v, !.d.hex = x, !.src = k]
    BY <1>1, <1>3, <1>12, <1>16, <2>1 DEF Written, With
  <2>3. [c EXCEPT !.d.left = Decoder!Value(@, buf, c.src)[n], !.d.hex = @ + n, !.src = @ + n]
          = [c EXCEPT !.d.left = Decoder!Value(c.d.left, buf, c.src)[n], !.d.hex = c.d.hex + n, !.src = c.src + n]
    OBVIOUS
  <2>4. [c EXCEPT !.d.left = Decoder!Value(c.d.left, buf, c.src)[n], !.d.hex = c.d.hex + n, !.src = c.src + n]
          = read
    BY <1>1, <1>2, <1>7, <1>12, <2>2, Zenon
  <2>5. Decoder!Min({i \in c.src .. Len(buf) : buf[i] \notin 0 .. 15} \cup {Len(buf) + 1}) = e
    BY <1>1, <1>4
  <2>6. Decoder!Min({e - c.src, MaxDigits - c.d.hex}) = n
    BY <1>1, <1>2, <1>6
  <2> QED  BY <2>3, <2>4, <2>5, <2>6, Zenon DEF Decoder!Size
<1>18. read.src = k /\ read.d = d /\ read.d.hex = x /\ read \in Calls
  BY <1>3, <1>12, <1>13, <1>14, <1>16 DEF CallOf, Calls, With
<1>19. CASE k > L
  <2>1. Decoder!Size(c, buf) = CallOf(d, k, c.out, -2)
    BY SMTT(60), <1>1, <1>13, <1>16, <1>17, <1>18, <1>19
  <2>2. k = L + 1
    BY <1>1, <1>13, <1>19
  <2>3. Turns(t, g, L, s, d, k, c.out, Decoder!Size(c, buf))
    BY <1>1, <1>3, <1>13, <1>14, <1>15, <2>1, <2>2, Zenon DEF Turns, Reached
  <2> QED  BY <2>3, TurnedTo, Zenon
<1>20. CASE k <= L /\ (k < e \/ x = 0)
  <2>1. Decoder!Size(c, buf) = CallOf(d, k, c.out, -1)
    <3>1. ~(k > Len(buf)) /\ k <= Len(buf)
      BY <1>1, <1>13, <1>20
    <3>2. Decoder!Size(c, buf) = [read EXCEPT !.ret = -1]
      BY <1>17, <1>18, <1>20, <3>1
    <3>3. Written(read, 0, -1, 0, 0, 0, 0)
      BY <1>18, CallWith, Zenon
    <3>4. read.out = c.out
      BY <1>16 DEF CallOf
    <3> QED  BY <1>18, <3>2, <3>3, <3>4 DEF Written
  <2>2. t[g + k] = Config(d, o, -1, g + k - 1)
    <3>1. k \in 1..L
      BY <1>1, <1>13, <1>20
    <3>2. PICK m, b : m = t[g + k - 1] /\ b = buf[k]
      OBVIOUS
    <3>3. t[g + k] = Taken(m, b, g + k)
      BY <1>1, <3>1, <3>2
    <3>4. m.ret = -2 /\ m.d = d /\ m.out = o /\ m.d.state = "size" /\ m.d.hex = x
      BY <1>12, <1>15, <3>2 DEF Config, With
    <3>5. Taken(m, b, g + k) = InSize(m, b, g + k)
      BY <3>4 DEF Taken
    <3>6. CASE k < e
      <4>1. n = M - h
        <5>1. s \in Nat /\ k = s + n /\ (n = e - s \/ n = M - h)
          BY <1>1, <1>6, <1>12
        <5> QED  BY <3>6, <5>1
      <4>2. x = MaxDigits
        BY <1>5, <1>12, <4>1
      <4>3. b \in 0..15
        <5>1. k \in s..(e - 1)
          BY <1>1, <1>13, <3>6
        <5> QED  BY <1>4, <3>2, <5>1
      <4>4. ~(m.d.hex < MaxDigits)
        BY <1>5, <3>4, <4>2
      <4>5. InSize(m, b, g + k) = Config(m.d, m.out, -1, g + k - 1)
        BY <1>13, <4>3, <4>4, Refused
      <4> QED  BY <3>3, <3>4, <3>5, <4>5
    <3>7. CASE k = e /\ x = 0
      <4>1. b \notin 0..15
        BY <1>4, <1>20, <3>2, <3>7
      <4>2. InSize(m, b, g + k) = Config(m.d, m.out, -1, g + k - 1)
        BY <1>13, <3>4, <3>7, <4>1, Refused
      <4> QED  BY <3>3, <3>4, <3>5, <4>2
    <3> QED  BY <1>13, <1>20, <3>6, <3>7
  <2>3. Turns(t, g, L, s, d, k, c.out, Decoder!Size(c, buf))
    BY <1>1, <1>3, <1>13, <1>14, <1>20, <2>1, <2>2, Zenon DEF Turns
  <2> QED  BY <2>3, TurnedTo, Zenon
<1>21. CASE k <= L /\ k = e /\ x # 0
  <2>1. PICK f : f = With(c.d, "ext", v, 0)
    OBVIOUS
  <2>2. f \in Decoders /\ f.state = "ext" /\ f.hex = 0 /\ f.left = v /\
            With(f, "size", f.left, x) = d
    BY <1>3, <1>12, <1>14, <2>1 DEF With, Decoders, States
  <2>3. PICK r : r = CallOf(f, k, c.out, -2)
    OBVIOUS
  <2>4. Decoder!Size(c, buf) = r
    <3>1. ~(k > Len(buf)) /\ ~(k < e)
      BY <1>1, <1>13, <1>21, SMTT(60)
    <3>2. Decoder!Size(c, buf) = [read EXCEPT !.d.hex = 0, !.d.state = "ext"]
      BY <1>17, <1>18, <1>21, <3>1
    <3>3. Written(read, 0, 0, "ext", 0, 0, 0)
      BY <1>18, CallWith, Zenon
    <3>4. read.out = c.out /\ read.ret = -2
      BY <1>16 DEF CallOf
    <3>5. With(read.d, "ext", read.d.left, 0) = f
      BY <1>12, <1>18, <2>1 DEF With
    <3> QED  BY <1>18, <2>3, <3>2, <3>3, <3>4, <3>5 DEF Written
  <2>5. r \in Calls /\ r.src = k /\ r.d = f /\ r.ret = -2 /\ r.out = c.out
    BY SMTT(60), <1>3, <1>13, <2>2, <2>3 DEF CallOf, Calls
  <2>6. k \in 1..(Len(buf) + 1) /\ k <= Len(buf) /\ buf[k] \notin 0..15
    BY <1>1, <1>4, <1>13, <1>21
  <2>7. Reached(t, g, With(f, "size", f.left, x), k, c.out, -2) /\ x \in Nat \ {0}
    BY <1>1, <1>14, <1>15, <1>21, <2>2 DEF Reached
  <2>8. Follows(t, g, buf, r)
    BY <2>2, <2>5, <2>6, <2>7, Zenon DEF Follows
  <2>9. Left(buf, r) < Left(buf, c)
    <3>1. Left(buf, r) = 2 * (L + 1 - k)
      <4>1. r.d.state = "ext" /\ r.src = k
        BY <2>2, <2>5
      <4>2. Left(buf, r) = 2 * (Len(buf) + 1 - k) + 0
        BY <4>1, Zenon DEF Left
      <4>3. L \in Nat /\ k \in Nat /\ Len(buf) = L
        BY <1>1, <1>13
      <4> QED  BY <4>2, <4>3
    <3>2. Left(buf, c) = 2 * (L + 1 - s) + 1
      BY <1>1 DEF Left
    <3>3. s \in Nat /\ L \in Nat /\ k \in Nat /\ s <= k
      BY <1>1, <1>13
    <3> QED  BY <3>1, <3>2, <3>3
  <2> QED  BY <2>4, <2>8, <2>9 DEF Turned
<1> QED  BY <1>1, <1>13, <1>14, <1>19, <1>20, <1>21, SMTT(60)

\* A turn follows the bytes.
LEMMA TurnFollows ==
    ASSUME NEW t, NEW g, NEW buf, Piece(t, g, buf), NEW c, Follows(t, g, buf, c), c.ret = -2
    PROVE  Turned(t, g, buf, c, Decoder!Turn(c, buf))
<1>1. /\ GoodDecoder(c.d)
      /\ c.d.state # "ext" => \E L, s, o : Going(t, g, buf, c, L, s, o)
  BY GoesOn, Zenon
<1>2. c.d.state \in States
  BY <1>1 DEF GoodDecoder, Decoders
<1>3. CASE c.d.state = "ext"
  <2>1. Decoder!Turn(c, buf) = Decoder!Ext(c, buf)
    BY <1>3 DEF Decoder!Turn
  <2> QED  BY <1>1, <1>3, <2>1, ExtFollows, Zenon
<1>4. CASE c.d.state # "ext"
  <2>1. PICK L, s, o : Going(t, g, buf, c, L, s, o)
    BY <1>1, <1>4
  <2>2. CASE c.d.state = "size"
    <3>1. Decoder!Turn(c, buf) = Decoder!Size(c, buf)
      BY <2>2 DEF Decoder!Turn
    <3> QED  BY <2>1, <2>2, <3>1, SizeFollows, Zenon
  <2>3. CASE c.d.state = "data"
    <3>1. Decoder!Turn(c, buf) = Decoder!Data(c, buf)
      BY <2>3 DEF Decoder!Turn
    <3> QED  BY <2>1, <2>3, <3>1, DataFollows, Zenon
  <2>4. CASE c.d.state = "crlf"
    <3>1. Decoder!Turn(c, buf) = Decoder!Crlf(c, buf)
      BY <2>4 DEF Decoder!Turn
    <3> QED  BY <2>1, <2>4, <3>1, CrlfFollows, Zenon
  <2>5. CASE c.d.state = "head"
    <3>1. Decoder!Turn(c, buf) = Decoder!TrailerHead(c, buf)
      BY <2>5 DEF Decoder!Turn
    <3> QED  BY <2>1, <2>5, <3>1, HeadFollows, Zenon
  <2>6. CASE c.d.state = "middle"
    <3>1. Decoder!Turn(c, buf) = Decoder!TrailerMiddle(c, buf)
      BY <2>6 DEF Decoder!Turn
    <3> QED  BY <2>1, <2>6, <3>1, MiddleFollows, Zenon
  <2> QED  BY <1>2, <1>4, <2>2, <2>3, <2>4, <2>5, <2>6 DEF States
<1> QED  BY <1>3, <1>4

\* A call that needs no more turns.
Settled(buf, c) == c.ret # -2 \/ c.src = Len(buf) + 1

LeftIs(L, s, n) == n \in Nat /\ n <= 2 * (L + 1 - s) + 1 /\ (n <= 1 => s = L + 1)

\* The measure of a call is small, and at most one only behind the buffer.
LEMMA LeftCounts ==
    ASSUME NEW buf \in Seq(Nat), NEW c \in Calls, c.src \in 1..(Len(buf) + 1)
    PROVE  LeftIs(Len(buf), c.src, Left(buf, c))
<1>1. PICK x \in {0, 1} : Left(buf, c) = 2 * (Len(buf) + 1 - c.src) + x
  <2>1. PICK x : x = IF c.d.state = "ext" THEN 0 ELSE 1
    OBVIOUS
  <2>2. x \in {0, 1} /\ Left(buf, c) = 2 * (Len(buf) + 1 - c.src) + x
    BY <2>1 DEF Left
  <2> QED  BY <2>2
<1>2. PICK L \in Nat, s \in Nat : L = Len(buf) /\ s = c.src /\ s <= L + 1
  <2>1. c.src \in Nat
    BY CallFields
  <2> QED  BY <2>1
<1>3. 2 * (L + 1 - s) + x \in Nat /\ 2 * (L + 1 - s) + x <= 2 * (L + 1 - s) + 1
      /\ (2 * (L + 1 - s) + x <= 1 => s = L + 1)
  <2>1. PICK y \in Nat : y = L + 1 - s
    BY <1>2
  <2>2. 2 * y + x \in Nat /\ 2 * y + x <= 2 * y + 1 /\ (2 * y + x <= 1 => y = 0)
    OBVIOUS
  <2>3. y = 0 => s = L + 1
    BY <2>1
  <2> QED  BY <2>1, <2>2, <2>3
<1> QED  BY <1>2, <1>3, <1>1 DEF LeftIs

\* Two turns for each byte, and one more, settle a call.
LEMMA CallFollows ==
    ASSUME NEW t, NEW g, NEW buf, Piece(t, g, buf), NEW d, t[g].d = d,
        t[g].ret = -2, t[g].at = g
    PROVE  /\ Follows(t, g, buf, Decoder!phr_decode_chunked(d, buf))
           /\ Settled(buf, Decoder!phr_decode_chunked(d, buf))
<1>1. /\ g \in Nat /\ buf \in Seq(Nat) /\ Len(buf) \in Nat
      /\ \A j \in 0..Len(buf) : Good(t[g + j])
  BY DEF Piece
<1>2. Good(t[g]) /\ t[g] = Config(d, t[g].out, -2, g) /\ t[g].out \in Seq(Nat) /\
          d \in Decoders
  <2>1. 0 \in 0..Len(buf) /\ g + 0 = g
    BY <1>1
  <2>2. Good(t[g])
    BY <1>1, <2>1
  <2>3. t[g] = Config(t[g].d, t[g].out, t[g].ret, t[g].at)
    BY <2>2 DEF Good, Configurations, Config
  <2> QED  BY <2>2, <2>3 DEF Good, GoodDecoder, Configurations
<1>3. PICK c0 : c0 = Decoder!Call(d, 1, <<>>)
  OBVIOUS
<1>4. c0 = CallOf(d, 1, <<>>, -2) /\ c0 \in Calls /\ c0.src = 1 /\ c0.ret = -2
  BY <1>2, <1>3 DEF Decoder!Call, CallOf, Calls
<1>5. Follows(t, g, buf, c0)
  <2>1. t[g].out \o <<>> = t[g].out
    BY <1>2, ConcatEmptySeq
  <2>2. 1 \in 1..(Len(buf) + 1) /\ g + 1 - 1 = g /\ <<>> \in Seq(Nat)
    BY <1>1
  <2>3. Reached(t, g, d, 1, <<>>, -2)
    BY <1>2, <2>1, <2>2 DEF Reached
  <2> QED  BY <1>1, <1>2, <1>4, <2>2, <2>3, FollowsOn
<1>6. PICK N \in Nat : N = 2 * Len(buf) + 1
  BY <1>1
<1>7. PICK T : T = {c \in Calls : Follows(t, g, buf, c)}
  OBVIOUS
<1>8. \A c \in T : Decoder!Turn(c, buf) \in T
  <2> SUFFICES ASSUME NEW c \in T  PROVE Decoder!Turn(c, buf) \in T
    OBVIOUS
  <2>1. Follows(t, g, buf, c) /\ c \in Calls
    BY <1>7
  <2>2. CASE c.ret = -2
    <3>1. Follows(t, g, buf, Decoder!Turn(c, buf))
      BY <2>1, <2>2, TurnFollows, Zenon DEF Turned
    <3> QED  BY <1>7, <3>1 DEF Follows
  <2>3. CASE c.ret # -2
    <3>1. Decoder!Turn(c, buf) = c
      BY <2>3 DEF Decoder!Turn
    <3> QED  BY <3>1
  <2> QED  BY <2>2, <2>3
<1> DEFINE call == CHOOSE f : f = [n \in 0..N |-> IF n = 0 THEN c0 ELSE Decoder!Turn(f[n - 1], buf)]
<1>9. Decoder!phr_decode_chunked(d, buf) = call[N]
  BY <1>3, <1>6 DEF Decoder!phr_decode_chunked
<1>10. PICK S : S = [p \in (1..N) \X T |-> Decoder!Turn(p[2], buf)]
  OBVIOUS
<1>11. PICK f \in [0..N -> T] : f[0] = c0 /\ \A n \in 1..N : f[n] = S[<<n, f[n - 1]>>]
  <2>1. S \in [(1..N) \X T -> T]
    BY <1>8, <1>10
  <2>2. c0 \in T
    BY <1>4, <1>5, <1>7
  <2>3. Steps(T, N, c0, S)
    BY <2>1, <2>2 DEF Steps
  <2>4. PICK f : Takes(T, N, c0, S, f)
    BY <2>3, Iteration, Zenon
  <2> QED  BY <2>4 DEF Takes
<1>12. ASSUME NEW n \in 1..N
       PROVE  n - 1 \in 0..N /\ f[n] = Decoder!Turn(f[n - 1], buf)
  <2>1. n - 1 \in 0..N
    OBVIOUS
  <2>2. <<n, f[n - 1]>> \in (1..N) \X T
    BY <1>11, <2>1
  <2> QED  BY <1>10, <1>11, <2>1, <2>2
<1>13. f = [n \in 0..N |-> IF n = 0 THEN c0 ELSE Decoder!Turn(f[n - 1], buf)]
  <2>1. ASSUME NEW n \in 0..N
        PROVE  f[n] = IF n = 0 THEN c0 ELSE Decoder!Turn(f[n - 1], buf)
    <3>1. CASE n = 0
      BY <1>11, <3>1
    <3>2. CASE n # 0
      <4>1. n \in 1..N
        BY <3>2
      <4> QED  BY <1>12, <3>2, <4>1
    <3> QED  BY <3>1, <3>2
  <2> QED  BY <1>11, <2>1
<1>14. call = [n \in 0..N |-> IF n = 0 THEN c0 ELSE Decoder!Turn(call[n - 1], buf)]
  BY <1>13, Zenon
<1> HIDE DEF call
<1>15. call[0] = c0 /\ \A n \in 1..N : call[n] = Decoder!Turn(call[n - 1], buf)
  BY <1>14
<1>16. PICK P : P = {n \in 0..N : /\ call[n] \in T
                                  /\ Settled(buf, call[n]) \/ Left(buf, call[n]) <= N - n}
  OBVIOUS
<1>17. 0 \in P
  <2>1. c0.src \in 1..(Len(buf) + 1) /\ 2 * (Len(buf) + 1 - 1) + 1 = N
    BY <1>1, <1>4, <1>6
  <2>2. Left(buf, c0) <= N /\ N - 0 = N /\ 0 \in 0..N
    <3>1. LeftIs(Len(buf), 1, Left(buf, c0))
      BY <1>1, <1>4, <2>1, LeftCounts, Zenon
    <3> QED  BY <2>1, <3>1 DEF LeftIs
  <2>3. c0 \in T
    BY <1>4, <1>5, <1>7
  <2> QED  BY <1>15, <1>16, <2>2, <2>3
<1>18. ASSUME NEW n \in 0..N, n < N, n \in P
       PROVE  n + 1 \in P
  <2>1. n + 1 \in 1..N /\ (n + 1) - 1 = n /\ n + 1 \in 0..N /\ n \in Nat
    BY <1>18
  <2>2. PICK c, e : c = call[n] /\ e = call[n + 1]
    OBVIOUS
  <2>3. c \in T /\ (Settled(buf, c) \/ Left(buf, c) <= N - n)
    BY <1>16, <1>18, <2>2
  <2>4. e = Decoder!Turn(c, buf) /\ e \in T
    BY <1>8, <1>15, <2>1, <2>2, <2>3
  <2>5. /\ c \in Calls /\ c.src \in 1..(Len(buf) + 1) /\ Follows(t, g, buf, c)
        /\ e \in Calls /\ e.src \in 1..(Len(buf) + 1)
    BY <1>7, <2>3, <2>4 DEF Follows
  <2>6. CASE c.ret # -2
    <3>1. e = c
      BY <2>4, <2>6 DEF Decoder!Turn
    <3>2. Settled(buf, e)
      BY <2>6, <3>1 DEF Settled
    <3> QED  BY <1>16, <2>1, <2>2, <2>4, <3>2
  <2>7. CASE c.ret = -2
    <3>1. Turned(t, g, buf, c, e)
      BY <2>4, <2>5, <2>7, TurnFollows, Zenon
    <3>2. Settled(buf, e) \/ Left(buf, e) < Left(buf, c)
      BY <3>1 DEF Turned, Settled
    <3>3. PICK x \in Nat, y \in Nat : /\ x = Left(buf, c) /\ LeftIs(Len(buf), c.src, x)
                                      /\ y = Left(buf, e) /\ LeftIs(Len(buf), e.src, y)
      <4>1. LeftIs(Len(buf), c.src, Left(buf, c)) /\ LeftIs(Len(buf), e.src, Left(buf, e))
        BY <1>1, <2>5, LeftCounts, Zenon
      <4>2. Left(buf, c) \in Nat /\ Left(buf, e) \in Nat
        BY <4>1 DEF LeftIs
      <4> QED  BY <4>1, <4>2
    <3>4. CASE c.src = Len(buf) + 1
      <4>1. x <= 1
        <5>1. 2 * (Len(buf) + 1 - (Len(buf) + 1)) + 1 = 1
          BY <1>1
        <5> QED  BY <3>3, <3>4, <5>1 DEF LeftIs
      <4>2. y < x => e.src = Len(buf) + 1
        BY <3>3, <4>1 DEF LeftIs
      <4>3. Settled(buf, e)
        BY <3>2, <3>3, <4>2 DEF Settled
      <4> QED  BY <1>16, <2>1, <2>2, <2>4, <4>3
    <3>5. CASE c.src # Len(buf) + 1
      <4>1. x <= N - n
        BY <2>3, <2>7, <3>3, <3>5 DEF Settled
      <4>2. y < x => y <= N - (n + 1)
        BY <2>1, <4>1
      <4>3. Settled(buf, e) \/ Left(buf, e) <= N - (n + 1)
        BY <3>2, <3>3, <4>2
      <4> QED  BY <1>16, <2>1, <2>2, <2>4, <4>3
    <3> QED  BY <3>4, <3>5
  <2> QED  BY <2>6, <2>7
<1>19. N \in P
  <2>1. 0 \in Nat
    OBVIOUS
  <2>2. \A n \in 0..N : n \in P
    BY <1>17, <1>18, <2>1, Counting
  <2> QED  BY <2>2
<1>20. PICK c : c = call[N] /\ c \in T /\ (Settled(buf, c) \/ Left(buf, c) <= N - N)
  BY <1>16, <1>19
<1>21. Follows(t, g, buf, c) /\ c \in Calls /\ c.src \in 1..(Len(buf) + 1)
  BY <1>7, <1>20 DEF Follows
<1>22. Settled(buf, c)
  <2>1. Left(buf, c) \in Nat /\ (Left(buf, c) <= 1 => c.src = Len(buf) + 1)
    <3>1. LeftIs(Len(buf), c.src, Left(buf, c))
      BY <1>1, <1>21, LeftCounts, Zenon
    <3> QED  BY <3>1 DEF LeftIs
  <2>2. Left(buf, c) <= N - N => Left(buf, c) <= 1
    BY <2>1
  <2> QED  BY <1>20, <2>1, <2>2 DEF Settled
<1> QED  BY <1>9, <1>20, <1>21, <1>22

\* What the decoder comes to byte by byte, over all the bytes of a body.
Follow(b, t) ==
    /\ b.bytes \in Seq(Nat) /\ b.trailer \in BOOLEAN
    /\ t[0] = Config(Decoder!Zeroed(b.trailer), <<>>, -2, 0)
    /\ \A n \in 0..Len(b.bytes) : Good(t[n])
    /\ \A n \in 1..Len(b.bytes) : t[n] = Taken(t[n - 1], b.bytes[n], n)

\* A body can be followed byte by byte.
LEMMA FollowExists ==
    ASSUME NEW b, b.bytes \in Seq(Nat), b.trailer \in BOOLEAN
    PROVE  \E t : Follow(b, t)
<1>1. PICK N \in Nat : N = Len(b.bytes)
  OBVIOUS
<1>2. \A n \in 1..N : b.bytes[n] \in Nat /\ n \in Nat \ {0}
  BY <1>1
<1>3. PICK T : T = {m \in Configurations : Good(m)}
  OBVIOUS
<1>4. PICK m0 : m0 = Config(Decoder!Zeroed(b.trailer), <<>>, -2, 0)
  OBVIOUS
<1>5. m0 \in T
  <2>1. 0 \in 0..MaxDigits /\ 0 <= MaxDigits /\ Decoder!Sizes[0] = 1
    BY SizesGrow, HttpExchangeAssumption
  <2>2. PICK d : d = Decoder!Zeroed(b.trailer)
    OBVIOUS
  <2>3. d \in Decoders /\ d.state = "size" /\ d.left = 0 /\ d.hex = 0
    BY <2>2 DEF Decoder!Zeroed, Decoders, States
  <2>4. GoodDecoder(d)
    BY <2>1, <2>3 DEF GoodDecoder
  <2>5. <<>> \in Seq(Nat) /\ 0 \in Nat
    OBVIOUS
  <2>6. m0 \in Configurations /\ m0.d = d
    BY <1>4, <2>2, <2>3, <2>5 DEF Config, Configurations
  <2> QED  BY <1>3, <2>4, <2>6 DEF Good
<1>6. \A m \in T, n \in 1..N : Taken(m, b.bytes[n], n) \in T
  <2> SUFFICES ASSUME NEW m \in T, NEW n \in 1..N  PROVE Taken(m, b.bytes[n], n) \in T
    OBVIOUS
  <2>1. Good(m)
    BY <1>3
  <2>2. Good(Taken(m, b.bytes[n], n))
    BY <1>2, <2>1, TakenIsGood
  <2> QED  BY <1>3, <2>2 DEF Good
<1>7. PICK S : S = [p \in (1..N) \X T |-> Taken(p[2], b.bytes[p[1]], p[1])]
  OBVIOUS
<1>8. PICK t \in [0..N -> T] : t[0] = m0 /\ \A n \in 1..N : t[n] = S[<<n, t[n - 1]>>]
  <2>1. S \in [(1..N) \X T -> T]
    BY <1>6, <1>7
  <2>2. Steps(T, N, m0, S)
    BY <1>5, <2>1 DEF Steps
  <2>3. PICK t : Takes(T, N, m0, S, t)
    BY <2>2, Iteration, Zenon
  <2> QED  BY <2>3 DEF Takes
<1>9. ASSUME NEW n \in 1..N
      PROVE  t[n] = Taken(t[n - 1], b.bytes[n], n)
  <2>1. n - 1 \in 0..N
    OBVIOUS
  <2>2. <<n, t[n - 1]>> \in (1..N) \X T
    BY <1>8, <2>1
  <2> QED  BY <1>7, <1>8, <2>2
<1>10. \A n \in 0..N : Good(t[n])
  BY <1>3, <1>8
<1> QED  BY <1>1, <1>4, <1>8, <1>9, <1>10 DEF Follow

\* A byte is decoded or not.
Behind(m, e, b, i) ==
    /\ e.out = m.out \/ e.out = Append(m.out, b)
    /\ m.ret # -2 => e = m
    /\ m.ret = -2 /\ e.ret = -2 => e.at = i

\* A byte adds itself to what is decoded, or nothing.
LEMMA TakenOut ==
    ASSUME NEW m, m.d.state \in States, NEW b, NEW i
    PROVE  Behind(m, Taken(m, b, i), b, i)
<1>1. CASE m.ret # -2
  BY <1>1 DEF Taken, Behind
<1>2. CASE m.ret = -2
  <2>1. ASSUME NEW d, NEW out, NEW r, NEW j
        PROVE  /\ Config(d, out, r, j).out = out /\ Config(d, out, r, j).ret = r
               /\ Config(d, out, r, j).at = j
    BY DEF Config
  <2>2. PICK k : k = i - 1
    OBVIOUS
  <2> DEFINE Fine(x) == (x.out = m.out \/ x.out = Append(m.out, b)) /\ (x.ret = -2 => x.at = i)
  <2>3. \A d, r : Fine(Config(d, m.out, r, i)) /\ Fine(Config(d, Append(m.out, b), r, i))
    <3> SUFFICES ASSUME NEW d, NEW r
                 PROVE  Fine(Config(d, m.out, r, i)) /\ Fine(Config(d, Append(m.out, b), r, i))
      OBVIOUS
    <3>1. PICK x, y : x = Config(d, m.out, r, i) /\ y = Config(d, Append(m.out, b), r, i)
      OBVIOUS
    <3>2. x.out = m.out /\ x.at = i /\ y.out = Append(m.out, b) /\ y.at = i
      BY <3>1 DEF Config
    <3>3. Fine(x) /\ Fine(y)
      BY <3>2
    <3> QED  BY <3>1, <3>3
  <2>4. \A d : Fine(Config(d, m.out, -1, k))
    BY <2>1
  <2> HIDE DEF Fine
  <2>5. Fine(InExtension(m, b, i))
    BY <2>3 DEF InExtension
  <2>6. Fine(InSize(m, b, i))
    BY <2>2, <2>3, <2>4, <2>5 DEF InSize
  <2>7. Fine(InData(m, b, i))
    <3>1. PICK d : InData(m, b, i) = Config(d, Append(m.out, b), -2, i)
      BY DEF InData
    <3> QED  BY <2>3, <3>1
  <2>8. Fine(InMiddle(m, b, i))
    <3>1. PICK d : InMiddle(m, b, i) = Config(d, m.out, -2, i)
      BY DEF InMiddle
    <3> QED  BY <2>3, <3>1
  <2>9. Fine(InCrlf(m, b, i)) /\ Fine(InHead(m, b, i))
    BY <2>2, <2>3, <2>4 DEF InCrlf, InHead
  <2>10. Fine(Taken(m, b, i))
    BY <1>2, <2>5, <2>6, <2>7, <2>9, <2>8 DEF Taken, States
  <2> QED  BY <1>2, <2>10 DEF Fine, Behind
<1> QED  BY <1>1, <1>2

\* u begins with v.
Begins(u, v) == u \in Seq(Nat) /\ v \in Seq(Nat) /\ Decoder!IsPrefix(v, u)

\* A beginning of a beginning is a beginning.
LEMMA BeginsAgain ==
    ASSUME NEW u, NEW v, NEW w, Begins(u, v), Begins(v, w)
    PROVE  Begins(u, w)
<1>1. /\ u \in Seq(Nat) /\ v \in Seq(Nat) /\ w \in Seq(Nat)
      /\ Len(v) <= Len(u) /\ SubSeq(v, 1, Len(v)) = SubSeq(u, 1, Len(v))
      /\ Len(w) <= Len(v) /\ SubSeq(w, 1, Len(w)) = SubSeq(v, 1, Len(w))
  BY DEF Begins, Decoder!IsPrefix
<1>2. Len(w) <= Len(u)
  BY <1>1
<1>3. SubSeq(w, 1, Len(w)) = SubSeq(u, 1, Len(w))
  <2>1. \A i \in 1..Len(v) : v[i] = u[i]
    <3>1. \A i \in 1..Len(v) : SubSeq(v, 1, Len(v))[i] = v[i] /\ SubSeq(u, 1, Len(v))[i] = u[i]
      BY <1>1
    <3> QED  BY <1>1, <3>1
  <2>2. PICK k \in Nat : k = Len(w) /\ k <= Len(v) /\ k <= Len(u)
    BY <1>1, <1>2
  <2>3. SubSeq(v, 1, k) = SubSeq(u, 1, k)
    <3>1. \A i \in 1..k : v[i] = u[i] /\ v[i] \in Nat /\ u[i] \in Nat
      BY <1>1, <2>1, <2>2, SMTT(60)
    <3>2. SubSeq(v, 1, k) = [i \in 1..k |-> v[i]] /\ SubSeq(u, 1, k) = [i \in 1..k |-> u[i]]
      <4>1. SubSeq(v, 1, k) \in Seq(Nat) /\ Len(SubSeq(v, 1, k)) = k /\
                \A i \in 1..k : SubSeq(v, 1, k)[i] = v[i]
        BY SMTT(60), <1>1, <2>2
      <4>2. SubSeq(u, 1, k) \in Seq(Nat) /\ Len(SubSeq(u, 1, k)) = k /\
                \A i \in 1..k : SubSeq(u, 1, k)[i] = u[i]
        BY <1>1, <2>2
      <4> QED  BY <4>1, <4>2
    <3> QED  BY <3>1, <3>2
  <2> QED  BY <1>1, <2>2, <2>3
<1> QED  BY <1>1, <1>2, <1>3 DEF Begins, Decoder!IsPrefix

\* A sequence begins with itself, also when a byte is added.
LEMMA BeginsAppend ==
    ASSUME NEW v \in Seq(Nat), NEW e \in Nat
    PROVE  Begins(v, v) /\ Begins(Append(v, e), v)
<1>1. PICK u : u = Append(v, e) /\ u \in Seq(Nat)
  <2>1. Append(v, e) \in Seq(Nat)
    OBVIOUS
  <2> QED  BY <2>1
<1>2. Len(v) <= Len(u) /\ \A i \in 1..Len(v) : u[i] = v[i]
  BY <1>1
<1>3. PICK k \in Nat : k = Len(v) /\ k <= Len(u)
  BY <1>2
<1>4. SubSeq(v, 1, k) = SubSeq(u, 1, k)
  <2>1. SubSeq(v, 1, k) \in Seq(Nat) /\ Len(SubSeq(v, 1, k)) = k /\
            \A i \in 1..k : SubSeq(v, 1, k)[i] = v[i]
    BY <1>3
  <2>2. SubSeq(u, 1, k) \in Seq(Nat) /\ Len(SubSeq(u, 1, k)) = k /\
            \A i \in 1..k : SubSeq(u, 1, k)[i] = u[i]
    BY <1>1, <1>3
  <2>3. \A i \in 1..k : SubSeq(v, 1, k)[i] = SubSeq(u, 1, k)[i]
    BY <1>2, <1>3, <2>1, <2>2
  <2> QED  BY <2>1, <2>2, <2>3, SeqEqual
<1> QED  BY <1>1, <1>3, <1>4 DEF Begins, Decoder!IsPrefix

\* Once it has ended or been refused nothing changes, and what is decoded stays decoded.
LEMMA FollowKeeps ==
    ASSUME NEW b, NEW t, Follow(b, t), NEW n \in 0..Len(b.bytes)
    PROVE  /\ t[n].ret = -2 => t[n].at = n
           /\ \A k \in n..Len(b.bytes) : /\ t[n].ret # -2 => t[k] = t[n]
                                         /\ Begins(t[k].out, t[n].out)
<1>1. /\ b.bytes \in Seq(Nat) /\ Len(b.bytes) \in Nat
      /\ t[0] = Config(Decoder!Zeroed(b.trailer), <<>>, -2, 0)
      /\ \A i \in 0..Len(b.bytes) : Good(t[i])
      /\ \A i \in 1..Len(b.bytes) : t[i] = Taken(t[i - 1], b.bytes[i], i)
  BY DEF Follow
<1>2. PICK N \in Nat : N = Len(b.bytes) /\ n \in Nat /\ n <= N
  BY <1>1
<1>3. ASSUME NEW i \in 0..N
      PROVE  t[i].d.state \in States /\ t[i].out \in Seq(Nat)
  <2>1. Good(t[i])
    BY <1>1, <1>2
  <2> QED  BY <2>1 DEF Good, GoodDecoder, Decoders, Configurations
<1>4. ASSUME NEW i \in 0..N, i < N
      PROVE  /\ i + 1 \in 1..N /\ i + 1 \in 0..N /\ (i + 1) - 1 = i /\ b.bytes[i + 1] \in Nat
             /\ t[i + 1] = Taken(t[i], b.bytes[i + 1], i + 1)
             /\ t[i + 1].out = t[i].out \/ t[i + 1].out = Append(t[i].out, b.bytes[i + 1])
             /\ t[i].ret # -2 => t[i + 1] = t[i]
             /\ t[i].ret = -2 /\ t[i + 1].ret = -2 => t[i + 1].at = i + 1
  <2>1. i + 1 \in 1..N /\ i + 1 \in 0..N /\ (i + 1) - 1 = i
    BY <1>2, <1>4
  <2>2. t[i + 1] = Taken(t[i], b.bytes[i + 1], i + 1) /\ b.bytes[i + 1] \in Nat
    BY <1>1, <1>2, <2>1, SMTT(60)
  <2>3. Behind(t[i], t[i + 1], b.bytes[i + 1], i + 1)
    BY <1>3, <2>2, TakenOut, Zenon
  <2> QED  BY <2>1, <2>2, <2>3 DEF Behind
<1>5. PICK P : P = {i \in 0..N : t[i].ret = -2 => t[i].at = i}
  OBVIOUS
<1>6. n \in P
  <2>1. 0 \in P
    BY <1>1, <1>2, <1>5 DEF Config
  <2>2. \A i \in 0..N : i < N /\ i \in P => i + 1 \in P
    BY <1>4, <1>5
  <2>3. 0 \in Nat
    OBVIOUS
  <2>4. \A i \in 0..N : i \in P
    BY <2>1, <2>2, <2>3, Counting
  <2> QED  BY <1>2, <2>4
<1>7. PICK Q : Q = {k \in n..N : /\ t[n].ret # -2 => t[k] = t[n]
                                 /\ Begins(t[k].out, t[n].out)}
  OBVIOUS
<1>8. n \in Q
  <2>1. n \in n..N /\ n \in 0..N /\ 0 \in Nat
    BY <1>2
  <2>2. Begins(t[n].out, t[n].out)
    BY <1>3, <2>1, BeginsAppend
  <2> QED  BY <1>7, <2>1, <2>2
<1>9. ASSUME NEW k \in n..N, k < N, k \in Q
      PROVE  k + 1 \in Q
  <2>1. k \in 0..N /\ k + 1 \in n..N
    BY <1>2, <1>9
  <2>2. t[n].ret # -2 => t[k + 1] = t[n]
    BY <1>4, <1>7, <1>9, <2>1
  <2>3. Begins(t[k + 1].out, t[k].out)
    <3>1. PICK u, v, e : u = t[k].out /\ v = t[k + 1].out /\ e = b.bytes[k + 1]
      OBVIOUS
    <3>2. u \in Seq(Nat) /\ e \in Nat /\ (v = u \/ v = Append(u, e))
      BY <1>3, <1>4, <1>9, <2>1, <3>1
    <3> QED  BY <3>1, <3>2, BeginsAppend
  <2>4. Begins(t[k + 1].out, t[n].out)
    BY <1>7, <1>9, <2>3, BeginsAgain, Zenon
  <2> QED  BY <1>7, <2>1, <2>2, <2>4
<1>10. \A k \in n..N : k \in Q
  BY <1>2, <1>8, <1>9, Counting
<1> QED  BY <1>2, <1>5, <1>6, <1>7, <1>10

\* What a call returns where the bytes led to m: the n-th is the last it was given.
Returns(r, m, n) ==
    \/ r = -2 /\ m.ret = -2
    \/ r = -1 /\ m.ret = -1
    \/ r \in Nat /\ m.ret = 0 /\ m.at \in Nat /\ r = n - m.at

Comes(t, g, n, c) ==
    /\ c.d = t[g + n].d /\ c.out \in Seq(Nat) /\ t[g].out \o c.out = t[g + n].out
    /\ Returns(c.ret, t[g + n], g + n)

\* A call comes to where the bytes come to that it is given.
LEMMA CallComes ==
    ASSUME NEW b, NEW t, Follow(b, t), NEW g \in Nat, NEW n \in Nat, g + n <= Len(b.bytes),
           t[g].ret = -2, NEW d, d = t[g].d
    PROVE  Comes(t, g, n, Decoder!phr_decode_chunked(d, SubSeq(b.bytes, g + 1, g + n)))
<1>1. /\ b.bytes \in Seq(Nat) /\ Len(b.bytes) \in Nat
      /\ \A i \in 0..Len(b.bytes) : Good(t[i])
      /\ \A i \in 1..Len(b.bytes) : t[i] = Taken(t[i - 1], b.bytes[i], i)
  BY SMTT(60) DEF Follow
<1>2. PICK N \in Nat : N = Len(b.bytes) /\ g + n <= N
  BY <1>1
<1>3. PICK buf : buf = SubSeq(b.bytes, g + 1, g + n)
  OBVIOUS
<1>4. buf \in Seq(Nat) /\ Len(buf) = n /\ \A j \in 1..n : buf[j] = b.bytes[g + j]
  <2>1. g + 1 \in Int /\ g + n \in Int
    OBVIOUS
  <2>2. \A i \in (g + 1)..(g + n) : b.bytes[i] \in Nat
    <3>1. \A i \in (g + 1)..(g + n) : i \in 1..N
      BY <1>2
    <3> QED  BY <1>1, <1>2, <3>1, SMTT(60)
  <2>3. /\ buf \in Seq(Nat)
        /\ Len(buf) = IF g + 1 <= g + n THEN (g + n) - (g + 1) + 1 ELSE 0
        /\ \A i \in 1..((g + n) - (g + 1) + 1) : buf[i] = b.bytes[(g + 1) + i - 1]
    BY <1>3, <2>1, <2>2, SubSeqProperties
  <2>4. (g + n) - (g + 1) + 1 = n /\ (g + 1 <= g + n <=> n >= 1)
    OBVIOUS
  <2>5. \A j \in 1..n : (g + 1) + j - 1 = g + j
    OBVIOUS
  <2> QED  BY <2>3, <2>4, <2>5
<1>5. Piece(t, g, buf)
  <2>1. \A j \in 0..n : g + j \in 0..N
    BY <1>2
  <2>2. \A j \in 1..n : g + j \in 1..N /\ (g + j) - 1 = g + j - 1
    BY <1>2
  <2> QED  BY <1>1, <1>2, <1>4, <2>1, <2>2 DEF Piece
<1>6. PICK c : c = Decoder!phr_decode_chunked(d, buf)
  OBVIOUS
<1>7. Follows(t, g, buf, c) /\ Settled(buf, c)
  <2>1. g \in 0..Len(b.bytes)
    BY <1>1
  <2>2. t[g].at = g
    BY <2>1, FollowKeeps
  <2> QED  BY <1>5, <1>6, <2>2, CallFollows, Zenon
<1>8. PICK s \in Nat : s = c.src /\ 1 <= s /\ s <= n + 1 /\ g + s - 1 \in Nat /\
          g + s - 1 <= g + n
  <2>1. c \in Calls /\ c.src \in 1..(n + 1)
    BY <1>4, <1>7 DEF Follows
  <2> QED  BY <2>1
<1>9. PICK o : o = t[g].out \o c.out /\ c.out \in Seq(Nat)
  BY <1>7, CallFields DEF Follows
<1>10. \A i \in Nat : i <= g + n /\ t[i].ret # -2 => t[g + n] = t[i]
  <2>1. \A i \in Nat : i <= g + n => i \in 0..Len(b.bytes) /\ g + n \in i..Len(b.bytes)
    BY <1>2
  <2> QED  BY <2>1, FollowKeeps
<1>11. CASE c.ret = -2 /\ s = n + 1
  <2>1. s > Len(buf) /\ c.ret # Len(buf) - (s - 1)
    BY <1>4, <1>11
  <2>2. Reached(t, g, c.d, s, c.out, -2)
    BY <1>4, <1>7, <1>8, <1>11, <2>1 DEF Follows
  <2>3. g + s - 1 = g + n
    BY <1>11
  <2>4. PICK m : m = t[g + n] /\ m = Config(c.d, o, -2, g + n)
    BY <1>9, <2>2, <2>3 DEF Reached
  <2>5. m.ret = -2 /\ m.d = c.d /\ m.out = o
    BY <2>4 DEF Config
  <2>6. Comes(t, g, n, c)
    BY <1>9, <1>11, <2>4, <2>5, Zenon DEF Comes, Returns
  <2> QED  BY <1>3, <1>6, <2>6
<1>12. CASE c.ret = -1
  <2>1. c.ret # Len(buf) - (s - 1)
    BY <1>4, <1>8, <1>12
  <2>2. s <= n /\ t[g + s] = Config(c.d, o, -1, g + s - 1)
    BY <1>4, <1>7, <1>8, <1>9, <1>12, <2>1 DEF Follows
  <2>3. g + s \in Nat /\ g + s <= g + n
    BY SMTT(60), <1>8, <2>2
  <2>4. t[g + s].ret = -1 /\ t[g + s].d = c.d /\ t[g + s].out = o
    BY <2>2 DEF Config
  <2>5. t[g + n] = t[g + s]
    BY SMTT(60), <1>10, <2>3, <2>4
  <2> QED  BY <1>3, <1>6, <1>9, <1>12, <2>4, <2>5 DEF Comes, Returns
<1>13. CASE c.ret # -1 /\ c.ret # -2
  <2>1. c.ret = n - (s - 1) /\ Reached(t, g, c.d, s, c.out, 0)
    BY <1>4, <1>7, <1>8, <1>13 DEF Follows
  <2>2. PICK m : m = t[g + s - 1] /\ m = Config(c.d, o, 0, g + s - 1)
    BY <1>9, <2>1 DEF Reached
  <2>3. m.ret = 0 /\ m.d = c.d /\ m.out = o /\ m.at = g + s - 1
    BY <2>2 DEF Config
  <2>4. t[g + n] = m
    <3>1. PICK i \in Nat : i = g + s - 1
      BY <1>8
    <3>2. t[i] = m
      BY <2>2, <3>1
    <3>3. i <= g + n /\ t[i].ret # -2
      BY <1>8, <2>3, <3>1, <3>2
    <3> QED  BY <1>10, <3>2, <3>3
  <2>5. c.ret \in Nat /\ c.ret = (g + n) - (g + s - 1)
    BY <1>8, <2>1, SMTT(60)
  <2> QED  BY <1>3, <1>6, <1>8, <1>9, <2>3, <2>4, <2>5 DEF Comes, Returns
<1> QED  BY <1>4, <1>7, <1>8, <1>11, <1>12, <1>13 DEF Settled

-------------------------------------------------------------------------------
(* The calls. *)

\* The calls have come to where the bytes come to that were given.
FollowsTheBytes ==
    \E t : /\ Follow(body, t)
           /\ decoder = t[given].d /\ data = t[given].out /\ Returns(ret, t[given], given)
DecoderInv ==
    /\ \E e \in Exchanges : body = e.body
    /\ given \in Nat /\ given <= Len(body.bytes)
    /\ FollowsTheBytes

\* Nothing is given at first, and nothing decoded.
LEMMA DecoderInit ==
    ASSUME Init
    PROVE  DecoderInv
<1>1. PICK e \in Exchanges : Decoder!Start(e.body)
  BY DEF Init
<1>2. body = e.body /\ given = 0 /\ decoder = Decoder!Zeroed(body.trailer) /\ data = <<>> /\
          ret = -2
  BY <1>1 DEF Decoder!Start
<1>3. body.bytes \in Seq(Nat) /\ body.trailer \in BOOLEAN
  BY <1>2, BodiesAssumption DEF Decoder!InOnePiece
<1>4. PICK t : Follow(body, t)
  BY <1>3, FollowExists
<1>5. t[0] = Config(Decoder!Zeroed(body.trailer), <<>>, -2, 0)
  BY <1>4 DEF Follow
<1>6. decoder = t[given].d /\ data = t[given].out /\ Returns(ret, t[given], given)
  BY <1>2, <1>5 DEF Config, Returns
<1>7. FollowsTheBytes
  BY <1>4, <1>6 DEF FollowsTheBytes
<1>8. given \in Nat /\ given <= Len(body.bytes)
  BY <1>2, <1>3
<1> QED  BY <1>2, <1>7, <1>8 DEF DecoderInv

\* A call keeps the decoder at the place to which the bytes given so far lead.
LEMMA SupplyFollows ==
    ASSUME DecoderInv, NEW n \in Nat, Decoder!Supply(n)
    PROVE  DecoderInv'
<1>1. PICK t : /\ Follow(body, t)
               /\ decoder = t[given].d /\ data = t[given].out /\ Returns(ret, t[given], given)
  BY DEF DecoderInv, FollowsTheBytes
<1>2. ret = -2 /\ given \in Nat /\ given + n <= Len(body.bytes) /\ given' = given + n /\
          body' = body
  BY DEF DecoderInv, Decoder!Supply
<1>3. PICK c : /\ c = Decoder!phr_decode_chunked(decoder, SubSeq(body.bytes, given + 1, given + n))
               /\ decoder' = c.d /\ data' = data \o c.out /\ ret' = c.ret
  BY DEF Decoder!Supply
<1>4. t[given].ret = -2
  BY <1>1, <1>2 DEF Returns
<1>5. Comes(t, given, n, c)
  BY <1>1, <1>2, <1>3, <1>4, CallComes, Zenon
<1>6. decoder' = t[given'].d /\ data' = t[given'].out /\ Returns(ret', t[given'], given')
  BY <1>1, <1>2, <1>3, <1>5, Zenon DEF Comes
<1>7. FollowsTheBytes'
  BY <1>1, <1>2, <1>6 DEF FollowsTheBytes
<1>8. (\E e \in Exchanges : body = e.body)'
  BY <1>2 DEF DecoderInv
<1>9. (given \in Nat /\ given <= Len(body.bytes))'
  BY <1>2
<1> QED  BY <1>7, <1>8, <1>9 DEF DecoderInv

\* The other parts of an exchange leave the decoder alone.
LEMMA DecoderStep ==
    ASSUME DecoderInv, [Next]_vars
    PROVE  DecoderInv'
<1>1. CASE UNCHANGED bodyVars
  BY <1>1 DEF DecoderInv, FollowsTheBytes, bodyVars
<1>2. CASE BodyArrives
  <2>1. Decoder!Next
    BY <1>2 DEF BodyArrives
  <2>2. PICK n \in 1..Len(body.bytes) : Decoder!Supply(n)
    BY <2>1 DEF Decoder!Next
  <2>3. n \in Nat
    OBVIOUS
  <2> QED  BY <2>2, <2>3, SupplyFollows
<1>3. UNCHANGED bodyVars \/ BodyArrives
  BY DEF Next, vars, HeadArrives, ReplyIsMade
<1> QED  BY <1>1, <1>2, <1>3

\* What is decoded of a piece of a body is what is decoded of a body in one piece.
LEMMA DecoderIsRight ==
    ASSUME DecoderInv
    PROVE  DecodesTheChunks
<1>1. PICK t : /\ Follow(body, t)
               /\ decoder = t[given].d /\ data = t[given].out /\ Returns(ret, t[given], given)
  BY DEF DecoderInv, FollowsTheBytes
<1>2. PICK w : w = Decoder!phr_decode_chunked(Decoder!Zeroed(body.trailer), body.bytes)
  OBVIOUS
<1>3. /\ body.bytes \in Seq(Nat) /\ body.data \in Seq(Nat)
      /\ Decoder!IsPrefix(w.out, body.data)
      /\ w.ret >= 0 => w.out = body.data /\ Len(body.bytes) - w.ret = body.size
      /\ body.size > 0 => w.ret >= 0
  BY <1>2, BodiesAssumption DEF DecoderInv, Decoder!InOnePiece
<1>4. PICK N \in Nat : N = Len(body.bytes)
  BY <1>3
<1>5. given \in Nat /\ given <= N
  BY <1>4 DEF DecoderInv
<1>6. t[0] = Config(Decoder!Zeroed(body.trailer), <<>>, -2, 0) /\ \A i \in 0..N : Good(t[i])
  BY <1>1, <1>4 DEF Follow
<1>7. Comes(t, 0, N, w)
  <2>1. SubSeq(body.bytes, 0 + 1, 0 + N) = body.bytes
    BY <1>3, <1>4, SubSeqFull
  <2>2. 0 \in Nat /\ 0 + N <= Len(body.bytes)
    BY <1>4
  <2>3. t[0].ret = -2 /\ t[0].d = Decoder!Zeroed(body.trailer)
    BY <1>6 DEF Config
  <2>4. Comes(t, 0, N, Decoder!phr_decode_chunked(Decoder!Zeroed(body.trailer), SubSeq(body.bytes, 0 + 1, 0 + N)))
    BY <1>1, <2>2, <2>3, CallComes, Zenon
  <2> QED  BY <1>2, <2>1, <2>4, Zenon
<1>8. PICK m : m = t[N] /\ m.out = w.out /\ Returns(w.ret, m, N) /\ Good(m)
  <2>1. w.out \in Seq(Nat)
    BY <1>7 DEF Comes
  <2>2. 0 + N = N /\ N \in 0..N
    BY <1>4
  <2>3. <<>> \o w.out = w.out
    BY <2>1, ConcatEmptySeq
  <2>4. t[0].out = <<>>
    BY <1>6 DEF Config
  <2> QED  BY <1>6, <1>7, <2>2, <2>3, <2>4, <2>1 DEF Comes
<1>9. Begins(m.out, data) /\ (t[given].ret # -2 => m = t[given])
  <2>1. given \in 0..Len(body.bytes) /\ N \in given..Len(body.bytes)
    BY <1>4, <1>5
  <2> QED  BY <1>1, <1>8, <2>1, FollowKeeps
<1>10. Decoder!IsPrefix(data, body.data)
  <2>1. Begins(body.data, m.out)
    BY <1>3, <1>8, <1>9 DEF Begins
  <2>2. Begins(body.data, data)
    BY <1>9, <2>1, BeginsAgain, Zenon
  <2> QED  BY <2>2 DEF Begins
<1>11. ASSUME ret >= 0
       PROVE  data = body.data /\ given - ret = body.size
  <2>1. ret \in Nat /\ t[given].ret = 0 /\ t[given].at \in Nat /\ ret = given - t[given].at
    BY <1>1, <1>11 DEF Returns
  <2>2. m = t[given]
    BY <1>9, <2>1
  <2>3. w.ret \in Nat /\ w.ret = N - m.at
    BY <1>8, <2>1, <2>2 DEF Returns
  <2>4. w.out = body.data /\ N - w.ret = body.size
    BY <1>3, <1>4, <2>3
  <2> QED  BY <1>1, <1>5, <1>8, <2>1, <2>2, <2>3, <2>4
<1>12. ASSUME given = Len(body.bytes), body.size > 0
       PROVE  ret >= 0
  <2>1. t[given] = m /\ w.ret >= 0
    BY <1>3, <1>4, <1>8, <1>12
  <2>2. m.ret = 0
    BY <1>8, <2>1 DEF Returns
  <2> QED  BY <1>1, <2>1, <2>2 DEF Returns
<1>13. GoodDecoder(decoder)
  <2>1. given \in 0..N
    BY <1>5
  <2> QED  BY <1>1, <1>6, <2>1 DEF Good
<1>14. /\ MaxDigits \in Nat /\ Decoder!Sizes[0] = 1 /\ Decoder!Sizes[MaxDigits] \in Nat
       /\ \A n \in 0..MaxDigits : Decoder!Sizes[n] \in Nat /\
           Decoder!Sizes[n] <= Decoder!Sizes[MaxDigits]
  BY SizesGrow, HttpExchangeAssumption
<1>15. decoder.state \in States /\ decoder.left \in Nat /\ decoder.hex \in 0..MaxDigits
  BY <1>13, <1>14 DEF GoodDecoder, Decoders
<1>16. decoder.left < Decoder!Sizes[MaxDigits]
  BY <1>13, <1>14, <1>15 DEF GoodDecoder
<1>17. decoder.state \in {"crlf", "head", "middle"} \/ (decoder.state = "size" /\ decoder.hex = 0)
         => decoder.left = 0
  BY <1>13, <1>14, <1>15 DEF GoodDecoder
<1>18. Decoder!phr_decode_chunked_is_in_data(decoder) => decoder.left > 0
  BY <1>13 DEF GoodDecoder, Decoder!phr_decode_chunked_is_in_data
<1> QED  BY <1>10, <1>11, <1>12, <1>16, <1>17, <1>18 DEF DecodesTheChunks,
        Decoder!DecodesTheChunks

\* Wherever the network cuts a body, the calls decode what its chunks hold.
THEOREM DecoderCorrect == Spec => []DecodesTheChunks
<1>1. Init => DecoderInv
  BY DecoderInit
<1>2. DecoderInv /\ [Next]_vars => DecoderInv'
  BY DecoderStep
<1>3. DecoderInv => DecodesTheChunks
  BY DecoderIsRight
<1> QED  BY <1>1, <1>2, <1>3, PTL DEF Spec

-------------------------------------------------------------------------------
(* The parsers of heads. *)

\* The n first bytes of b.
Cut(a, b, n) ==
    /\ a \in Seq(STRING) /\ b \in Seq(STRING)
    /\ n \in Nat /\ n <= Len(b) /\ Len(a) = n
    /\ \A i \in 1..n : a[i] = b[i]

\* The pieces that lie before the cut are the same.
LEMMA CutPieces ==
    ASSUME NEW a, NEW b, NEW n, Cut(a, b, n), NEW p \in Nat, 1 <= p, NEW q \in Int, q <= n
    PROVE  SubSeq(a, p, q) = SubSeq(b, p, q)
<1>1. /\ a \in Seq(STRING) /\ b \in Seq(STRING) /\ n \in Nat /\ n <= Len(b) /\ Len(a) = n
      /\ \A i \in 1..n : a[i] = b[i]
  BY DEF Cut
<1>2. \A i \in p..q : i \in 1..n
  BY <1>1
<1>3. \A i \in p..q : a[i] \in STRING /\ b[i] \in STRING /\ a[i] = b[i]
  BY <1>1, <1>2
<1>4. /\ SubSeq(a, p, q) \in Seq(STRING) /\
          Len(SubSeq(a, p, q)) = (IF p <= q THEN q - p + 1 ELSE 0)
      /\ \A i \in 1..(q - p + 1) : SubSeq(a, p, q)[i] = a[p + i - 1]
  BY <1>3, SubSeqProperties
<1>5. /\ SubSeq(b, p, q) \in Seq(STRING) /\
          Len(SubSeq(b, p, q)) = (IF p <= q THEN q - p + 1 ELSE 0)
      /\ \A i \in 1..(q - p + 1) : SubSeq(b, p, q)[i] = b[p + i - 1]
  BY <1>3, SubSeqProperties
<1>6. PICK m \in Nat : m = IF p <= q THEN q - p + 1 ELSE 0
  <2>1. (IF p <= q THEN q - p + 1 ELSE 0) \in Nat
    OBVIOUS
  <2> QED  BY <2>1
<1>7. \A i \in 1..m : i \in 1..(q - p + 1) /\ p + i - 1 \in p..q
  BY <1>6
<1>8. \A i \in 1..m : SubSeq(a, p, q)[i] = SubSeq(b, p, q)[i]
  BY <1>3, <1>4, <1>5, <1>7
<1> QED  BY <1>4, <1>5, <1>6, <1>8, SeqEqual

\* A prefix is a cut.
LEMMA PrefixIsCut ==
    ASSUME NEW b \in Seq(STRING), NEW n \in Nat, n <= Len(b)
    PROVE  Cut(SubSeq(b, 1, n), b, n)
<1>1. \A i \in 1..n : b[i] \in STRING
  OBVIOUS
<1>2. /\ SubSeq(b, 1, n) \in Seq(STRING) /\
          Len(SubSeq(b, 1, n)) = (IF 1 <= n THEN n - 1 + 1 ELSE 0)
      /\ \A i \in 1..(n - 1 + 1) : SubSeq(b, 1, n)[i] = b[1 + i - 1]
  BY <1>1, SubSeqProperties
<1>3. \A i \in 1..n : i \in 1..(n - 1 + 1) /\ 1 + i - 1 = i
  OBVIOUS
<1> QED  BY <1>2, <1>3 DEF Cut

\* The first place from p on with a byte of S is q, which is behind b if there is none.
First(b, p, S, q) ==
    /\ q \in Nat /\ p <= q /\ q <= Len(b) + 1
    /\ q <= Len(b) => b[q] \in S
    /\ \A j \in p..(q - 1) : j \in 1..Len(b) /\ b[j] \notin S

\* Find goes there.
LEMMA FindIsFirst ==
    ASSUME NEW b \in Seq(STRING), NEW p \in 1..(Len(b) + 1), NEW S
    PROVE  First(b, p, S, Parser!Find(b, p, S))
<1>1. PICK P : P = {q \in p..Len(b) : b[q] \in S} \cup {Len(b) + 1}
  OBVIOUS
<1>2. P \in SUBSET Nat /\ P # {}
  BY <1>1
<1>3. PICK m : m = CHOOSE x \in P : \A y \in P : x =< y
  OBVIOUS
<1>4. m \in P /\ \A y \in P : m =< y
  BY <1>2, <1>3, LeastNatural, Zenon
<1>5. Parser!Find(b, p, S) = m
  BY <1>1, <1>3, Zenon DEF Parser!Find, Parser!Min
<1>6. m \in Nat /\ p <= m /\ m <= Len(b) + 1 /\ (m <= Len(b) => b[m] \in S)
  BY <1>1, <1>4
<1>7. ASSUME NEW j \in p..(m - 1)  PROVE j \in 1..Len(b) /\ b[j] \notin S
  <2>1. j \in p..Len(b) /\ j \in 1..Len(b) /\ ~(m <= j)
    BY <1>6
  <2> QED  BY <1>1, <1>4, <2>1
<1> QED  BY <1>5, <1>6, <1>7 DEF First

\* Skip goes to the first byte that is not of S.
LEMMA SkipIsFind ==
    ASSUME NEW b \in Seq(STRING), NEW p \in 1..(Len(b) + 1), NEW S
    PROVE  Parser!Skip(b, p, S) = Parser!Find(b, p, STRING \ S)
<1>1. \A q \in p..Len(b) : b[q] \in STRING
  OBVIOUS
<1>2. {q \in p..Len(b) : b[q] \notin S} = {q \in p..Len(b) : b[q] \in STRING \ S}
  BY <1>1
<1> QED  BY <1>2, Zenon DEF Parser!Skip, Parser!Find

\* The first place is the same unless it lies behind the cut.
LEMMA FirstOfCut ==
    ASSUME NEW a, NEW b, NEW n, Cut(a, b, n), NEW p \in 1..(n + 1), NEW S, NEW x, NEW y,
           First(a, p, S, x), First(b, p, S, y)
    PROVE  (y <= n /\ x = y) \/ (y > n /\ x = n + 1)
<1>1. /\ n \in Nat /\ n <= Len(b) /\ Len(a) = n /\ Len(b) \in Nat
      /\ \A i \in 1..n : a[i] = b[i]
  BY DEF Cut
<1>2. /\ x \in Nat /\ p <= x /\ x <= n + 1 /\ (x <= n => a[x] \in S)
      /\ \A j \in p..(x - 1) : a[j] \notin S
  BY <1>1 DEF First
<1>3. /\ y \in Nat /\ p <= y /\ y <= Len(b) + 1 /\ (y <= Len(b) => b[y] \in S)
      /\ \A j \in p..(y - 1) : b[j] \notin S
  BY DEF First
<1>4. CASE y <= n
  <2>1. y \in 1..n /\ a[y] = b[y] /\ b[y] \in S
    BY <1>1, <1>3, <1>4
  <2>2. ~(y < x)
    <3>1. y < x => y \in p..(x - 1)
      BY <1>2, <1>3
    <3> QED  BY <1>2, <2>1, <3>1
  <2>3. ~(x < y)
    <3>1. x < y => x \in p..(y - 1) /\ x \in 1..n
      BY <1>1, <1>2, <1>3, <1>4
    <3> QED  BY <1>1, <1>2, <1>3, <3>1
  <2> QED  BY <1>2, <1>3, <1>4, <2>2, <2>3
<1>5. CASE y > n
  <2>1. ~(x <= n)
    <3>1. x <= n => x \in p..(y - 1) /\ x \in 1..n
      BY <1>1, <1>2, <1>3, <1>5
    <3> QED  BY <1>1, <1>2, <1>3, <3>1
  <2> QED  BY <1>1, <1>2, <1>5, <2>1
<1> QED  BY <1>1, <1>3, <1>4, <1>5

Header == [name : Seq(STRING), value : Seq(STRING)]
Result == [ret : Int, at : Nat, method : Seq(STRING), path : Seq(STRING), headers : Seq(Header)]

\* What a parser says of a whole message and of one that is cut: the same, unless it waits for
\* more; then it comes to a place behind k if the message is whole.
Alike(k, x, y) == x = y \/ (x.ret = -2 /\ (y.ret = 0 => y.at > k))

\* From p on a CR ends a line, up to where the parser comes to.
NoStray(b, p, k) == \A q \in p..(k - 1) : b[q] = "CR" => q < Len(b) /\ b[q + 1] = "LF"
Moves(b, p, y) ==
    /\ y \in Result /\ y.ret \in {0, -1, -2}
    /\ y.ret = 0 => p <= y.at /\ y.at <= Len(b) + 1 /\ NoStray(b, p, y.at)

\* The results that are no place but one.
LEMMA Results ==
    /\ \A p \in Nat : Parser!Ok(p) \in Result /\ Parser!Ok(p).ret = 0 /\ Parser!Ok(p).at = p
                      /\ Parser!Ok(p).headers = <<>>
    /\ Parser!Fail \in Result /\ Parser!Fail.ret = -1
    /\ Parser!Partial \in Result /\ Parser!Partial.ret = -2
<1>1. <<>> \in Seq(STRING) /\ <<>> \in Seq(Header) /\ 0 \in Int /\ -1 \in Int /\ -2 \in Int
  OBVIOUS
<1>2. \A p \in Nat : Parser!Ok(p) \in Result /\ Parser!Ok(p).ret = 0 /\ Parser!Ok(p).at = p
                     /\ Parser!Ok(p).headers = <<>>
  BY <1>1 DEF Parser!Ok, Result
<1>3. PICK z \in Result : z = Parser!Ok(0)
  BY <1>2
<1>4. [z EXCEPT !.ret = -1] \in Result /\ [z EXCEPT !.ret = -1].ret = -1
  BY <1>1, <1>3 DEF Result
<1>5. [z EXCEPT !.ret = -2] \in Result /\ [z EXCEPT !.ret = -2].ret = -2
  BY <1>1, <1>3 DEF Result
<1> QED  BY <1>2, <1>3, <1>4, <1>5 DEF Parser!Fail, Parser!Partial

\* A parser that goes on behind another one.
LEMMA ThenAlike ==
    ASSUME NEW m \in Int, NEW k \in Int, m <= k, NEW x, NEW y, Alike(m, x, y),
           NEW X, NEW Y, y.ret = 0 /\ x = y => Alike(k, X, Y),
           y.ret = 0 /\ Y.ret = 0 => y.at \in Nat /\ Y.at \in Nat /\ y.at + (k - m) <= Y.at
    PROVE  Alike(k, Parser!Then(x, X), Parser!Then(y, Y))
<1>1. CASE x = y
  BY <1>1, Zenon DEF Alike, Parser!Then
<1>2. CASE x.ret = -2 /\ y.ret # 0
  <2>1. x.ret # 0
    BY <1>2
  <2> QED  BY <1>2, <2>1, Zenon DEF Alike, Parser!Then
<1>3. CASE x.ret = -2 /\ y.ret = 0 /\ y.at > m
  <2>1. x.ret # 0 /\ (Y.ret = 0 => Y.at > k)
    BY <1>3
  <2> QED  BY <1>3, <2>1, Zenon DEF Alike, Parser!Then
<1> QED  BY <1>1, <1>2, <1>3 DEF Alike

\* What is free of strays piece by piece is free of strays.
LEMMA NoStrayJoins ==
    ASSUME NEW b, NEW p \in Nat, NEW k \in Nat, NEW l \in Nat,
        NoStray(b, p, k), NoStray(b, k, l)
    PROVE  NoStray(b, p, l)
<1>1. \A q \in p..(l - 1) : q \in p..(k - 1) \/ q \in k..(l - 1)
  OBVIOUS
<1> QED  BY <1>1, Zenon DEF NoStray

\* Where the one behind comes to.
LEMMA ThenMoves ==
    ASSUME NEW b, NEW p \in Nat, NEW y, Moves(b, p, y), NEW Y, y.ret = 0 => Moves(b, y.at, Y)
    PROVE  /\ Moves(b, p, Parser!Then(y, Y))
           /\ Parser!Then(y, Y).ret = 0 => /\ y.ret = 0 /\ Parser!Then(y, Y) = Y
                                           /\ Moves(b, y.at, Y) /\ y.at \in Nat /\ p <= y.at
<1>1. CASE y.ret # 0
  BY <1>1, Zenon DEF Parser!Then
<1>2. CASE y.ret = 0
  <2>1. Parser!Then(y, Y) = Y
    BY <1>2, Zenon DEF Parser!Then
  <2>2. y.at \in Nat /\ p <= y.at /\ NoStray(b, p, y.at)
    BY <1>2 DEF Moves, Result
  <2>3. Y \in Result /\ Y.ret \in {0, -1, -2}
    BY <1>2 DEF Moves
  <2>4. ASSUME Y.ret = 0  PROVE p <= Y.at /\ Y.at <= Len(b) + 1 /\ NoStray(b, p, Y.at)
    <3>1. Y.at \in Nat /\ y.at <= Y.at /\ Y.at <= Len(b) + 1 /\ NoStray(b, y.at, Y.at)
      BY <1>2, <2>4 DEF Moves, Result
    <3>2. NoStray(b, p, Y.at)
      BY <2>2, <3>1, NoStrayJoins
    <3> QED  BY <2>2, <3>1, <3>2
  <2> QED  BY <1>2, <2>1, <2>2, <2>3, <2>4 DEF Moves
<1> QED  BY <1>1, <1>2

\* The end of a line.
LEMMA LineMoves ==
    ASSUME NEW b \in Seq(STRING), NEW p \in 1..Len(b)
    PROVE  LET e == Parser!end_of_line(b, p)
           IN  /\ Moves(b, p, e) /\ e.headers = <<>>
               /\ e.ret = 0 => \/ b[p] = "LF" /\ e.at = p + 1
                               \/ b[p] = "CR" /\ b[p + 1] = "LF" /\ e.at = p + 2
<1>1. PICK e : e = Parser!end_of_line(b, p)
  OBVIOUS
<1>2. Len(b) \in Nat /\ p \in Nat /\ p + 1 \in Nat /\ p + 2 \in Nat /\ p <= Len(b)
  OBVIOUS
<1>3. Parser!Fail.headers = <<>> /\ Parser!Partial.headers = <<>>
  BY DEF Parser!Fail, Parser!Partial, Parser!Ok
<1>4. CASE b[p] = "LF"
  <2>1. e = Parser!Ok(p + 1)
    BY <1>1, <1>4, Zenon DEF Parser!end_of_line
  <2>2. e \in Result /\ e.ret = 0 /\ e.at = p + 1 /\ e.headers = <<>>
    BY <1>2, <2>1, Results, Zenon
  <2>3. NoStray(b, p, p + 1)
    <3>1. \A q \in p..(p + 1 - 1) : q = p
      BY <1>2
    <3> QED  BY <1>4, <3>1 DEF NoStray
  <2> QED  BY <1>1, <1>2, <1>4, <2>2, <2>3 DEF Moves
<1>5. CASE b[p] = "CR" /\ p + 1 > Len(b)
  <2>1. e = Parser!Partial
    <3>1. b[p] # "LF"
      BY <1>5
    <3> QED  BY <1>1, <1>5, <3>1, Zenon DEF Parser!end_of_line, Parser!Eof
  <2> QED  BY <1>1, <1>3, <2>1, Results DEF Moves
<1>6. CASE b[p] = "CR" /\ ~(p + 1 > Len(b)) /\ b[p + 1] = "LF"
  <2>1. e = Parser!Ok(p + 2)
    <3>1. b[p] # "LF"
      BY <1>6
    <3> QED  BY <1>1, <1>6, <3>1, Zenon DEF Parser!end_of_line, Parser!Eof
  <2>2. e \in Result /\ e.ret = 0 /\ e.at = p + 2 /\ e.headers = <<>>
    BY <1>2, <2>1, Results, Zenon
  <2>3. NoStray(b, p, p + 2)
    <3>1. \A q \in p..(p + 2 - 1) : (q = p /\ p < Len(b)) \/ q = p + 1
      BY <1>2, <1>6
    <3> QED  BY <1>6, <3>1 DEF NoStray
  <2> QED  BY <1>1, <1>2, <1>6, <2>2, <2>3 DEF Moves
<1>7. CASE ~(b[p] = "LF") /\ ~(b[p] = "CR" /\ p + 1 > Len(b))
           /\ ~(b[p] = "CR" /\ ~(p + 1 > Len(b)) /\ b[p + 1] = "LF")
  <2>1. e = Parser!Fail
    BY <1>1, <1>7, Zenon DEF Parser!end_of_line, Parser!Eof
  <2> QED  BY <1>1, <1>3, <2>1, Results DEF Moves
<1> QED  BY <1>4, <1>5, <1>6, <1>7

\* The end of a line that is cut.
LEMMA LineAlike ==
    ASSUME NEW a, NEW b, NEW n, Cut(a, b, n), NEW p \in 1..n
    PROVE  Alike(n + 1, Parser!end_of_line(a, p), Parser!end_of_line(b, p))
<1>1. /\ b \in Seq(STRING) /\ n \in Nat /\ n <= Len(b) /\ Len(a) = n /\ Len(b) \in Nat
      /\ \A i \in 1..n : a[i] = b[i]
  BY DEF Cut
<1>2. a[p] = b[p] /\ p \in 1..Len(b)
  BY <1>1
<1>3. CASE p + 1 <= n
  <2>1. a[p + 1] = b[p + 1]
    BY <1>1, <1>3
  <2>2. ~(p + 1 > Len(a)) /\ ~(p + 1 > Len(b))
    BY <1>1, <1>3
  <2> QED  BY <1>2, <2>1, <2>2, Zenon DEF Parser!end_of_line, Alike, Parser!Eof
<1>4. CASE p = n /\ b[p] = "CR"
  <2>1. b[p] # "LF" /\ p + 1 > Len(a)
    BY <1>1, <1>4
  <2>2. Parser!end_of_line(a, p) = Parser!Partial
    BY <1>2, <1>4, <2>1, Zenon DEF Parser!end_of_line, Parser!Eof
  <2>3. PICK e : e = Parser!end_of_line(b, p)
    OBVIOUS
  <2>4. e.ret = 0 => e.at = p + 2
    BY <1>1, <1>2, <2>1, <2>3, LineMoves
  <2> QED  BY <1>1, <1>4, <2>2, <2>3, <2>4, Results DEF Alike
<1>5. CASE b[p] # "CR"
  BY <1>2, <1>5, Zenon DEF Parser!end_of_line, Alike
<1> QED  BY <1>1, <1>3, <1>4, <1>5

\* What a search makes of the place q that it found: it wants a byte of T there.
Scan(b, q, T) ==
    IF Parser!Eof(b, q) THEN Parser!Partial ELSE IF b[q] \in T THEN Parser!Ok(q) ELSE Parser!Fail

\* Where a search comes to.
ScanMoves(b, p, T, y) == Moves(b, p, y) /\ (y.ret = 0 => y.at <= Len(b) /\ b[y.at] \in T)

\* A search comes to no place behind a CR that ends no line.
LEMMA SearchMoves ==
    ASSUME NEW b \in Seq(STRING), NEW p \in 1..(Len(b) + 1), NEW S,
           \A x \in STRING : x \notin S => x # "CR", NEW T, NEW q, First(b, p, S, q)
    PROVE  ScanMoves(b, p, T, Scan(b, q, T))
<1>1. q \in Nat /\ p <= q /\ q <= Len(b) + 1 /\ \A j \in p..(q - 1) : b[j] \notin S
  BY DEF First
<1>2. NoStray(b, p, q)
  <2>1. \A j \in p..(q - 1) : b[j] \in STRING
    BY <1>1
  <2> QED  BY <1>1, <2>1, Zenon DEF NoStray
<1>3. CASE q > Len(b)
  <2>1. Scan(b, q, T) = Parser!Partial
    BY <1>3, Zenon DEF Scan, Parser!Eof
  <2> QED  BY <2>1, Results DEF ScanMoves, Moves
<1>4. CASE q <= Len(b) /\ b[q] \in T
  <2>1. ~(q > Len(b))
    BY <1>1, <1>4
  <2>2. Scan(b, q, T) = Parser!Ok(q)
    BY <1>4, <2>1, Zenon DEF Scan, Parser!Eof
  <2>3. PICK y : y = Parser!Ok(q) /\ y \in Result /\ y.ret = 0 /\ y.at = q
    BY <1>1, Results, Zenon
  <2> QED  BY <1>1, <1>2, <1>4, <2>2, <2>3 DEF ScanMoves, Moves
<1>5. CASE q <= Len(b) /\ b[q] \notin T
  <2>1. ~(q > Len(b))
    BY <1>1, <1>5
  <2>2. Scan(b, q, T) = Parser!Fail
    BY <1>5, <2>1, Zenon DEF Scan, Parser!Eof
  <2> QED  BY <2>2, Results DEF ScanMoves, Moves
<1> QED  BY <1>1, <1>3, <1>4, <1>5

\* A search that is cut.
LEMMA SearchAlike ==
    ASSUME NEW a, NEW b, NEW n, Cut(a, b, n), NEW p \in 1..(n + 1), NEW S, NEW T,
           NEW x, NEW y, First(a, p, S, x), First(b, p, S, y)
    PROVE  Alike(n, Scan(a, x, T), Scan(b, y, T))
<1>1. /\ n \in Nat /\ n <= Len(b) /\ Len(a) = n /\ \A i \in 1..n : a[i] = b[i]
      /\ y \in Nat /\ p <= y
  BY DEF Cut, First
<1>2. CASE y <= n /\ x = y
  <2>1. ~(x > Len(a)) /\ ~(y > Len(b)) /\ a[x] = b[y]
    BY <1>1, <1>2
  <2> QED  BY <1>2, <2>1, Zenon DEF Scan, Alike, Parser!Eof
<1>3. CASE y > n /\ x = n + 1
  <2>1. x > Len(a)
    BY <1>1, <1>3
  <2>2. Scan(a, x, T) = Parser!Partial
    BY <2>1, Zenon DEF Scan, Parser!Eof
  <2>3. Scan(b, y, T) \in {Parser!Partial, Parser!Ok(y), Parser!Fail}
    BY DEF Scan
  <2>4. PICK o : o = Parser!Ok(y) /\ o.at = y
    BY <1>1, Results, Zenon
  <2>5. Scan(b, y, T).ret = 0 => Scan(b, y, T).at > n
    BY <1>3, <2>3, <2>4, Results
  <2> QED  BY <2>2, <2>5, Results DEF Alike
<1> QED  BY <1>2, <1>3, FirstOfCut, Zenon

\* The three searches.
LEMMA Searches ==
    ASSUME NEW b \in Seq(STRING), NEW p \in 1..(Len(b) + 1)
    PROVE  /\ \A c : Parser!parse_token(b, p, c) =
                       Scan(b, Parser!Find(b, p, STRING \ Parser!Token), {c})
           /\ Parser!advance_token(b, p) =
                Scan(b, Parser!Find(b, p, Parser!Control \cup {"SP"}), {"SP"})
           /\ Parser!skip_spaces(b, p) = Scan(b, Parser!Find(b, p, STRING \ {"SP"}), STRING \ {"SP"})
<1>1. ASSUME NEW c
      PROVE  Parser!parse_token(b, p, c) =
          Scan(b, Parser!Find(b, p, STRING \ Parser!Token), {c})
  <2>1. Parser!Skip(b, p, Parser!Token) = Parser!Find(b, p, STRING \ Parser!Token)
    BY SkipIsFind
  <2> QED  BY <2>1, Zenon DEF Parser!parse_token, Scan
<1>2. Parser!advance_token(b, p) = Scan(b, Parser!Find(b, p, Parser!Control \cup {"SP"}), {"SP"})
  BY Zenon DEF Parser!advance_token, Scan
<1>3. Parser!skip_spaces(b, p) = Scan(b, Parser!Find(b, p, STRING \ {"SP"}), STRING \ {"SP"})
  <2>1. PICK q : q = Parser!Find(b, p, STRING \ {"SP"}) /\ q = Parser!Skip(b, p, {"SP"})
    BY SkipIsFind
  <2>2. First(b, p, STRING \ {"SP"}, q)
    BY <2>1, FindIsFirst
  <2>3. q > Len(b) \/ b[q] \in STRING \ {"SP"}
    BY <2>2 DEF First
  <2> QED  BY <2>1, <2>3, Zenon DEF Parser!skip_spaces, Scan, Parser!Eof
<1> QED  BY <1>1, <1>2, <1>3

\* Where they come to.
LEMMA SearchesMove ==
    ASSUME NEW b \in Seq(STRING), NEW p \in 1..(Len(b) + 1)
    PROVE  /\ \A c : ScanMoves(b, p, {c}, Parser!parse_token(b, p, c))
           /\ ScanMoves(b, p, {"SP"}, Parser!advance_token(b, p))
           /\ ScanMoves(b, p, STRING \ {"SP"}, Parser!skip_spaces(b, p))
<1>1. \A x \in STRING : /\ x \notin STRING \ Parser!Token => x # "CR"
                        /\ x \notin Parser!Control \cup {"SP"} => x # "CR"
                        /\ x \notin STRING \ {"SP"} => x # "CR"
  BY DEF Parser!Token, Parser!Control
<1>2. \A S : (\A x \in STRING : x \notin S => x # "CR") =>
               \A T : ScanMoves(b, p, T, Scan(b, Parser!Find(b, p, S), T))
  BY FindIsFirst, SearchMoves, Zenon
<1>3. ASSUME NEW c  PROVE ScanMoves(b, p, {c}, Parser!parse_token(b, p, c))
  <2>1. Parser!parse_token(b, p, c) = Scan(b, Parser!Find(b, p, STRING \ Parser!Token), {c})
    BY Searches
  <2> QED  BY <1>1, <1>2, <2>1, Zenon
<1>4. /\ ScanMoves(b, p, {"SP"}, Parser!advance_token(b, p))
      /\ ScanMoves(b, p, STRING \ {"SP"}, Parser!skip_spaces(b, p))
  <2>1. /\ Parser!advance_token(b, p) =
             Scan(b, Parser!Find(b, p, Parser!Control \cup {"SP"}), {"SP"})
        /\ Parser!skip_spaces(b, p) =
             Scan(b, Parser!Find(b, p, STRING \ {"SP"}), STRING \ {"SP"})
    BY Searches
  <2> QED  BY <1>1, <1>2, <2>1, Zenon
<1> QED  BY <1>3, <1>4

\* What is left open when they are cut.
LEMMA SearchesAlike ==
    ASSUME NEW a, NEW b, NEW n, Cut(a, b, n), NEW p \in 1..(n + 1)
    PROVE  /\ \A c : Alike(n, Parser!parse_token(a, p, c), Parser!parse_token(b, p, c))
           /\ Alike(n, Parser!advance_token(a, p), Parser!advance_token(b, p))
           /\ Alike(n, Parser!skip_spaces(a, p), Parser!skip_spaces(b, p))
<1>1. a \in Seq(STRING) /\ b \in Seq(STRING) /\ p \in 1..(Len(a) + 1) /\ p \in 1..(Len(b) + 1)
  BY DEF Cut
<1>2. \A S, T : Alike(n, Scan(a, Parser!Find(a, p, S), T), Scan(b, Parser!Find(b, p, S), T))
  BY <1>1, FindIsFirst, SearchAlike, Zenon
<1>3. ASSUME NEW c  PROVE Alike(n, Parser!parse_token(a, p, c), Parser!parse_token(b, p, c))
  <2>1. /\ Parser!parse_token(a, p, c) = Scan(a, Parser!Find(a, p, STRING \ Parser!Token), {c})
        /\ Parser!parse_token(b, p, c) = Scan(b, Parser!Find(b, p, STRING \ Parser!Token), {c})
    BY <1>1, Searches
  <2> QED  BY <1>2, <2>1, Zenon
<1>4. Alike(n, Parser!advance_token(a, p), Parser!advance_token(b, p))
  <2>1. \A s \in {a, b} : Parser!advance_token(s, p) =
                           Scan(s, Parser!Find(s, p, Parser!Control \cup {"SP"}), {"SP"})
    BY <1>1, Searches
  <2> QED  BY <1>2, <2>1, Zenon
<1>5. Alike(n, Parser!skip_spaces(a, p), Parser!skip_spaces(b, p))
  <2>1. \A s \in {a, b} : Parser!skip_spaces(s, p) =
                           Scan(s, Parser!Find(s, p, STRING \ {"SP"}), STRING \ {"SP"})
    BY <1>1, Searches
  <2> QED  BY <1>2, <2>1, Zenon
<1> QED  BY <1>3, <1>4, <1>5

\* The rest of a line.
RestMoves(b, p, v) ==
    /\ Moves(b, p, v.r) /\ v.r.headers = <<>> /\ v.token \in Seq(STRING)
    /\ v.r.ret = 0 => /\ p < v.r.at /\ b[v.r.at - 1] = "LF"
                      /\ \E q \in p..Len(b) : v.token = SubSeq(b, p, q - 1)

\* The rest of a line ends behind its line feed.
LEMMA RestOfLineMoves ==
    ASSUME NEW b \in Seq(STRING), NEW p \in 1..(Len(b) + 1)
    PROVE  RestMoves(b, p, Parser!get_token_to_eol(b, p))
<1>1. PICK S : S = Parser!Control \ {"HT"} /\ "CR" \in S
  BY DEF Parser!Control
<1>2. PICK q : q = Parser!Find(b, p, S) /\ First(b, p, S, q)
  BY FindIsFirst, Zenon
<1>3. PICK v : v = Parser!get_token_to_eol(b, p)
  OBVIOUS
<1>4. v = IF Parser!Eof(b, q) THEN [token |-> <<>>, r |-> Parser!Partial]
          ELSE [token |-> SubSeq(b, p, q - 1), r |-> Parser!end_of_line(b, q)]
  BY <1>1, <1>2, <1>3, Zenon DEF Parser!get_token_to_eol
<1>5. /\ q \in Nat /\ p <= q /\ q <= Len(b) + 1 /\ \A j \in p..(q - 1) : b[j] \notin S
      /\ p \in Nat
  BY <1>2 DEF First
<1>6. CASE q > Len(b)
  <2>1. v.r = Parser!Partial /\ v.token = <<>>
    BY <1>4, <1>6 DEF Parser!Eof
  <2>2. v.r.headers = <<>>
    BY <2>1 DEF Parser!Partial, Parser!Ok
  <2> QED  BY <1>3, <2>1, <2>2, Results DEF RestMoves, Moves
<1>7. CASE ~(q > Len(b))
  <2>1. v.r = Parser!end_of_line(b, q) /\ v.token = SubSeq(b, p, q - 1)
    BY <1>4, <1>7 DEF Parser!Eof
  <2>2. PICK e : e = v.r
    OBVIOUS
  <2>3. q \in 1..Len(b) /\ q \in p..Len(b)
    BY <1>5, <1>7
  <2>4. /\ Moves(b, q, e) /\ e.headers = <<>>
        /\ e.ret = 0 => (b[q] = "LF" /\ e.at = q + 1)
                        \/ (b[q] = "CR" /\ b[q + 1] = "LF" /\ e.at = q + 2)
    BY <2>1, <2>2, <2>3, LineMoves
  <2>5. v.token \in Seq(STRING)
    <3>1. \A i \in p..(q - 1) : b[i] \in STRING
      BY <2>3
    <3>2. p \in Int /\ q - 1 \in Int
      BY <1>5
    <3> QED  BY <2>1, <3>1, <3>2, SubSeqProperties
  <2>6. ASSUME e.ret = 0  PROVE p < e.at /\ b[e.at - 1] = "LF" /\ NoStray(b, p, e.at)
    <3>1. p < e.at /\ b[e.at - 1] = "LF" /\ e.at \in Nat
      BY <1>5, <2>4, <2>6
    <3>2. NoStray(b, p, q)
      BY <1>1, <1>5 DEF NoStray
    <3>3. NoStray(b, q, e.at)
      BY <2>4, <2>6 DEF Moves
    <3> QED  BY <1>5, <3>1, <3>2, <3>3, NoStrayJoins
  <2>7. Moves(b, p, e)
    <3>1. e.ret = 0 => p <= e.at
      BY <1>5, <2>6, <2>4
    <3> QED  BY <2>4, <2>6, <3>1 DEF Moves
  <2>8. e.ret = 0 => \E i \in p..Len(b) : v.token = SubSeq(b, p, i - 1)
    BY <2>1, <2>3
  <2> QED  BY <1>3, <2>2, <2>4, <2>5, <2>6, <2>7, <2>8 DEF RestMoves
<1> QED  BY <1>6, <1>7

\* The rest of a line that is cut.
LEMMA RestOfLineAlike ==
    ASSUME NEW a, NEW b, NEW n, Cut(a, b, n), NEW p \in 1..(n + 1)
    PROVE  LET v == Parser!get_token_to_eol(a, p)
               w == Parser!get_token_to_eol(b, p)
           IN  v = w \/ (v.r.ret = -2 /\ (w.r.ret = 0 => w.r.at > n + 1))
<1>1. PICK S : S = Parser!Control \ {"HT"}
  OBVIOUS
<1>2. /\ a \in Seq(STRING) /\ b \in Seq(STRING) /\ p \in 1..(Len(a) + 1) /\
          p \in 1..(Len(b) + 1)
      /\ n \in Nat /\ n <= Len(b) /\ Len(a) = n
  BY DEF Cut
<1>3. PICK x, y : /\ x = Parser!Find(a, p, S) /\ First(a, p, S, x)
                  /\ y = Parser!Find(b, p, S) /\ First(b, p, S, y)
  BY <1>2, FindIsFirst, Zenon
<1>4. PICK v, w : v = Parser!get_token_to_eol(a, p) /\ w = Parser!get_token_to_eol(b, p)
  OBVIOUS
<1>5. /\ v = IF Parser!Eof(a, x) THEN [token |-> <<>>, r |-> Parser!Partial]
             ELSE [token |-> SubSeq(a, p, x - 1), r |-> Parser!end_of_line(a, x)]
      /\ w = IF Parser!Eof(b, y) THEN [token |-> <<>>, r |-> Parser!Partial]
             ELSE [token |-> SubSeq(b, p, y - 1), r |-> Parser!end_of_line(b, y)]
  BY <1>1, <1>3, <1>4, Zenon DEF Parser!get_token_to_eol
<1>6. p \in Nat /\ 1 <= p /\ y \in Nat /\ p <= y /\ y <= Len(b) + 1
  BY <1>3 DEF First
<1>7. CASE y <= n /\ x = y
  <2>1. ~(x > Len(a)) /\ ~(y > Len(b)) /\ y \in 1..n /\ y - 1 \in Int /\ y - 1 <= n
    BY <1>2, <1>6, <1>7
  <2>2. SubSeq(a, p, y - 1) = SubSeq(b, p, y - 1)
    BY <1>6, <2>1, CutPieces
  <2>3. Alike(n + 1, Parser!end_of_line(a, y), Parser!end_of_line(b, y))
    BY <2>1, LineAlike
  <2>4. /\ v = [token |-> SubSeq(b, p, y - 1), r |-> Parser!end_of_line(a, y)]
        /\ w = [token |-> SubSeq(b, p, y - 1), r |-> Parser!end_of_line(b, y)]
    BY <1>5, <1>7, <2>1, <2>2, Zenon DEF Parser!Eof
  <2>5. v.r = Parser!end_of_line(a, y) /\ w.r = Parser!end_of_line(b, y)
    BY <2>4
  <2> QED  BY <1>4, <2>3, <2>4, <2>5, Zenon DEF Alike
<1>8. CASE y > n /\ x = n + 1
  <2>1. x > Len(a)
    BY <1>2, <1>8
  <2>2. v.r.ret = -2
    BY <1>5, <2>1, Results DEF Parser!Eof
  <2>3. ASSUME w.r.ret = 0  PROVE w.r.at > n + 1
    <3>1. ~(y > Len(b))
      BY <1>5, <2>3, Results DEF Parser!Eof
    <3>2. w.r = Parser!end_of_line(b, y) /\ y \in 1..Len(b)
      BY <1>5, <1>6, <3>1 DEF Parser!Eof
    <3>3. w.r.at = y + 1 \/ w.r.at = y + 2
      BY <1>2, <2>3, <3>2, LineMoves
    <3> QED  BY <1>2, <1>6, <1>8, <3>3
  <2> QED  BY <1>4, <2>2, <2>3
<1> QED  BY <1>3, <1>7, <1>8, FirstOfCut, Zenon

\* What the places of "HTTP/1." in a piece add to its length.
Count(s, l, H, N) ==
    /\ s \in Seq(STRING) /\ l \in Nat /\ Len(s) = l /\ H = {i \in 1..l : s[i] = "http"}
    /\ N = Parser!Bytes(s) /\ N \in Nat /\ l <= N /\ N <= 7 * l
    /\ IsFiniteSet(H) /\ Cardinality(H) \in Nat /\ N = l + 6 * Cardinality(H)

\* The bytes of a piece are its symbols and six more for each "HTTP/1.".
LEMMA BytesCount ==
    ASSUME NEW s \in Seq(STRING)
    PROVE  \E l, H, N : Count(s, l, H, N)
<1>1. PICK l \in Nat, H \in {{i \in 1..Len(s) : s[i] = "http"}} : l = Len(s)
  OBVIOUS
<1>2. IsFiniteSet(1..l) /\ Cardinality(1..l) = l
  BY FS_Interval
<1>3. IsFiniteSet(H) /\ Cardinality(H) <= l /\ Cardinality(H) \in Nat
  <2>1. H \in SUBSET (1..l)
    BY <1>1
  <2> QED  BY <1>2, <2>1, FS_Subset, FS_CardinalityType
<1>4. PICK c \in Nat : c = Cardinality(H) /\ c <= l
  BY <1>3
<1>5. Parser!Bytes(s) = l + 6 * c
  <2>1. DOMAIN s = 1..Len(s)
    OBVIOUS
  <2>2. {i \in DOMAIN s : s[i] = "http"} = H
    BY <1>1, <2>1, Zenon
  <2>3. Parser!Bytes(s) = Len(s) + 6 * Cardinality(H)
    BY <2>2, Zenon DEF Parser!Bytes, Parser!Cardinality, Cardinality
  <2> QED  BY <1>1, <1>4, <2>3
<1>6. l + 6 * c \in Nat /\ l <= l + 6 * c /\ l + 6 * c <= 7 * l
  BY <1>4
<1> QED  BY <1>1, <1>3, <1>4, <1>5, <1>6 DEF Count

\* A piece with one is longer by six, a piece without is not longer, and one whose second byte
\* is another is shorter by six than it could be.
LEMMA BytesBounds ==
    ASSUME NEW s, NEW l, NEW H, NEW N, Count(s, l, H, N)
    PROVE  /\ (\E i \in 1..l : s[i] = "http") => N >= l + 6
           /\ (\A i \in 1..l : s[i] # "http") => N = l
           /\ l >= 2 /\ s[2] # "http" => N <= 7 * l - 6
<1>1. /\ s \in Seq(STRING) /\ l \in Nat /\ H = {i \in 1..l : s[i] = "http"}
      /\ IsFiniteSet(H) /\ N = l + 6 * Cardinality(H)
  BY DEF Count
<1>2. PICK c \in Nat : c = Cardinality(H) /\ N = l + 6 * c
  BY <1>1, FS_CardinalityType
<1>3. ASSUME NEW i \in 1..l, s[i] = "http"  PROVE N >= l + 6
  <2>1. H # {}
    BY <1>1, <1>3
  <2>2. c # 0
    BY <1>1, <1>2, <2>1, FS_EmptySet
  <2> QED  BY <1>1, <1>2, <2>2
<1>4. ASSUME \A i \in 1..l : s[i] # "http"  PROVE N = l
  <2>1. H = {}
    BY <1>1, <1>4
  <2>2. c = 0
    BY <1>1, <1>2, <2>1, FS_EmptySet
  <2> QED  BY <1>1, <1>2, <2>2
<1>5. ASSUME l >= 2, s[2] # "http"  PROVE N <= 7 * l - 6
  <2>1. PICK J : J = (1..l) \ {2}
    OBVIOUS
  <2>2. IsFiniteSet(1..l) /\ Cardinality(1..l) = l
    BY <1>1, FS_Interval
  <2>3. 2 \in 1..l
    BY <1>1, <1>5
  <2>4. IsFiniteSet(J) /\ Cardinality(J) = l - 1
    BY <2>1, <2>2, <2>3, FS_RemoveElement
  <2>5. H \in SUBSET J
    BY <1>1, <1>5, <2>1
  <2>6. c <= l - 1
    BY <1>2, <2>4, <2>5, FS_Subset
  <2> QED  BY <1>1, <1>2, <2>6
<1> QED  BY <1>3, <1>4, <1>5

\* The bytes from p on.
Suffix(b, p, s, l) ==
    /\ s = SubSeq(b, p, Len(b)) /\ s \in Seq(STRING)
    /\ l \in Nat /\ l = Len(b) - p + 1 /\ Len(s) = l
    /\ \A i \in 1..l : s[i] = b[p + i - 1]

\* The bytes from p on can be counted.
LEMMA SuffixPlaces ==
    ASSUME NEW b \in Seq(STRING), NEW p \in 1..(Len(b) + 1)
    PROVE  \E s, l, H, N : Suffix(b, p, s, l) /\ Count(s, l, H, N)
<1>1. PICK s : s = SubSeq(b, p, Len(b))
  OBVIOUS
<1>2. PICK l \in Nat : l = Len(b) - p + 1
  OBVIOUS
<1>3. s \in Seq(STRING) /\ Len(s) = l /\ \A i \in 1..l : s[i] = b[p + i - 1]
  <2>1. p \in Int /\ Len(b) \in Int /\ \A i \in p..Len(b) : b[i] \in STRING
    OBVIOUS
  <2>2. /\ s \in Seq(STRING) /\ Len(s) = (IF p <= Len(b) THEN Len(b) - p + 1 ELSE 0)
        /\ \A i \in 1..(Len(b) - p + 1) : s[i] = b[p + i - 1]
    BY <1>1, <2>1, SubSeqProperties
  <2> QED  BY <1>2, <2>2
<1>4. Suffix(b, p, s, l)
  BY <1>1, <1>2, <1>3 DEF Suffix
<1>5. PICK m, H, N : Count(s, m, H, N)
  BY <1>3, BytesCount
<1>6. m = l
  BY <1>3, <1>5 DEF Count
<1> QED  BY <1>4, <1>5, <1>6

\* The version.
LEMMA VersionMoves ==
    ASSUME NEW b \in Seq(STRING), NEW p \in 1..(Len(b) + 1)
    PROVE  LET e == Parser!parse_http_version(b, p)
           IN  Moves(b, p, e) /\ (e.ret = 0 => e.at <= Len(b) /\ e.at = p + 2)
<1>1. PICK s, l, H, N : Suffix(b, p, s, l) /\ Count(s, l, H, N)
  BY SuffixPlaces
<1>2. /\ N = Parser!Bytes(SubSeq(b, p, Len(b))) /\ N \in Nat /\ l \in Nat /\ N <= 7 * l
      /\ l = Len(b) - p + 1 /\ \A i \in 1..l : s[i] = b[p + i - 1]
  BY <1>1 DEF Suffix, Count
<1>3. PICK e : e = Parser!parse_http_version(b, p)
  OBVIOUS
<1>4. CASE N < 9
  <2>1. e = Parser!Partial
    BY <1>2, <1>3, <1>4, Zenon DEF Parser!parse_http_version
  <2> QED  BY <1>3, <2>1, Results DEF Moves
<1>5. CASE ~(N < 9) /\ b[p] = "http" /\ b[p + 1] = "digit"
  <2>1. e = Parser!Ok(p + 2)
    BY <1>2, <1>3, <1>5, Zenon DEF Parser!parse_http_version
  <2>2. l >= 2
    BY <1>2, <1>5
  <2>3. s[2] = b[p + 1]
    <3>1. 2 \in 1..l /\ p + 2 - 1 = p + 1
      BY <2>2
    <3> QED  BY <1>2, <3>1
  <2>4. N <= 7 * l - 6
    <3>1. s[2] # "http"
      BY <1>5, <2>3
    <3> QED  BY <1>1, <2>2, <3>1, BytesBounds
  <2>5. p + 2 \in Nat /\ p + 2 <= Len(b)
    BY <1>2, <1>5, <2>4
  <2>6. e \in Result /\ e.ret = 0 /\ e.at = p + 2
    BY <2>1, <2>5, Results, Zenon
  <2>7. NoStray(b, p, p + 2)
    <3>1. PICK k \in Nat : k = p + 2
      BY <2>5
    <3>2. b[p] # "CR" /\ b[p + 1] # "CR"
      BY <1>5
    <3>3. \A q \in p..(k - 1) : b[q] # "CR"
      <4>1. \A q \in p..(k - 1) : q = p \/ q = p + 1
        BY <3>1
      <4> QED  BY <3>2, <4>1
    <3> QED  BY <3>1, <3>3, Zenon DEF NoStray
  <2> QED  BY <1>3, <2>5, <2>6, <2>7 DEF Moves
<1>6. CASE ~(N < 9) /\ ~(b[p] = "http" /\ b[p + 1] = "digit")
  <2>1. e = Parser!Fail
    BY <1>2, <1>3, <1>6, Zenon DEF Parser!parse_http_version
  <2> QED  BY <1>3, <2>1, Results DEF Moves
<1> QED  BY <1>4, <1>5, <1>6

\* The bytes that are there are counted the same before the cut and are not more than all.
LEMMA BytesOfCut ==
    ASSUME NEW a, NEW b, NEW n, Cut(a, b, n), NEW p \in 1..(n + 1),
           NEW s, NEW l, NEW H, NEW N, Suffix(a, p, s, l), Count(s, l, H, N),
           NEW t, NEW m, NEW I, NEW M, Suffix(b, p, t, m), Count(t, m, I, M)
    PROVE  /\ l <= m /\ N <= M /\ l = n - p + 1
           /\ \A i \in 1..l : s[i] = t[i] /\ s[i] = b[p + i - 1] /\ s[i] = a[p + i - 1]
<1>1. /\ n \in Nat /\ n <= Len(b) /\ Len(a) = n /\ Len(b) \in Nat
      /\ \A i \in 1..n : a[i] = b[i]
  BY DEF Cut
<1>2. /\ l \in Nat /\ l = n - p + 1 /\ \A i \in 1..l : s[i] = a[p + i - 1]
      /\ m \in Nat /\ m = Len(b) - p + 1 /\ \A i \in 1..m : t[i] = b[p + i - 1]
  BY <1>1 DEF Suffix
<1>3. l <= m
  BY <1>1, <1>2
<1>4. ASSUME NEW i \in 1..l
      PROVE  s[i] = t[i] /\ s[i] = b[p + i - 1] /\ s[i] = a[p + i - 1]
  <2>1. p + i - 1 \in 1..n /\ i \in 1..m
    BY <1>1, <1>2, <1>3
  <2> QED  BY <1>1, <1>2, <2>1
<1>5. /\ H = {i \in 1..l : s[i] = "http"} /\ I = {i \in 1..m : t[i] = "http"}
      /\ IsFiniteSet(I) /\ N = l + 6 * Cardinality(H) /\ M = m + 6 * Cardinality(I)
      /\ Cardinality(H) \in Nat /\ Cardinality(I) \in Nat
  BY DEF Count
<1>6. H \in SUBSET I
  <2>1. \A i \in 1..l : i \in 1..m
    BY <1>2, <1>3
  <2> QED  BY <1>4, <1>5, <2>1
<1>7. Cardinality(H) <= Cardinality(I)
  BY <1>5, <1>6, FS_Subset
<1>8. N <= M
  <2>1. PICK h \in Nat, i \in Nat : h = Cardinality(H) /\ i = Cardinality(I) /\ h <= i
    BY <1>5, <1>7
  <2> QED  BY <1>2, <1>3, <1>5, <2>1, SMTT(60)
<1> QED  BY <1>2, <1>3, <1>4, <1>8

\* The version of a message that is cut.
LEMMA VersionAlike ==
    ASSUME NEW a, NEW b, NEW n, Cut(a, b, n), NEW p \in 1..(n + 1)
    PROVE  Alike(n, Parser!parse_http_version(a, p), Parser!parse_http_version(b, p))
<1>1. /\ a \in Seq(STRING) /\ b \in Seq(STRING) /\ n \in Nat /\ Len(a) = n
      /\ p \in 1..(Len(a) + 1) /\ p \in 1..(Len(b) + 1)
  BY DEF Cut
<1>2. PICK s, l, H, N : Suffix(a, p, s, l) /\ Count(s, l, H, N)
  BY <1>1, SuffixPlaces
<1>3. PICK t, m, I, M : Suffix(b, p, t, m) /\ Count(t, m, I, M)
  BY <1>1, SuffixPlaces
<1>4. /\ l <= m /\ N <= M /\ l = n - p + 1
      /\ \A i \in 1..l : s[i] = t[i] /\ s[i] = b[p + i - 1] /\ s[i] = a[p + i - 1]
  BY <1>2, <1>3, BytesOfCut
<1>5. /\ N = Parser!Bytes(SubSeq(a, p, Len(a))) /\ M = Parser!Bytes(SubSeq(b, p, Len(b)))
      /\ N \in Nat /\ M \in Nat /\ l \in Nat /\ N <= 7 * l
  BY <1>2, <1>3 DEF Suffix, Count
<1>6. PICK x, y : /\ x = Parser!parse_http_version(a, p)
                  /\ y = Parser!parse_http_version(b, p)
  OBVIOUS
<1>7. l >= 2 => a[p] = b[p] /\ a[p + 1] = b[p + 1] /\ s[1] = b[p]
  <2>1. l >= 2 => 1 \in 1..l /\ 2 \in 1..l /\ p + 1 - 1 = p /\ p + 2 - 1 = p + 1
    BY <1>5
  <2> QED  BY <1>4, <2>1
<1>8. CASE ~(N < 9)
  <2>1. l >= 2 /\ ~(M < 9)
    BY <1>4, <1>5, <1>8
  <2>2. x = y
    BY <1>5, <1>6, <1>7, <1>8, <2>1, Zenon DEF Parser!parse_http_version
  <2> QED  BY <1>6, <2>2 DEF Alike
<1>9. CASE N < 9
  <2>1. x.ret = -2
    <3>1. x = Parser!Partial
      BY <1>5, <1>6, <1>9, Zenon DEF Parser!parse_http_version
    <3> QED  BY <3>1, Results
  <2>2. ASSUME y.ret = 0  PROVE y.at > n
    <3>1. b[p] = "http"
      <4>1. b[p] # "http" => y \in {Parser!Partial, Parser!Fail}
        BY <1>6, Zenon DEF Parser!parse_http_version
      <4> QED  BY <2>2, <4>1, Results
    <3>2. y.at = p + 2
      BY <1>1, <1>6, <2>2, VersionMoves
    <3>3. ~(l >= 3)
      <4>1. ASSUME l >= 3  PROVE FALSE
        <5>1. 1 \in 1..l /\ s[1] = "http"
          BY <1>5, <1>7, <3>1, <4>1
        <5>2. N >= l + 6
          BY <1>2, <5>1, BytesBounds
        <5> QED  BY <1>5, <1>9, <4>1, <5>2
      <4> QED  BY <4>1
    <3> QED  BY <1>1, <1>4, <1>5, <3>2, <3>3
  <2> QED  BY <1>6, <2>1, <2>2 DEF Alike
<1> QED  BY <1>8, <1>9

\* The status.
LEMMA StatusMoves ==
    ASSUME NEW b \in Seq(STRING), NEW p \in 1..(Len(b) + 1)
    PROVE  LET e == Parser!parse_status(b, p)
           IN  Moves(b, p, e) /\ (e.ret = 0 => e.at <= Len(b) /\ e.at = p + 3)
<1>1. PICK s, l, H, N : Suffix(b, p, s, l) /\ Count(s, l, H, N)
  BY SuffixPlaces
<1>2. /\ N = Parser!Bytes(SubSeq(b, p, Len(b))) /\ N \in Nat /\ l \in Nat
      /\ l = Len(b) - p + 1 /\ \A i \in 1..l : s[i] = b[p + i - 1]
  BY <1>1 DEF Suffix, Count
<1>3. PICK e : e = Parser!parse_status(b, p)
  OBVIOUS
<1>4. CASE N < 4
  <2>1. e = Parser!Partial
    BY <1>2, <1>3, <1>4, Zenon DEF Parser!parse_status
  <2> QED  BY <1>3, <2>1, Results DEF Moves
<1>5. CASE ~(N < 4) /\ \A i \in 0..2 : b[p + i] = "digit"
  <2>1. e = Parser!Ok(p + 3)
    BY <1>2, <1>3, <1>5, Zenon DEF Parser!parse_status
  <2>2. l >= 4
    <3>1. ASSUME l <= 3  PROVE FALSE
      <4>1. ASSUME NEW i \in 1..l  PROVE s[i] # "http"
        <5>1. PICK j \in 0..2 : j = i - 1 /\ p + j = p + i - 1
          BY <1>2, <3>1
        <5>2. s[i] = b[p + j]
          BY <1>2, <5>1
        <5> QED  BY <1>5, <5>2
      <4>2. N = l
        BY <1>1, <4>1, BytesBounds
      <4> QED  BY <1>2, <1>5, <3>1, <4>2
    <3> QED  BY <1>2, <3>1
  <2>3. p + 3 \in Nat /\ p + 3 <= Len(b)
    BY <1>2, <2>2
  <2>4. e \in Result /\ e.ret = 0 /\ e.at = p + 3
    BY <2>1, <2>3, Results, Zenon
  <2>5. NoStray(b, p, p + 3)
    <3>1. PICK k \in Nat : k = p + 3
      BY <2>3
    <3>2. ASSUME NEW q \in p..(k - 1)  PROVE b[q] # "CR"
      <4>1. PICK j \in 0..2 : j = q - p /\ q = p + j
        BY <3>1
      <4> QED  BY <1>5, <4>1
    <3> QED  BY <3>1, <3>2, Zenon DEF NoStray
  <2> QED  BY <1>3, <2>3, <2>4, <2>5 DEF Moves
<1>6. CASE ~(N < 4) /\ ~(\A i \in 0..2 : b[p + i] = "digit")
  <2>1. e = Parser!Fail
    BY <1>2, <1>3, <1>6, Zenon DEF Parser!parse_status
  <2> QED  BY <1>3, <2>1, Results DEF Moves
<1> QED  BY <1>4, <1>5, <1>6

\* The status of a message that is cut.
LEMMA StatusAlike ==
    ASSUME NEW a, NEW b, NEW n, Cut(a, b, n), NEW p \in 1..(n + 1)
    PROVE  Alike(n, Parser!parse_status(a, p), Parser!parse_status(b, p))
<1>1. /\ a \in Seq(STRING) /\ b \in Seq(STRING) /\ n \in Nat /\ Len(a) = n
      /\ p \in 1..(Len(a) + 1) /\ p \in 1..(Len(b) + 1)
  BY DEF Cut
<1>2. PICK s, l, H, N : Suffix(a, p, s, l) /\ Count(s, l, H, N)
  BY <1>1, SuffixPlaces
<1>3. PICK t, m, I, M : Suffix(b, p, t, m) /\ Count(t, m, I, M)
  BY <1>1, SuffixPlaces
<1>4. /\ l <= m /\ N <= M /\ l = n - p + 1
      /\ \A i \in 1..l : s[i] = t[i] /\ s[i] = b[p + i - 1] /\ s[i] = a[p + i - 1]
  BY <1>2, <1>3, BytesOfCut
<1>5. /\ N = Parser!Bytes(SubSeq(a, p, Len(a))) /\ M = Parser!Bytes(SubSeq(b, p, Len(b)))
      /\ N \in Nat /\ M \in Nat /\ l \in Nat /\ l <= N
  BY <1>2, <1>3 DEF Suffix, Count
<1>6. PICK x, y : x = Parser!parse_status(a, p) /\ y = Parser!parse_status(b, p)
  OBVIOUS
<1>7. CASE ~(N < 4)
  <2>1. ~(M < 4)
    BY <1>4, <1>5, <1>7
  <2>2. (\A i \in 0..2 : a[p + i] = "digit") <=> (\A i \in 0..2 : b[p + i] = "digit")
    <3>1. CASE l >= 3
      <4>1. ASSUME NEW i \in 0..2  PROVE a[p + i] = b[p + i]
        <5>1. PICK j \in 1..l : j = i + 1 /\ p + j - 1 = p + i
          BY <1>5, <3>1
        <5> QED  BY <1>4, <5>1
      <4> QED  BY <4>1
    <3>2. CASE l < 3
      <4>1. ~(\A i \in 1..l : s[i] # "http")
        <5>1. N # l
          BY <1>5, <1>7, <3>2
        <5> QED  BY <1>2, <5>1, BytesBounds
      <4>2. PICK j \in 1..l : s[j] = "http"
        BY <4>1
      <4>3. PICK i \in 0..2 : i = j - 1 /\ p + j - 1 = p + i
        BY <1>5, <3>2
      <4>4. a[p + i] = "http" /\ b[p + i] = "http"
        BY <1>4, <4>2, <4>3
      <4> QED  BY <4>4
    <3> QED  BY <1>5, <3>1, <3>2
  <2>3. x = y
    BY <1>5, <1>6, <1>7, <2>1, <2>2, Zenon DEF Parser!parse_status
  <2> QED  BY <1>6, <2>3 DEF Alike
<1>8. CASE N < 4
  <2>1. x.ret = -2
    <3>1. x = Parser!Partial
      BY <1>5, <1>6, <1>8, Zenon DEF Parser!parse_status
    <3> QED  BY <3>1, Results
  <2>2. ASSUME y.ret = 0  PROVE y.at > n
    <3>1. y.at = p + 3
      BY <1>1, <1>6, <2>2, StatusMoves
    <3> QED  BY <1>1, <1>4, <1>5, <1>8, <3>1
  <2> QED  BY <1>6, <2>1, <2>2 DEF Alike
<1> QED  BY <1>7, <1>8

\* A value without the blanks behind it is a text.
LEMMA TrimmedText ==
    ASSUME NEW s \in Seq(STRING)
    PROVE  Parser!TrimEnd(s) \in Seq(STRING)
<1>1. PICK P : P = {i \in DOMAIN s : s[i] \notin Parser!Blank} \cup {0}
  OBVIOUS
<1>2. PICK l \in Nat : l = Len(s)
  OBVIOUS
<1>3. P \in SUBSET (0..l) /\ 0 \in P
  BY <1>1, <1>2
<1>4. PICK Q : Q = {j \in 0..l : l - j \in P}
  OBVIOUS
<1>5. Q \in SUBSET Nat /\ Q # {}
  <2>1. l - l = 0 /\ l \in 0..l
    BY <1>2
  <2>2. l - l \in P
    BY <1>3, <2>1
  <2>3. l \in Q
    BY <1>4, <2>1, <2>2, Zenon
  <2>4. \A j \in 0..l : j \in Nat
    OBVIOUS
  <2> QED  BY <1>4, <2>3, <2>4, Zenon
<1>6. PICK j : j = CHOOSE x \in Q : \A y \in Q : x =< y
  OBVIOUS
<1>7. j \in Q /\ \A y \in Q : j =< y
  BY <1>5, <1>6, LeastNatural, Zenon
<1>8. \E x \in P : \A y \in P : x >= y
  <2>1. l - j \in P
    BY <1>4, <1>7
  <2>2. ASSUME NEW y \in P  PROVE l - j >= y
    <3>1. l - y \in Q
      BY <1>3, <1>4
    <3>2. j =< l - y /\ y \in 0..l
      BY <1>3, <1>7, <3>1
    <3> QED  BY <1>4, <1>7, <3>2
  <2> QED  BY <2>1, <2>2
<1>9. PICK m : m = CHOOSE x \in P : \A y \in P : x >= y
  OBVIOUS
<1>10. m \in P
  BY <1>8, <1>9, Zenon
<1>11. Parser!Max(P) = m
  BY <1>9, Zenon DEF Parser!Max
<1>12. Parser!TrimEnd(s) = SubSeq(s, 1, m)
  BY <1>1, <1>11, Zenon DEF Parser!TrimEnd
<1>13. m \in Int /\ \A i \in 1..m : s[i] \in STRING
  BY <1>2, <1>3, <1>10
<1> QED  BY <1>12, <1>13, SubSeqProperties

\* The parts of a header line at p, which continues the one before it if more.
LineParts(b, p, more, name, start, value) ==
    /\ name = IF more THEN Parser!Ok(p) ELSE Parser!parse_token(b, p, ":")
    /\ start = IF more THEN p ELSE Parser!Skip(b, name.at + 1, Parser!Blank)
    /\ value = Parser!get_token_to_eol(b, start)
HeaderIn(b, p, name, value) ==
    [name |-> SubSeq(b, p, name.at - 1), value |-> Parser!TrimEnd(value.token)]
AfterName(b, p, more, name, start, value) ==
    IF ~more /\ name.at = p THEN Parser!Fail
    ELSE IF Parser!Eof(b, start) THEN Parser!Partial
    ELSE Parser!Then(value.r, [value.r EXCEPT !.headers = <<HeaderIn(b, p, name, value)>>])
Continues(b, p, h, more) == more <=> (h # 0 /\ b[p] \in Parser!Blank)
IsHeaderLine(b, p, h, more, name, start, value) ==
    /\ LineParts(b, p, more, name, start, value)
    /\ Parser!parse_header(b, p, h) =
         Parser!Then(name, AfterName(b, p, more, name, start, value))

\* A header line has these parts.
LEMMA LineHasParts ==
    ASSUME NEW b, NEW p, NEW h, NEW more \in BOOLEAN, Continues(b, p, h, more)
    PROVE  \E name, start, value : IsHeaderLine(b, p, h, more, name, start, value)
<1>1. PICK name : name = IF more THEN Parser!Ok(p) ELSE Parser!parse_token(b, p, ":")
  OBVIOUS
<1>2. PICK start : start = IF more THEN p ELSE Parser!Skip(b, name.at + 1, Parser!Blank)
  OBVIOUS
<1>3. PICK value : value = Parser!get_token_to_eol(b, start)
  OBVIOUS
<1>4. LineParts(b, p, more, name, start, value)
  BY <1>1, <1>2, <1>3, Zenon DEF LineParts
<1>5. Parser!parse_header(b, p, h) =
        Parser!Then(name, AfterName(b, p, more, name, start, value))
  <2>1. CASE more
    <3>1. h # 0 /\ b[p] \in Parser!Blank
      BY <2>1 DEF Continues
    <3>2. name = Parser!Ok(p) /\ start = p
      BY <1>1, <1>2, <2>1
    <3> QED  BY <1>3, <2>1, <3>1, <3>2, Zenon DEF Parser!parse_header, AfterName, HeaderIn
  <2>2. CASE ~more
    <3>1. ~(h # 0 /\ b[p] \in Parser!Blank)
      BY <2>2 DEF Continues
    <3>2. name = Parser!parse_token(b, p, ":")
          /\ start = Parser!Skip(b, name.at + 1, Parser!Blank)
      BY <1>1, <1>2, <2>2
    <3> QED  BY <1>3, <2>2, <3>1, <3>2, Zenon DEF Parser!parse_header, AfterName, HeaderIn
  <2> QED  BY <2>1, <2>2
<1> QED  BY <1>4, <1>5 DEF IsHeaderLine

\* Where the name ends and the value begins.
NameMoves(b, p, more, name, start) ==
    /\ Moves(b, p, name)
    /\ name.ret = 0 => /\ name.at \in p..Len(b) /\ start \in name.at..(Len(b) + 1)
                       /\ NoStray(b, name.at, start)
                       /\ First(b, IF more THEN p ELSE name.at + 1,
                                IF more THEN STRING ELSE STRING \ Parser!Blank, start)

\* The name of a header ends at its colon, and its value begins behind the blanks.
LEMMA NameEnds ==
    ASSUME NEW b \in Seq(STRING), NEW p \in 1..Len(b), NEW more \in BOOLEAN,
           NEW name, NEW start, NEW value, LineParts(b, p, more, name, start, value)
    PROVE  NameMoves(b, p, more, name, start)
<1>1. CASE more
  <2>1. name = Parser!Ok(p) /\ start = p
    BY <1>1, Zenon DEF LineParts
  <2>2. name \in Result /\ name.ret = 0 /\ name.at = p
    BY <2>1, Results
  <2>3. NoStray(b, p, p)
    BY DEF NoStray
  <2>4. First(b, p, STRING, p)
    BY DEF First
  <2> QED  BY <1>1, <2>1, <2>2, <2>3, <2>4 DEF NameMoves, Moves
<1>2. CASE ~more
  <2>1. /\ name = Parser!parse_token(b, p, ":")
        /\ start = Parser!Skip(b, name.at + 1, Parser!Blank)
    BY <1>2, Zenon DEF LineParts
  <2>2. Moves(b, p, name) /\ (name.ret = 0 => name.at <= Len(b) /\ b[name.at] \in {":"})
    BY <2>1, SearchesMove DEF ScanMoves
  <2>3. ASSUME name.ret = 0
        PROVE  /\ name.at \in p..Len(b) /\ start \in name.at..(Len(b) + 1)
               /\ NoStray(b, name.at, start)
               /\ First(b, name.at + 1, STRING \ Parser!Blank, start)
    <3>1. PICK k \in 1..Len(b) : k = name.at /\ k \in p..Len(b)
      BY <2>2, <2>3 DEF Moves, Result
    <3>2. b[k] = ":" /\ k + 1 \in 1..(Len(b) + 1)
      BY <2>2, <2>3, <3>1
    <3>3. start = Parser!Find(b, k + 1, STRING \ Parser!Blank)
      BY <2>1, <3>1, <3>2, SkipIsFind
    <3>4. First(b, k + 1, STRING \ Parser!Blank, start)
      BY <3>2, <3>3, FindIsFirst
    <3>5. /\ start \in Nat /\ k + 1 <= start /\ start <= Len(b) + 1
          /\ \A j \in (k + 1)..(start - 1) : j \in 1..Len(b) /\
              b[j] \notin STRING \ Parser!Blank
      BY <3>4 DEF First
    <3>6. \A j \in k..(start - 1) : b[j] # "CR"
      <4>1. ASSUME NEW j \in (k + 1)..(start - 1)  PROVE b[j] # "CR"
        <5>1. b[j] \in STRING
          BY <3>5
        <5>2. b[j] \in Parser!Blank
          BY <3>5, <5>1
        <5> QED  BY <5>2 DEF Parser!Blank
      <4>2. \A j \in k..(start - 1) : j = k \/ j \in (k + 1)..(start - 1)
        BY <3>5
      <4> QED  BY <3>2, <4>1, <4>2
    <3>7. NoStray(b, k, start)
      BY <3>6, Zenon DEF NoStray
    <3>8. start \in k..(Len(b) + 1)
      BY <3>5
    <3> QED  BY <3>1, <3>4, <3>7, <3>8
  <2> QED  BY <1>2, <2>2, <2>3, Zenon DEF NameMoves
<1> QED  BY <1>1, <1>2

\* What a header line leaves: one header, behind the end of a line.
LineLeaves(b, p, y) ==
    /\ Moves(b, p, y)
    /\ y.ret = 0 => p < y.at /\ b[y.at - 1] = "LF" /\ \E h \in Header : y.headers = <<h>>

\* A header line leaves a header.
LEMMA HeaderMoves ==
    ASSUME NEW b \in Seq(STRING), NEW p \in 1..Len(b), NEW h
    PROVE  LineLeaves(b, p, Parser!parse_header(b, p, h))
<1>1. PICK more \in BOOLEAN : Continues(b, p, h, more)
  <2>1. (h # 0 /\ b[p] \in Parser!Blank) \in BOOLEAN
        /\ Continues(b, p, h, h # 0 /\ b[p] \in Parser!Blank)
    BY DEF Continues
  <2> QED  BY <2>1
<1>2. PICK name, start, value : IsHeaderLine(b, p, h, more, name, start, value)
  BY <1>1, LineHasParts
<1>3. NameMoves(b, p, more, name, start)
  BY <1>2, NameEnds DEF IsHeaderLine
<1>4. PICK X : X = AfterName(b, p, more, name, start, value)
  OBVIOUS
<1>5. Moves(b, p, name)
  BY <1>3 DEF NameMoves
<1>6. ASSUME name.ret = 0  PROVE LineLeaves(b, name.at, X)
  <2>1. /\ name.at \in p..Len(b) /\ start \in name.at..(Len(b) + 1)
        /\ NoStray(b, name.at, start)
    BY <1>3, <1>6 DEF NameMoves
  <2>2. CASE ~more /\ name.at = p
    <3>1. X = Parser!Fail
      BY <1>4, <2>2, Zenon DEF AfterName
    <3> QED  BY <3>1, Results DEF LineLeaves, Moves
  <2>3. CASE ~(~more /\ name.at = p) /\ Parser!Eof(b, start)
    <3>1. X = Parser!Partial
      BY <1>4, <2>3, Zenon DEF AfterName
    <3> QED  BY <3>1, Results DEF LineLeaves, Moves
  <2>4. CASE ~(~more /\ name.at = p) /\ ~Parser!Eof(b, start)
    <3>1. PICK g : g = HeaderIn(b, p, name, value)
      OBVIOUS
    <3>2. PICK v : v = value.r
      OBVIOUS
    <3>3. X = Parser!Then(v, [v EXCEPT !.headers = <<g>>])
      BY <1>4, <2>4, <3>1, <3>2, Zenon DEF AfterName
    <3>4. start \in 1..(Len(b) + 1)
      BY <2>1
    <3>5. value = Parser!get_token_to_eol(b, start)
      BY <1>2, Zenon DEF LineParts, IsHeaderLine
    <3>6. RestMoves(b, start, value)
      BY <3>4, <3>5, RestOfLineMoves
    <3>7. /\ Moves(b, start, v) /\ value.token \in Seq(STRING)
          /\ v.ret = 0 => start < v.at /\ b[v.at - 1] = "LF"
      BY <3>2, <3>6 DEF RestMoves
    <3>8. g \in Header
      <4>1. SubSeq(b, p, name.at - 1) \in Seq(STRING)
        <5>1. p \in Int /\ name.at - 1 \in Int /\ \A i \in p..(name.at - 1) : b[i] \in STRING
          BY <2>1
        <5> QED  BY <5>1, SubSeqProperties
      <4>2. Parser!TrimEnd(value.token) \in Seq(STRING)
        BY <3>7, TrimmedText
      <4> QED  BY <3>1, <4>1, <4>2 DEF HeaderIn, Header
    <3>9. CASE v.ret # 0
      <4>1. X = v
        BY <3>3, <3>9, Zenon DEF Parser!Then
      <4> QED  BY <3>7, <3>9, <4>1 DEF LineLeaves, Moves
    <3>10. CASE v.ret = 0
      <4>1. X = [v EXCEPT !.headers = <<g>>]
        BY <3>3, <3>10, Zenon DEF Parser!Then
      <4>2. v \in Result /\ v.at <= Len(b) + 1 /\ NoStray(b, start, v.at) /\ start < v.at
            /\ b[v.at - 1] = "LF"
        BY <3>7, <3>10 DEF Moves
      <4>3. <<g>> \in Seq(Header)
        BY <3>8
      <4>4. X \in Result /\ X.ret = 0 /\ X.at = v.at /\ X.headers = <<g>>
        BY <3>10, <4>1, <4>2, <4>3 DEF Result
      <4>5. v.at \in Nat /\ name.at \in Nat /\ start \in Nat
        BY <2>1, <4>2 DEF Result
      <4>6. NoStray(b, name.at, v.at)
        BY <2>1, <4>2, <4>5, NoStrayJoins
      <4>7. name.at < v.at
        BY <2>1, <4>2, <4>5
      <4> QED  BY <3>8, <4>2, <4>4, <4>5, <4>6, <4>7 DEF LineLeaves, Moves
    <3> QED  BY <3>9, <3>10
  <2> QED  BY <2>2, <2>3, <2>4
<1>7. PICK y : y = Parser!parse_header(b, p, h) /\ y = Parser!Then(name, X)
  BY <1>2, <1>4, Zenon DEF IsHeaderLine
<1>8. /\ Moves(b, p, y)
      /\ y.ret = 0 => name.ret = 0 /\ y = X /\ p <= name.at /\ name.at \in Nat
  BY <1>5, <1>6, <1>7, ThenMoves DEF LineLeaves
<1>9. ASSUME y.ret = 0
      PROVE  p < y.at /\ b[y.at - 1] = "LF" /\ \E g \in Header : y.headers = <<g>>
  <2>1. LineLeaves(b, name.at, y) /\ p <= name.at /\ name.at \in Nat
    BY <1>6, <1>8, <1>9
  <2>2. name.at < y.at /\ y.at \in Nat /\ b[y.at - 1] = "LF" /\
            \E g \in Header : y.headers = <<g>>
    BY <1>9, <2>1 DEF LineLeaves, Moves, Result
  <2> QED  BY <2>1, <2>2
<1> QED  BY <1>7, <1>8, <1>9 DEF LineLeaves

\* The start of the value of a line that is cut: the same, or behind the cut.
LEMMA StartAlike ==
    ASSUME NEW a, NEW b, NEW n, Cut(a, b, n), NEW p \in 1..n, NEW more \in BOOLEAN,
           NEW name, NEW x, NEW y, name.ret = 0,
           NameMoves(a, p, more, name, x), NameMoves(b, p, more, name, y)
    PROVE  name.at \in 1..n /\ ((y <= n /\ x = y) \/ (y > n /\ x = n + 1))
<1>1. n \in Nat /\ n <= Len(b) /\ Len(a) = n
  BY DEF Cut
<1>2. name.at \in p..n
  BY <1>1 DEF NameMoves
<1>3. /\ First(a, IF more THEN p ELSE name.at + 1, IF more THEN STRING ELSE STRING \ Parser!Blank, x)
      /\ First(b, IF more THEN p ELSE name.at + 1, IF more THEN STRING ELSE STRING \ Parser!Blank, y)
  BY DEF NameMoves
<1>4. CASE more
  <2>1. First(a, p, STRING, x) /\ First(b, p, STRING, y) /\ p \in 1..(n + 1)
    BY <1>1, <1>3, <1>4
  <2>2. (y <= n /\ x = y) \/ (y > n /\ x = n + 1)
    BY <2>1, FirstOfCut
  <2> QED  BY <1>1, <1>2, <2>2
<1>5. CASE ~more
  <2>1. PICK k \in 1..(n + 1) : k = name.at + 1
    BY <1>1, <1>2
  <2>2. First(a, k, STRING \ Parser!Blank, x) /\ First(b, k, STRING \ Parser!Blank, y)
    BY <1>3, <1>5, <2>1
  <2>3. (y <= n /\ x = y) \/ (y > n /\ x = n + 1)
    BY <2>2, FirstOfCut
  <2> QED  BY <1>1, <1>2, <2>3
<1> QED  BY <1>4, <1>5

\* What lies behind the name.
LEMMA AfterNameAlike ==
    ASSUME NEW a, NEW b, NEW n, Cut(a, b, n), NEW p \in 1..n, NEW more \in BOOLEAN,
           NEW name, NEW x, NEW y, NEW v, NEW w, name.ret = 0,
           LineParts(a, p, more, name, x, v), LineParts(b, p, more, name, y, w)
    PROVE  Alike(n + 1, AfterName(a, p, more, name, x, v), AfterName(b, p, more, name, y, w))
<1>1. /\ a \in Seq(STRING) /\ b \in Seq(STRING) /\ n \in Nat /\ n <= Len(b) /\ Len(a) = n
      /\ p \in 1..Len(a) /\ p \in 1..Len(b) /\ p \in Nat /\ 1 <= p
  BY DEF Cut
<1>2. NameMoves(a, p, more, name, x) /\ NameMoves(b, p, more, name, y)
  BY <1>1, NameEnds
<1>3. name.at \in 1..n /\ ((y <= n /\ x = y) \/ (y > n /\ x = n + 1))
  BY <1>2, StartAlike
<1>4. x \in 1..(n + 1) /\ y \in 1..(Len(b) + 1)
  BY <1>1, <1>2, <1>3 DEF NameMoves
<1>5. v = Parser!get_token_to_eol(a, x) /\ w = Parser!get_token_to_eol(b, y)
  BY Zenon DEF LineParts
<1>6. PICK X, Y : /\ X = AfterName(a, p, more, name, x, v)
                  /\ Y = AfterName(b, p, more, name, y, w)
  OBVIOUS
<1>7. SubSeq(a, p, name.at - 1) = SubSeq(b, p, name.at - 1)
  <2>1. name.at - 1 \in Int /\ name.at - 1 <= n
    BY <1>1, <1>3
  <2> QED  BY <1>1, <2>1, CutPieces, ZenonT(60)
<1>8. CASE ~more /\ name.at = p
  <2>1. X = Y
    BY <1>6, <1>8, Zenon DEF AfterName
  <2> QED  BY <1>6, <2>1 DEF Alike
<1>9. CASE ~(~more /\ name.at = p) /\ y > n /\ x = n + 1
  <2>1. X = Parser!Partial
    <3>1. Parser!Eof(a, x)
      BY <1>1, <1>9 DEF Parser!Eof
    <3> QED  BY <1>6, <1>9, <3>1, Zenon DEF AfterName
  <2>2. ASSUME Y.ret = 0  PROVE Y.at > n + 1
    <3>1. Y = Parser!Partial \/ Y = Parser!Then(w.r, [w.r EXCEPT !.headers = <<HeaderIn(b, p, name, w)>>])
      BY <1>6, <1>9, Zenon DEF AfterName
    <3>2. Y # Parser!Partial
      BY <2>2, Results
    <3>3. PICK z, g : z = w.r /\ Y = Parser!Then(z, [z EXCEPT !.headers = <<g>>])
      BY <3>1, <3>2
    <3>4. RestMoves(b, y, w)
      BY <1>1, <1>4, <1>5, RestOfLineMoves
    <3>5. z.ret = 0
      BY <2>2, <3>3 DEF Parser!Then
    <3>6. z \in Result /\ y < z.at
      BY <3>3, <3>4, <3>5 DEF RestMoves, Moves
    <3>7. Y.at = z.at
      <4>1. Y = [z EXCEPT !.headers = <<g>>]
        BY <3>3, <3>5, Zenon DEF Parser!Then
      <4> QED  BY <3>6, <4>1 DEF Result
    <3>8. z.at \in Nat
      BY <3>6 DEF Result
    <3> QED  BY <1>1, <1>4, <1>9, <3>6, <3>7, <3>8
  <2> QED  BY <1>6, <2>1, <2>2, Results DEF Alike
<1>10. CASE ~(~more /\ name.at = p) /\ y <= n /\ x = y
  <2>1. ~Parser!Eof(a, x) /\ ~Parser!Eof(b, y)
    BY <1>1, <1>4, <1>10 DEF Parser!Eof
  <2>2. /\ X = Parser!Then(v.r, [v.r EXCEPT !.headers = <<HeaderIn(a, p, name, v)>>])
        /\ Y = Parser!Then(w.r, [w.r EXCEPT !.headers = <<HeaderIn(b, p, name, w)>>])
    BY <1>6, <1>10, <2>1, Zenon DEF AfterName
  <2>3. v = w \/ (v.r.ret = -2 /\ (w.r.ret = 0 => w.r.at > n + 1))
    BY <1>4, <1>5, <1>10, RestOfLineAlike
  <2>4. CASE v = w
    <3>1. HeaderIn(a, p, name, v) = HeaderIn(b, p, name, w)
      BY <1>7, <2>4, Zenon DEF HeaderIn
    <3>2. X = Y
      BY <2>2, <2>4, <3>1, Zenon
    <3> QED  BY <1>6, <3>2 DEF Alike
  <2>5. CASE v.r.ret = -2 /\ (w.r.ret = 0 => w.r.at > n + 1)
    <3>1. X.ret = -2
      <4>1. v.r.ret # 0
        BY <2>5
      <4> QED  BY <2>2, <2>5, <4>1, Zenon DEF Parser!Then
    <3>2. ASSUME Y.ret = 0  PROVE Y.at > n + 1
      <4>1. PICK z, g : z = w.r /\ Y = Parser!Then(z, [z EXCEPT !.headers = <<g>>])
        BY <2>2
      <4>2. RestMoves(b, y, w)
        BY <1>1, <1>4, <1>5, RestOfLineMoves
      <4>3. z.ret = 0
        BY <3>2, <4>1 DEF Parser!Then
      <4>4. z \in Result
        BY <4>1, <4>2 DEF RestMoves, Moves
      <4>5. Y = [z EXCEPT !.headers = <<g>>]
        BY <4>1, <4>3, Zenon DEF Parser!Then
      <4>6. Y.at = z.at
        BY <4>4, <4>5 DEF Result
      <4> QED  BY <2>5, <4>1, <4>3, <4>6
    <3> QED  BY <1>6, <3>1, <3>2 DEF Alike
  <2> QED  BY <2>3, <2>4, <2>5
<1> QED  BY <1>3, <1>8, <1>9, <1>10

\* The name.
LEMMA NameAlike ==
    ASSUME NEW a, NEW b, NEW n, Cut(a, b, n), NEW p \in 1..n, NEW more \in BOOLEAN,
           NEW e, NEW f, NEW x, NEW y, NEW v, NEW w,
           LineParts(a, p, more, e, x, v), LineParts(b, p, more, f, y, w)
    PROVE  Alike(n, e, f)
<1>1. /\ e = IF more THEN Parser!Ok(p) ELSE Parser!parse_token(a, p, ":")
      /\ f = IF more THEN Parser!Ok(p) ELSE Parser!parse_token(b, p, ":")
  BY DEF LineParts
<1>2. CASE more
  BY <1>1, <1>2 DEF Alike
<1>3. CASE ~more
  <2>1. p \in 1..(n + 1)
    BY DEF Cut
  <2> QED  BY <1>1, <1>3, <2>1, SearchesAlike
<1> QED  BY <1>2, <1>3

\* A header line that is cut.
LEMMA HeaderAlike ==
    ASSUME NEW a, NEW b, NEW n, Cut(a, b, n), NEW p \in 1..n, NEW h
    PROVE  Alike(n + 1, Parser!parse_header(a, p, h), Parser!parse_header(b, p, h))
<1>1. /\ a \in Seq(STRING) /\ b \in Seq(STRING) /\ n \in Nat /\ n <= Len(b) /\ Len(a) = n
      /\ p \in 1..Len(a) /\ p \in 1..Len(b) /\ a[p] = b[p]
  BY DEF Cut
<1>2. PICK more \in BOOLEAN : Continues(a, p, h, more) /\ Continues(b, p, h, more)
  <2>1. (h # 0 /\ b[p] \in Parser!Blank) \in BOOLEAN
        /\ Continues(a, p, h, h # 0 /\ b[p] \in Parser!Blank)
        /\ Continues(b, p, h, h # 0 /\ b[p] \in Parser!Blank)
    BY <1>1 DEF Continues
  <2> QED  BY <2>1
<1>3. PICK e, x, v : IsHeaderLine(a, p, h, more, e, x, v)
  BY <1>2, LineHasParts
<1>4. PICK f, y, w : IsHeaderLine(b, p, h, more, f, y, w)
  BY <1>2, LineHasParts
<1>5. LineParts(a, p, more, e, x, v) /\ LineParts(b, p, more, f, y, w)
  BY <1>3, <1>4 DEF IsHeaderLine
<1>6. Alike(n, e, f)
  BY <1>5, NameAlike
<1>7. PICK X, Y : X = AfterName(a, p, more, e, x, v) /\ Y = AfterName(b, p, more, f, y, w)
  OBVIOUS
<1>8. PICK E, F : /\ E = Parser!parse_header(a, p, h) /\ E = Parser!Then(e, X)
                  /\ F = Parser!parse_header(b, p, h) /\ F = Parser!Then(f, Y)
  BY <1>3, <1>4, <1>7 DEF IsHeaderLine
<1>9. CASE e = f /\ f.ret = 0
  <2>1. E = X /\ F = Y
    BY <1>8, <1>9, Zenon DEF Parser!Then
  <2>2. Alike(n + 1, X, Y)
    BY <1>5, <1>7, <1>9, AfterNameAlike
  <2> QED  BY <1>8, <2>1, <2>2
<1>10. CASE f.ret # 0
  <2>1. CASE e = f
    <3>1. E = F
      BY <1>8, <1>10, <2>1, Zenon DEF Parser!Then
    <3> QED  BY <1>8, <3>1 DEF Alike
  <2>2. CASE e.ret = -2
    <3>1. e.ret # 0
      BY <2>2
    <3>2. E.ret = -2 /\ F.ret # 0
      BY <1>8, <1>10, <2>2, <3>1, Zenon DEF Parser!Then
    <3> QED  BY <1>8, <3>2 DEF Alike
  <2> QED  BY <1>6, <2>1, <2>2 DEF Alike
<1>11. CASE e.ret = -2 /\ f.ret = 0 /\ f.at > n
  <2>1. e.ret # 0
    BY <1>11
  <2>2. E.ret = -2 /\ F = Y
    BY <1>8, <1>11, <2>1, Zenon DEF Parser!Then
  <2>3. ASSUME F.ret = 0  PROVE F.at > n + 1
    <3>1. NameMoves(b, p, more, f, y)
      BY <1>1, <1>5, NameEnds
    <3>2. f.at \in p..Len(b) /\ y \in f.at..(Len(b) + 1)
      BY <1>11, <3>1 DEF NameMoves
    <3>3. y > n /\ y \in 1..(Len(b) + 1)
      BY <1>1, <1>11, <3>2
    <3>4. w = Parser!get_token_to_eol(b, y)
      BY <1>5, Zenon DEF LineParts
    <3>5. RestMoves(b, y, w)
      BY <1>1, <3>3, <3>4, RestOfLineMoves
    <3>6. Y # Parser!Partial /\ Y # Parser!Fail
      BY <2>2, <2>3, Results
    <3>7. Y = Parser!Then(w.r, [w.r EXCEPT !.headers = <<HeaderIn(b, p, f, w)>>])
      BY <1>7, <3>6, Zenon DEF AfterName
    <3>8. PICK z, g : z = w.r /\ Y = Parser!Then(z, [z EXCEPT !.headers = <<g>>])
      BY <3>7
    <3>9. z.ret = 0
      BY <2>2, <2>3, <3>8 DEF Parser!Then
    <3>10. z \in Result /\ y < z.at
      BY <3>5, <3>8, <3>9 DEF RestMoves, Moves
    <3>11. Y = [z EXCEPT !.headers = <<g>>]
      BY <3>8, <3>9, Zenon DEF Parser!Then
    <3>12. Y.at = z.at /\ z.at \in Nat
      BY <3>10, <3>11 DEF Result
    <3> QED  BY <1>1, <2>2, <3>3, <3>10, <3>12
  <2> QED  BY <1>8, <2>2, <2>3 DEF Alike
<1> QED  BY <1>6, <1>9, <1>10, <1>11 DEF Alike

\* A blank line ends at E.
BlankEnd(b, E) ==
    /\ E \in 2..Len(b) /\ b[E] = "LF"
    /\ b[E - 1] = "LF" \/ (b[E - 1] = "CR" /\ E >= 3 /\ b[E - 2] = "LF")

\* What k header lines from p on leave: the next place, behind the end of a line, or the result.
LinesGo(b, p, k, r) ==
    /\ r \in Result /\ r.ret \in {1, 0, -1, -2}
    /\ r.ret = 1 => /\ r.at \in p..(Len(b) + 1) /\ NoStray(b, p, r.at) /\ Len(r.headers) = k
                    /\ IF k = 0 THEN r.at = p ELSE p < r.at /\ b[r.at - 1] = "LF"
    /\ r.ret = 0 => /\ r.at \in (p + 1)..(Len(b) + 1) /\ NoStray(b, p, r.at)
                    /\ r.headers # <<>> \/ (p > 1 /\ b[p - 1] = "LF") => BlankEnd(b, r.at - 1)

\* A turn of the loop goes one line on, or ends it.
LEMMA LineGoes ==
    ASSUME NEW b \in Seq(STRING), NEW p \in 1..(Len(b) + 1), NEW k \in Nat, NEW r,
           LinesGo(b, p, k, r)
    PROVE  LET y == Parser!HeaderLine(b, r)
           IN  /\ LinesGo(b, p, k + 1, y) /\ (k = MaxHeaders => y.ret # 1)
               /\ r.ret # 1 => y = r
               /\ r.ret = 1 /\ y.ret \in {0, 1} => y.at > r.at
<1>1. PICK y : y = Parser!HeaderLine(b, r)
  OBVIOUS
<1>2. CASE r.ret # 1
  <2>1. y = r
    BY <1>1, <1>2, Zenon DEF Parser!HeaderLine
  <2> QED  BY <1>1, <1>2, <2>1 DEF LinesGo
<1>3. CASE r.ret = 1
  <2>1. /\ r \in Result /\ r.at \in p..(Len(b) + 1) /\ NoStray(b, p, r.at) /\
            Len(r.headers) = k
        /\ IF k = 0 THEN r.at = p ELSE p < r.at /\ b[r.at - 1] = "LF"
    BY <1>3 DEF LinesGo
  <2>2. PICK q \in Nat : q = r.at /\ q \in 1..(Len(b) + 1) /\ p <= q
    BY <2>1
  <2>3. CASE Parser!Eof(b, q)
    <3>1. y = Parser!Partial
      BY <1>1, <1>3, <2>2, <2>3, Zenon DEF Parser!HeaderLine
    <3> QED  BY <1>1, <1>3, <3>1, Results DEF LinesGo
  <2>4. CASE ~Parser!Eof(b, q) /\ b[q] \in {"CR", "LF"}
    <3>1. PICK e : e = Parser!end_of_line(b, q)
      OBVIOUS
    <3>2. y = Parser!Then(e, [e EXCEPT !.headers = r.headers])
      BY <1>1, <1>3, <2>2, <2>4, <3>1, Zenon DEF Parser!HeaderLine
    <3>3. q \in 1..Len(b)
      BY <2>2, <2>4 DEF Parser!Eof
    <3>4. /\ Moves(b, q, e)
          /\ e.ret = 0 => \/ b[q] = "LF" /\ e.at = q + 1
                          \/ b[q] = "CR" /\ b[q + 1] = "LF" /\ e.at = q + 2
      BY <3>1, <3>3, LineMoves
    <3>5. CASE e.ret # 0
      <4>1. y = e
        BY <3>2, <3>5, Zenon DEF Parser!Then
      <4> QED  BY <1>1, <1>3, <3>4, <3>5, <4>1 DEF LinesGo, Moves
    <3>6. CASE e.ret = 0
      <4>1. y = [e EXCEPT !.headers = r.headers]
        BY <3>2, <3>6, Zenon DEF Parser!Then
      <4>2. y \in Result /\ y.ret = 0 /\ y.at = e.at /\ y.headers = r.headers
        BY <2>1, <3>4, <3>6, <4>1 DEF Result, Moves
      <4>3. e.at \in Nat /\ e.at \in (q + 1)..(Len(b) + 1) /\ NoStray(b, q, e.at)
        BY <3>3, <3>4, <3>6 DEF Moves, Result
      <4>4. NoStray(b, p, e.at)
        BY <2>1, <2>2, <4>3, NoStrayJoins
      <4>5. ASSUME r.headers # <<>> \/ (p > 1 /\ b[p - 1] = "LF")
            PROVE  BlankEnd(b, e.at - 1)
        <5>1. q > 1 /\ b[q - 1] = "LF"
          <6>1. CASE k = 0
            <7>1. r.headers = <<>> /\ q = p
              <8>1. r.headers \in Seq(Header) /\ Len(r.headers) = 0
                BY <2>1, <6>1 DEF Result
              <8> QED  BY <2>1, <2>2, <6>1, <8>1
            <7> QED  BY <4>5, <7>1
          <6>2. CASE k # 0
            BY <2>1, <2>2, <6>2
          <6> QED  BY <6>1, <6>2
        <5>2. CASE b[q] = "LF" /\ e.at = q + 1
          <6>1. e.at - 1 = q /\ q \in 2..Len(b)
            BY <3>3, <5>1, <5>2
          <6> QED  BY <5>1, <5>2, <6>1 DEF BlankEnd
        <5>3. CASE b[q] = "CR" /\ b[q + 1] = "LF" /\ e.at = q + 2
          <6>1. PICK E \in 2..Len(b) : E = e.at - 1 /\ E - 1 = q /\ E - 2 = q - 1 /\ E = q + 1
                                       /\ E >= 3
            BY <3>3, <4>3, <5>1, <5>3
          <6> QED  BY <5>1, <5>3, <6>1 DEF BlankEnd
        <5> QED  BY <3>4, <3>6, <5>2, <5>3
      <4>6. e.at \in (p + 1)..(Len(b) + 1) /\ e.at > q
        BY <2>2, <4>3
      <4> QED  BY <1>1, <1>3, <2>2, <4>2, <4>4, <4>5, <4>6 DEF LinesGo
    <3> QED  BY <3>5, <3>6
  <2>5. CASE ~Parser!Eof(b, q) /\ ~(b[q] \in {"CR", "LF"}) /\ Len(r.headers) = MaxHeaders
    <3>1. y = Parser!Fail
      BY <1>1, <1>3, <2>2, <2>5, Zenon DEF Parser!HeaderLine
    <3> QED  BY <1>1, <1>3, <3>1, Results DEF LinesGo
  <2>6. CASE ~Parser!Eof(b, q) /\ ~(b[q] \in {"CR", "LF"}) /\ Len(r.headers) # MaxHeaders
    <3>1. PICK e : e = Parser!parse_header(b, q, Len(r.headers))
      OBVIOUS
    <3>2. y = Parser!Then(e, [e EXCEPT !.ret = 1, !.headers = r.headers \o e.headers])
      BY <1>1, <1>3, <2>2, <2>6, <3>1, Zenon DEF Parser!HeaderLine
    <3>3. q \in 1..Len(b)
      BY <2>2, <2>6 DEF Parser!Eof
    <3>4. LineLeaves(b, q, e)
      BY <3>1, <3>3, HeaderMoves
    <3>5. CASE e.ret # 0
      <4>1. y = e
        BY <3>2, <3>5, Zenon DEF Parser!Then
      <4> QED  BY <1>1, <1>3, <3>4, <3>5, <4>1 DEF LinesGo, Moves, LineLeaves
    <3>6. CASE e.ret = 0
      <4>1. y = [e EXCEPT !.ret = 1, !.headers = r.headers \o e.headers]
        BY <3>2, <3>6, Zenon DEF Parser!Then
      <4>2. PICK g \in Header : e.headers = <<g>>
        BY <3>4, <3>6 DEF LineLeaves
      <4>3. e \in Result /\ q < e.at /\ b[e.at - 1] = "LF" /\ e.at <= Len(b) + 1
            /\ NoStray(b, q, e.at)
        BY <3>4, <3>6 DEF Moves, LineLeaves
      <4>4. /\ r.headers \in Seq(Header) /\ r.headers \o <<g>> \in Seq(Header)
            /\ Len(r.headers \o <<g>>) = k + 1
        BY <2>1, <4>2 DEF Result
      <4>5. PICK hs \in Seq(Header) : hs = r.headers \o <<g>> /\ Len(hs) = k + 1
        BY <4>4
      <4>6. y = [e EXCEPT !.ret = 1, !.headers = hs]
        BY <4>1, <4>2, <4>5
      <4>7. e \in [ret : Int, at : Nat, method : Seq(STRING), path : Seq(STRING),
                   headers : Seq(Header)]
        BY <4>3 DEF Result
      <4>8. PICK SS, SH : SS = Seq(STRING) /\ SH = Seq(Header)
        OBVIOUS
      <4>9. y \in Result /\ y.ret = 1 /\ y.at = e.at /\ y.headers = hs
        <5>1. e \in [ret : Int, at : Nat, method : SS, path : SS, headers : SH] /\ hs \in SH
          BY <4>5, <4>7, <4>8
        <5>2. /\ y \in [ret : Int, at : Nat, method : SS, path : SS, headers : SH]
              /\ y.ret = 1 /\ y.at = e.at /\ y.headers = hs
          <6>1. PICK z : z = [e EXCEPT !.ret = 1]
            OBVIOUS
          <6>2. y = [z EXCEPT !.headers = hs]
            BY <4>6, <6>1, Zenon
          <6>3. z \in [ret : Int, at : Nat, method : SS, path : SS, headers : SH]
                /\ z.ret = 1 /\ z.at = e.at
            BY <5>1, <6>1
          <6> QED  BY <5>1, <6>2, <6>3
        <5> QED  BY <4>8, <5>2 DEF Result
      <4>10. e.at \in Nat
        BY <4>3 DEF Result
      <4>11. NoStray(b, p, e.at)
        BY <2>1, <2>2, <4>3, <4>10, NoStrayJoins
      <4>12. e.at \in p..(Len(b) + 1) /\ p < e.at /\ e.at > q /\ k + 1 # 0
        BY <2>2, <4>3, <4>10
      <4>13. k # MaxHeaders
        BY <2>1, <2>6
      <4> QED  BY <1>1, <1>3, <2>2, <4>3, <4>5, <4>9, <4>11, <4>12, <4>13 DEF LinesGo
    <3> QED  BY <3>5, <3>6
  <2> QED  BY <2>3, <2>4, <2>5, <2>6
<1> QED  BY <1>2, <1>3

\* Turns over a message that is cut.
TurnsAlike(n, x, y) == x = y \/ (x.ret = -2 /\ (y.ret \in {0, 1} => y.at > n + 1))

\* A turn keeps them so.
LEMMA LineTurnAlike ==
    ASSUME NEW a, NEW b, NEW n, Cut(a, b, n), NEW p \in 1..(n + 1),
        NEW k \in Nat, NEW x, NEW y,
           LinesGo(a, p, k, x), LinesGo(b, p, k, y), TurnsAlike(n, x, y)
    PROVE  TurnsAlike(n, Parser!HeaderLine(a, x), Parser!HeaderLine(b, y))
<1>1. /\ a \in Seq(STRING) /\ b \in Seq(STRING) /\ n \in Nat /\ n <= Len(b) /\ Len(a) = n
      /\ p \in 1..(Len(a) + 1) /\ p \in 1..(Len(b) + 1) /\ \A i \in 1..n : a[i] = b[i]
  BY DEF Cut
<1>2. PICK X, Y : X = Parser!HeaderLine(a, x) /\ Y = Parser!HeaderLine(b, y)
  OBVIOUS
<1>3. /\ LinesGo(b, p, k + 1, Y) /\ (y.ret # 1 => Y = y)
      /\ y.ret = 1 /\ Y.ret \in {0, 1} => Y.at > y.at
  BY <1>1, <1>2, LineGoes
<1>4. x.ret # 1 => X = x
  BY <1>1, <1>2, LineGoes
<1>5. CASE x.ret = -2 /\ (y.ret \in {0, 1} => y.at > n + 1)
  <2>1. X.ret = -2
    BY <1>4, <1>5
  <2>2. CASE y.ret # 1
    BY <1>2, <1>3, <1>5, <2>1, <2>2 DEF TurnsAlike
  <2>3. CASE y.ret = 1
    <3>1. ASSUME Y.ret \in {0, 1}  PROVE Y.at > n + 1
      <4>1. Y.at > y.at /\ y.at > n + 1
        BY <1>3, <1>5, <2>3, <3>1
      <4>2. Y.at \in Nat /\ y.at \in Nat
        BY <1>3 DEF LinesGo, Result
      <4> QED  BY <1>1, <4>1, <4>2
    <3> QED  BY <1>2, <2>1, <3>1 DEF TurnsAlike
  <2> QED  BY <2>2, <2>3
<1>6. CASE x = y /\ y.ret # 1
  BY <1>2, <1>3, <1>4, <1>6 DEF TurnsAlike
<1>7. CASE x = y /\ y.ret = 1
  <2>1. PICK q \in 1..(n + 1) : q = y.at /\ q = x.at
    BY <1>1, <1>7 DEF LinesGo
  <2>2. CASE q = n + 1
    <3>1. X = Parser!Partial
      <4>1. Parser!Eof(a, q)
        BY <1>1, <2>2 DEF Parser!Eof
      <4> QED  BY <1>2, <1>7, <2>1, <4>1, Zenon DEF Parser!HeaderLine
    <3>2. X.ret = -2
      BY <3>1, Results
    <3> QED  BY <1>2, <1>3, <1>7, <2>1, <2>2, <3>2 DEF TurnsAlike
  <2>3. CASE q # n + 1
    <3>1. /\ q \in 1..n /\ ~Parser!Eof(a, q) /\ ~Parser!Eof(b, q) /\ a[q] = b[q]
      BY <1>1, <2>3 DEF Parser!Eof
    <3>2. CASE b[q] \in {"CR", "LF"}
      <4>1. PICK e, f : e = Parser!end_of_line(a, q) /\ f = Parser!end_of_line(b, q)
        OBVIOUS
      <4>2. /\ X = Parser!Then(e, [e EXCEPT !.headers = x.headers])
            /\ Y = Parser!Then(f, [f EXCEPT !.headers = y.headers])
        BY <1>2, <1>7, <2>1, <3>1, <3>2, <4>1, Zenon DEF Parser!HeaderLine
      <4>3. Alike(n + 1, e, f)
        BY <3>1, <4>1, LineAlike
      <4>4. CASE e = f
        <5>1. X = Y
          BY <1>7, <4>2, <4>4, Zenon
        <5> QED  BY <1>2, <5>1 DEF TurnsAlike
      <4>5. CASE e.ret = -2 /\ (f.ret = 0 => f.at > n + 1)
        <5>1. e.ret # 0
          BY <4>5
        <5>2. X.ret = -2
          BY <4>2, <4>5, <5>1, Zenon DEF Parser!Then
        <5>3. q \in 1..Len(b)
          BY <1>1, <3>1
        <5>4. Moves(b, q, f)
          BY <1>1, <4>1, <5>3, LineMoves
        <5>5. f \in Result /\ f.ret \in {0, -1, -2}
          BY <5>4 DEF Moves
        <5>6. CASE f.ret # 0
          <6>1. Y = f
            BY <4>2, <5>6, Zenon DEF Parser!Then
          <6>2. Y.ret \notin {0, 1}
            BY <5>5, <5>6, <6>1
          <6> QED  BY <1>2, <5>2, <6>2, Zenon DEF TurnsAlike
        <5>7. CASE f.ret = 0
          <6>1. Y = [f EXCEPT !.headers = y.headers]
            BY <4>2, <5>7, Zenon DEF Parser!Then
          <6>2. Y.at = f.at
            BY <5>5, <6>1 DEF Result
          <6> QED  BY <1>2, <4>5, <5>2, <5>7, <6>2 DEF TurnsAlike
        <5> QED  BY <5>6, <5>7
      <4> QED  BY <4>3, <4>4, <4>5 DEF Alike
    <3>3. CASE ~(b[q] \in {"CR", "LF"}) /\ Len(y.headers) = MaxHeaders
      <4>1. X = Parser!Fail /\ Y = Parser!Fail
        BY <1>2, <1>7, <2>1, <3>1, <3>3, Zenon DEF Parser!HeaderLine
      <4> QED  BY <1>2, <4>1 DEF TurnsAlike
    <3>4. CASE ~(b[q] \in {"CR", "LF"}) /\ Len(y.headers) # MaxHeaders
      <4>1. PICK e, f : /\ e = Parser!parse_header(a, q, Len(y.headers))
                        /\ f = Parser!parse_header(b, q, Len(y.headers))
        OBVIOUS
      <4>2. /\ X = Parser!Then(e, [e EXCEPT !.ret = 1, !.headers = x.headers \o e.headers])
            /\ Y = Parser!Then(f, [f EXCEPT !.ret = 1, !.headers = y.headers \o f.headers])
        BY <1>2, <1>7, <2>1, <3>1, <3>4, <4>1, Zenon DEF Parser!HeaderLine
      <4>3. Alike(n + 1, e, f)
        BY <3>1, <4>1, HeaderAlike
      <4>4. CASE e = f
        <5>1. X = Y
          BY <1>7, <4>2, <4>4, Zenon
        <5> QED  BY <1>2, <5>1 DEF TurnsAlike
      <4>5. CASE e.ret = -2 /\ (f.ret = 0 => f.at > n + 1)
        <5>1. e.ret # 0
          BY <4>5
        <5>2. X.ret = -2
          BY <4>2, <4>5, <5>1, Zenon DEF Parser!Then
        <5>3. q \in 1..Len(b)
          BY <1>1, <3>1
        <5>4. Moves(b, q, f)
          BY <1>1, <4>1, <5>3, HeaderMoves DEF LineLeaves
        <5>5. f \in Result /\ f.ret \in {0, -1, -2}
          BY <5>4 DEF Moves
        <5>6. CASE f.ret # 0
          <6>1. Y = f
            BY <4>2, <5>6, Zenon DEF Parser!Then
          <6>2. Y.ret \notin {0, 1}
            BY <5>5, <5>6, <6>1
          <6> QED  BY <1>2, <5>2, <6>2, Zenon DEF TurnsAlike
        <5>7. CASE f.ret = 0
          <6>1. PICK hs : hs = y.headers \o f.headers
            OBVIOUS
          <6>2. Y = [f EXCEPT !.ret = 1, !.headers = hs]
            BY <4>2, <5>7, <6>1, Zenon DEF Parser!Then
          <6>3. Y.at = f.at
            BY <5>5, <6>2 DEF Result
          <6> QED  BY <1>2, <4>5, <5>2, <5>7, <6>3 DEF TurnsAlike
        <5> QED  BY <5>6, <5>7
      <4> QED  BY <4>3, <4>4, <4>5 DEF Alike
    <3> QED  BY <3>2, <3>3, <3>4
  <2> QED  BY <2>2, <2>3
<1> QED  BY <1>5, <1>6, <1>7 DEF TurnsAlike

\* The turns over the header lines from p on.
HeaderTurns(b, p, f) ==
    /\ Parser!parse_headers(b, p) = f[MaxHeaders + 1]
    /\ f[0] = [Parser!Ok(p) EXCEPT !.ret = 1]
    /\ \A k \in 1..(MaxHeaders + 1) : f[k] = Parser!HeaderLine(b, f[k - 1])
    /\ \A k \in 0..(MaxHeaders + 1) : LinesGo(b, p, k, f[k])
    /\ f[MaxHeaders + 1].ret # 1

\* The loop over the lines takes these turns.
LEMMA HeadersTurn ==
    ASSUME NEW b \in Seq(STRING), NEW p \in 1..(Len(b) + 1)
    PROVE  \E f : HeaderTurns(b, p, f)
<1>1. PICK M \in Nat : M = MaxHeaders
  BY HttpExchangeAssumption
<1>2. PICK N \in Nat : N = M + 1 /\ N = MaxHeaders + 1
  BY <1>1
<1>3. PICK c0 : c0 = [Parser!Ok(p) EXCEPT !.ret = 1]
  OBVIOUS
<1>4. LinesGo(b, p, 0, c0)
  <2>1. PICK o \in Result : o = Parser!Ok(p) /\ o.at = p /\ o.headers = <<>>
    BY Results
  <2>2. c0 \in Result /\ c0.ret = 1 /\ c0.at = p /\ c0.headers = <<>>
    BY <1>3, <2>1, SMTT(60) DEF Result
  <2>3. NoStray(b, p, p) /\ p \in p..(Len(b) + 1) /\ Len(<<>>) = 0
    BY DEF NoStray
  <2> QED  BY <2>2, <2>3 DEF LinesGo
<1>5. PICK T : T = {r \in Result : \E k \in Nat : LinesGo(b, p, k, r)}
  OBVIOUS
<1>6. \A r \in T : Parser!HeaderLine(b, r) \in T
  <2>1. ASSUME NEW r \in T  PROVE Parser!HeaderLine(b, r) \in T
    <3>1. PICK k \in Nat : LinesGo(b, p, k, r)
      BY <1>5
    <3>2. PICK z : z = Parser!HeaderLine(b, r) /\ LinesGo(b, p, k + 1, z)
      BY <3>1, LineGoes
    <3>3. z \in Result /\ k + 1 \in Nat
      BY <3>2 DEF LinesGo
    <3> QED  BY <1>5, <3>2, <3>3, Zenon
  <2> QED  BY <2>1
<1> DEFINE turn == CHOOSE f : f = [n \in 0..(MaxHeaders + 1) |->
                     IF n = 0 THEN c0 ELSE Parser!HeaderLine(b, f[n - 1])]
<1>7. Parser!parse_headers(b, p) = turn[MaxHeaders + 1]
  BY <1>3 DEF Parser!parse_headers
<1>8. PICK S : S = [x \in (1..N) \X T |-> Parser!HeaderLine(b, x[2])]
  OBVIOUS
<1>9. PICK f \in [0..N -> T] : f[0] = c0 /\ \A n \in 1..N : f[n] = S[<<n, f[n - 1]>>]
  <2>1. S \in [(1..N) \X T -> T]
    BY <1>6, <1>8
  <2>2. c0 \in T
    <3>1. c0 \in Result /\ 0 \in Nat
      BY <1>4 DEF LinesGo
    <3> QED  BY <1>4, <1>5, <3>1, Zenon
  <2>3. Steps(T, N, c0, S)
    BY <2>1, <2>2 DEF Steps
  <2>4. PICK f : Takes(T, N, c0, S, f)
    BY <2>3, Iteration, Zenon
  <2> QED  BY <2>4 DEF Takes
<1>10. ASSUME NEW n \in 1..N
       PROVE  n - 1 \in 0..N /\ f[n] = Parser!HeaderLine(b, f[n - 1])
  <2>1. n - 1 \in 0..N
    OBVIOUS
  <2>2. <<n, f[n - 1]>> \in (1..N) \X T
    BY <1>9, <2>1
  <2> QED  BY <1>8, <1>9, <2>1, <2>2
<1>11. f = [n \in 0..(MaxHeaders + 1) |-> IF n = 0 THEN c0 ELSE Parser!HeaderLine(b, f[n - 1])]
  <2>1. ASSUME NEW n \in 0..N
        PROVE  f[n] = IF n = 0 THEN c0 ELSE Parser!HeaderLine(b, f[n - 1])
    <3>1. CASE n = 0
      BY <1>9, <3>1
    <3>2. CASE n # 0
      <4>1. n \in 1..N
        BY <3>2
      <4> QED  BY <1>10, <3>2, <4>1
    <3> QED  BY <3>1, <3>2
  <2> QED  BY <1>2, <1>9, <2>1
<1>12. turn = [n \in 0..(MaxHeaders + 1) |->
                 IF n = 0 THEN c0 ELSE Parser!HeaderLine(b, turn[n - 1])]
  BY <1>11, Zenon
<1> HIDE DEF turn
<1>13. PICK t : t = turn
  OBVIOUS
<1>14. t[0] = c0 /\ \A n \in 1..N : t[n] = Parser!HeaderLine(b, t[n - 1])
  <2>1. 0 \in 0..N /\ \A n \in 1..N : n \in 0..N /\ n # 0
    OBVIOUS
  <2> QED  BY <1>2, <1>12, <1>13, <2>1
<1>15. \A k \in 0..N : LinesGo(b, p, k, t[k])
  <2>1. PICK P : P = {k \in 0..N : LinesGo(b, p, k, t[k])}
    OBVIOUS
  <2>2. 0 \in P
    BY <1>4, <1>14, <2>1
  <2>3. ASSUME NEW k \in 0..N, k < N, k \in P  PROVE k + 1 \in P
    <3>1. k + 1 \in 1..N /\ k + 1 \in 0..N /\ k + 1 - 1 = k /\ k \in Nat
      BY <2>3
    <3>2. t[k + 1] = Parser!HeaderLine(b, t[k])
      BY <1>14, <3>1
    <3>3. LinesGo(b, p, k, t[k])
      BY <2>1, <2>3
    <3>4. LinesGo(b, p, k + 1, t[k + 1])
      BY <3>1, <3>2, <3>3, LineGoes
    <3> QED  BY <2>1, <3>1, <3>4
  <2>4. 0 \in Nat
    OBVIOUS
  <2>5. \A n \in 0..N : n \in P
    BY <2>2, <2>3, <2>4, Counting
  <2> QED  BY <2>1, <2>5
<1>16. t[N].ret # 1
  <2>1. M \in 0..N /\ N \in 1..N /\ N - 1 = M
    BY <1>2
  <2>2. t[N] = Parser!HeaderLine(b, t[M]) /\ LinesGo(b, p, M, t[M])
    BY <1>14, <1>15, <2>1
  <2> QED  BY <1>1, <2>2, LineGoes
<1>17. HeaderTurns(b, p, t)
  BY <1>2, <1>3, <1>7, <1>13, <1>14, <1>15, <1>16 DEF HeaderTurns
<1> QED  BY <1>17

\* What a block of headers leaves: it ends in a blank line, if it is not empty or begins behind
\* a line.
HeadersLeave(b, p, y) ==
    /\ Moves(b, p, y)
    /\ y.ret = 0 => /\ y.at \in (p + 1)..(Len(b) + 1)
                    /\ y.headers # <<>> \/ (p > 1 /\ b[p - 1] = "LF") => BlankEnd(b, y.at - 1)

\* The loop over the lines leaves a block of headers.
LEMMA HeadersMove ==
    ASSUME NEW b \in Seq(STRING), NEW p \in 1..(Len(b) + 1)
    PROVE  HeadersLeave(b, p, Parser!parse_headers(b, p))
<1>1. PICK f : HeaderTurns(b, p, f)
  BY HeadersTurn
<1>2. PICK N \in Nat : N = MaxHeaders + 1
  BY HttpExchangeAssumption
<1>3. PICK y : y = Parser!parse_headers(b, p) /\ LinesGo(b, p, N, y) /\ y.ret # 1
  <2>1. N \in 0..N
    OBVIOUS
  <2> QED  BY <1>1, <1>2, <2>1 DEF HeaderTurns
<1> QED  BY <1>3 DEF LinesGo, HeadersLeave, Moves

\* A block of headers that is cut.
LEMMA HeadersAlike ==
    ASSUME NEW a, NEW b, NEW n, Cut(a, b, n), NEW p \in 1..(n + 1)
    PROVE  Alike(n + 1, Parser!parse_headers(a, p), Parser!parse_headers(b, p))
<1>1. /\ a \in Seq(STRING) /\ b \in Seq(STRING) /\ n \in Nat
      /\ p \in 1..(Len(a) + 1) /\ p \in 1..(Len(b) + 1)
  BY DEF Cut
<1>2. PICK f : HeaderTurns(a, p, f)
  BY <1>1, HeadersTurn
<1>3. PICK g : HeaderTurns(b, p, g)
  BY <1>1, HeadersTurn
<1>4. PICK N \in Nat : N = MaxHeaders + 1
  BY HttpExchangeAssumption
<1>5. PICK P : P = {k \in 0..N : TurnsAlike(n, f[k], g[k])}
  OBVIOUS
<1>6. 0 \in P
  BY <1>2, <1>3, <1>5 DEF HeaderTurns, TurnsAlike
<1>7. ASSUME NEW k \in 0..N, k < N, k \in P  PROVE k + 1 \in P
  <2>1. k + 1 \in 1..N /\ k + 1 \in 0..N /\ k + 1 - 1 = k /\ k \in Nat
    BY <1>7
  <2>2. f[k + 1] = Parser!HeaderLine(a, f[k]) /\ g[k + 1] = Parser!HeaderLine(b, g[k])
    BY <1>2, <1>3, <1>4, <2>1 DEF HeaderTurns
  <2>3. LinesGo(a, p, k, f[k]) /\ LinesGo(b, p, k, g[k])
    BY <1>2, <1>3, <1>4 DEF HeaderTurns
  <2>4. TurnsAlike(n, f[k], g[k])
    BY <1>5, <1>7
  <2>5. TurnsAlike(n, f[k + 1], g[k + 1])
    BY <2>1, <2>2, <2>3, <2>4, LineTurnAlike
  <2> QED  BY <1>5, <2>1, <2>5
<1>8. N \in P
  <2>1. 0 \in Nat /\ N \in 0..N
    OBVIOUS
  <2>2. \A k \in 0..N : k \in P
    BY <1>6, <1>7, <2>1, Counting
  <2> QED  BY <2>1, <2>2
<1>9. TurnsAlike(n, f[N], g[N])
  BY <1>5, <1>8
<1>10. Parser!parse_headers(a, p) = f[N] /\ Parser!parse_headers(b, p) = g[N]
  BY <1>2, <1>3, <1>4 DEF HeaderTurns
<1> QED  BY <1>9, <1>10 DEF TurnsAlike, Alike

\* A parser that comes to the end of a blank line, or returns.
Leaves(b, p, y) ==
    /\ Moves(b, p, y)
    /\ y.ret = 0 => y.at \in (p + 1)..(Len(b) + 1) /\ BlankEnd(b, y.at - 1)

\* Nothing more is asked of a parser that returns.
LEMMA ReturnsLeave ==
    ASSUME NEW b, NEW p, NEW y \in {Parser!Fail, Parser!Partial}
    PROVE  Leaves(b, p, y)
<1>1. y \in Result /\ y.ret \in {-1, -2}
  BY Results
<1> QED  BY <1>1 DEF Leaves, Moves

\* A parser that goes on behind another one, over a whole message and one that is cut.
LEMMA ChainThen ==
    ASSUME NEW b \in Seq(STRING), NEW p \in Nat, NEW n \in Nat, NEW x, NEW y, NEW X, NEW Y,
           Moves(b, p, y), y.ret = 0 => Leaves(b, y.at, Y)
    PROVE  /\ Leaves(b, p, Parser!Then(y, Y))
           /\ Alike(n, x, y) /\ (y.ret = 0 /\ x = y => Alike(n + 1, X, Y))
                => Alike(n + 1, Parser!Then(x, X), Parser!Then(y, Y))
<1>1. PICK Z : Z = Parser!Then(y, Y)
  OBVIOUS
<1>2. /\ Moves(b, p, Z)
      /\ Z.ret = 0 => y.ret = 0 /\ Z = Y /\ Moves(b, y.at, Y) /\ y.at \in Nat /\ p <= y.at
  BY <1>1, ThenMoves DEF Leaves
<1>3. Leaves(b, p, Z)
  <2>1. ASSUME Z.ret = 0  PROVE Z.at \in (p + 1)..(Len(b) + 1) /\ BlankEnd(b, Z.at - 1)
    <3>1. Leaves(b, y.at, Z) /\ y.at \in Nat /\ p <= y.at
      BY <1>2, <2>1
    <3>2. Z.at \in (y.at + 1)..(Len(b) + 1) /\ BlankEnd(b, Z.at - 1)
      BY <2>1, <3>1 DEF Leaves
    <3> QED  BY <3>1, <3>2
  <2> QED  BY <1>2, <2>1 DEF Leaves
<1>4. ASSUME Alike(n, x, y), y.ret = 0 /\ x = y => Alike(n + 1, X, Y)
      PROVE  Alike(n + 1, Parser!Then(x, X), Parser!Then(y, Y))
  <2>1. n \in Int /\ n + 1 \in Int /\ n <= n + 1
    OBVIOUS
  <2>2. ASSUME y.ret = 0, Y.ret = 0
        PROVE  y.at \in Nat /\ Y.at \in Nat /\ y.at + ((n + 1) - n) <= Y.at
    <3>1. y.at \in Nat
      BY <2>2 DEF Moves, Result
    <3>2. Y.at \in (y.at + 1)..(Len(b) + 1)
      BY <2>2 DEF Leaves
    <3> QED  BY <3>1, <3>2
  <2> QED  BY <1>4, <2>1, <2>2, ThenAlike
<1> QED  BY <1>1, <1>3, <1>4

\* Over a byte that is no CR.
LEMMA StepOver ==
    ASSUME NEW b \in Seq(STRING), NEW p \in 1..Len(b), b[p] # "CR", NEW y, Moves(b, p + 1, y)
    PROVE  Moves(b, p, y)
<1>1. NoStray(b, p, p + 1)
  <2>1. PICK k \in Nat : k = p + 1 /\ \A q \in p..(k - 1) : q = p
    OBVIOUS
  <2> QED  BY <2>1 DEF NoStray
<1>2. ASSUME y.ret = 0  PROVE p <= y.at /\ y.at <= Len(b) + 1 /\ NoStray(b, p, y.at)
  <2>1. y.at \in Nat /\ p + 1 <= y.at /\ y.at <= Len(b) + 1 /\ NoStray(b, p + 1, y.at)
    BY <1>2 DEF Moves, Result
  <2>2. p \in Nat /\ p + 1 \in Nat
    OBVIOUS
  <2> QED  BY <1>1, <2>1, <2>2, NoStrayJoins
<1> QED  BY <1>2 DEF Moves

\* The fields of a head get their method and path.
Fills(y, f, M, P) == y = [f EXCEPT !.method = M, !.path = P] \/ y = [f EXCEPT !.path = P]

\* They are still where the parser of the headers came to.
LEMMA Filling ==
    ASSUME NEW f \in Result, NEW M \in Seq(STRING), NEW P \in Seq(STRING), NEW y,
           Fills(y, f, M, P)
    PROVE  y \in Result /\ y.ret = f.ret /\ y.at = f.at
<1>1. PICK SS, SH : SS = Seq(STRING) /\ SH = Seq(Header)
  OBVIOUS
<1>2. PICK z : z = [f EXCEPT !.method = M]
  OBVIOUS
<1>3. PICK g : g = [f EXCEPT !.method = M, !.path = P]
  OBVIOUS
<1>4. g = [z EXCEPT !.path = P]
  BY <1>2, <1>3, Zenon
<1>5. f \in [ret : Int, at : Nat, method : SS, path : SS, headers : SH] /\ M \in SS /\ P \in SS
  BY <1>1 DEF Result
<1>6. /\ z \in [ret : Int, at : Nat, method : SS, path : SS, headers : SH]
      /\ z.ret = f.ret /\ z.at = f.at
  BY <1>2, <1>5
<1>7. /\ g \in [ret : Int, at : Nat, method : SS, path : SS, headers : SH]
      /\ g.ret = f.ret /\ g.at = f.at
  BY <1>4, <1>5, <1>6
<1>8. PICK h : h = [f EXCEPT !.path = P]
  OBVIOUS
<1>9. /\ h \in [ret : Int, at : Nat, method : SS, path : SS, headers : SH]
      /\ h.ret = f.ret /\ h.at = f.at
  BY <1>5, <1>8
<1> QED  BY <1>1, <1>3, <1>7, <1>8, <1>9 DEF Result, Fills

\* The fields, behind the line at p, with what the line says.
Completed(f, F) == f \in Result => F \in Result /\ F.ret = f.ret /\ F.at = f.at

\* The headers behind a line end in a blank line.
LEMMA FieldsChain ==
    ASSUME NEW b \in Seq(STRING), NEW p \in 2..(Len(b) + 1), b[p - 1] = "LF", NEW F,
           Completed(Parser!parse_headers(b, p), F)
    PROVE  Leaves(b, p, Parser!Then(Parser!parse_headers(b, p), F))
<1>1. PICK f : f = Parser!parse_headers(b, p)
  OBVIOUS
<1>2. HeadersLeave(b, p, f) /\ p \in 1..(Len(b) + 1) /\ p > 1
  BY <1>1, HeadersMove
<1>3. /\ Moves(b, p, f) /\ f \in Result
      /\ f.ret = 0 => f.at \in (p + 1)..(Len(b) + 1) /\ BlankEnd(b, f.at - 1)
  BY <1>2 DEF HeadersLeave, Moves
<1>4. F \in Result /\ F.ret = f.ret /\ F.at = f.at
  BY <1>1, <1>3 DEF Completed
<1>5. CASE f.ret # 0
  <2>1. Parser!Then(f, F) = f
    BY <1>5, Zenon DEF Parser!Then
  <2> QED  BY <1>1, <1>3, <1>5, <2>1 DEF Leaves
<1>6. CASE f.ret = 0
  <2>1. Parser!Then(f, F) = F
    BY <1>6, Zenon DEF Parser!Then
  <2> QED  BY <1>1, <1>3, <1>4, <1>6, <2>1 DEF Leaves, Moves
<1> QED  BY <1>5, <1>6

\* What is left open of the headers, and of what the line says, if they are cut.
LEMMA FieldsAlike ==
    ASSUME NEW a, NEW b, NEW n, Cut(a, b, n), NEW p \in 1..(n + 1), NEW E, NEW F,
           Completed(Parser!parse_headers(b, p), F),
           Parser!parse_headers(a, p) = Parser!parse_headers(b, p) => E = F
    PROVE  Alike(n + 1, Parser!Then(Parser!parse_headers(a, p), E),
                 Parser!Then(Parser!parse_headers(b, p), F))
<1>1. PICK e, f : e = Parser!parse_headers(a, p) /\ f = Parser!parse_headers(b, p)
  OBVIOUS
<1>2. Alike(n + 1, e, f)
  BY <1>1, HeadersAlike
<1>3. b \in Seq(STRING) /\ p \in 1..(Len(b) + 1)
  BY DEF Cut
<1>4. f \in Result
  BY <1>1, <1>3, HeadersMove DEF HeadersLeave, Moves
<1>5. CASE e = f
  BY <1>1, <1>5 DEF Alike
<1>6. CASE e.ret = -2 /\ (f.ret = 0 => f.at > n + 1)
  <2>1. e.ret # 0
    BY <1>6
  <2>2. Parser!Then(e, E).ret = -2
    BY <1>6, <2>1, Zenon DEF Parser!Then
  <2>3. F.ret = f.ret /\ F.at = f.at
    BY <1>1, <1>4 DEF Completed
  <2>4. Parser!Then(f, F) \in {f, F}
    BY DEF Parser!Then
  <2> QED  BY <1>1, <1>6, <2>2, <2>3, <2>4 DEF Alike
<1> QED  BY <1>2, <1>5, <1>6 DEF Alike

\* The parts of a request, and what follows each of them.
Requested(b, m, e, s, t, v, w, l, f) ==
    /\ m = IF b[1] \in {"CR", "LF"} THEN Parser!end_of_line(b, 1) ELSE Parser!Ok(1)
    /\ e = Parser!parse_token(b, m.at, "SP")
    /\ s = Parser!skip_spaces(b, e.at + 1)
    /\ t = Parser!advance_token(b, s.at)
    /\ v = Parser!skip_spaces(b, t.at + 1)
    /\ w = Parser!parse_http_version(b, v.at)
    /\ l = Parser!end_of_line(b, w.at)
    /\ f = Parser!parse_headers(b, l.at)
FilledRequest(b, m, e, s, t, f) ==
    [f EXCEPT !.method = SubSeq(b, m.at, e.at - 1), !.path = SubSeq(b, s.at, t.at - 1)]
AfterRequestLine(b, m, e, s, t, f) == Parser!Then(f, FilledRequest(b, m, e, s, t, f))
AfterRequestVersion(b, m, e, s, t, l, f) == Parser!Then(l, AfterRequestLine(b, m, e, s, t, f))
AfterRequestPath(b, m, e, s, t, v, w, l, f) ==
    Parser!Then(v, IF m.at = e.at \/ s.at = t.at THEN Parser!Fail
                   ELSE Parser!Then(w, AfterRequestVersion(b, m, e, s, t, l, f)))
AfterMethod(b, m, e, s, t, v, w, l, f) ==
    Parser!Then(s, Parser!Then(t, AfterRequestPath(b, m, e, s, t, v, w, l, f)))
RequestOf(b, m, e, s, t, v, w, l, f) ==
    Parser!Then(m, Parser!Then(e, AfterMethod(b, m, e, s, t, v, w, l, f)))

\* A request has these parts.
LEMMA RequestHasParts ==
    ASSUME NEW b
    PROVE  \E m, e, s, t, v, w, l, f :
             /\ Requested(b, m, e, s, t, v, w, l, f)
             /\ Parser!parse_request(b) =
                  IF Parser!Eof(b, 1) THEN Parser!Partial ELSE RequestOf(b, m, e, s, t, v, w, l, f)
<1> DEFINE m == IF b[1] \in {"CR", "LF"} THEN Parser!end_of_line(b, 1) ELSE Parser!Ok(1)
<1> DEFINE e == Parser!parse_token(b, m.at, "SP")
<1> DEFINE s == Parser!skip_spaces(b, e.at + 1)
<1> DEFINE t == Parser!advance_token(b, s.at)
<1> DEFINE v == Parser!skip_spaces(b, t.at + 1)
<1> DEFINE w == Parser!parse_http_version(b, v.at)
<1> DEFINE l == Parser!end_of_line(b, w.at)
<1> DEFINE f == Parser!parse_headers(b, l.at)
<1>1. Requested(b, m, e, s, t, v, w, l, f)
  BY Zenon DEF Requested
<1>2. Parser!parse_request(b) =
        IF Parser!Eof(b, 1) THEN Parser!Partial ELSE RequestOf(b, m, e, s, t, v, w, l, f)
  BY Zenon DEF Parser!parse_request, RequestOf, AfterMethod, AfterRequestPath,
               AfterRequestVersion, AfterRequestLine, FilledRequest
<1> HIDE DEF m, e, s, t, v, w, l, f
<1> QED  BY <1>1, <1>2, Zenon

\* Where each part of a request comes to.
At(b, y, q) == y.ret = 0 => y.at \in q..Len(b)

\* Each part begins where the one before it ends.
LEMMA RequestParts ==
    ASSUME NEW b \in Seq(STRING), Len(b) > 0, NEW m, NEW e, NEW s, NEW t, NEW v, NEW w, NEW l,
           NEW f, Requested(b, m, e, s, t, v, w, l, f)
    PROVE  /\ Moves(b, 1, m)
           /\ m.ret = 0 => Moves(b, m.at, e) /\ At(b, e, 1)
           /\ m.ret = 0 /\ e.ret = 0 => Moves(b, e.at, s) /\ At(b, s, 1)
           /\ m.ret = 0 /\ e.ret = 0 /\ s.ret = 0 => Moves(b, s.at, t) /\ At(b, t, 1)
           /\ m.ret = 0 /\ e.ret = 0 /\ s.ret = 0 /\ t.ret = 0 => Moves(b, t.at, v) /\
               At(b, v, 1)
           /\ m.ret = 0 /\ e.ret = 0 /\ s.ret = 0 /\ t.ret = 0 /\ v.ret = 0 =>
                Moves(b, v.at, w) /\ At(b, w, 1)
           /\ m.ret = 0 /\ e.ret = 0 /\ s.ret = 0 /\ t.ret = 0 /\ v.ret = 0 /\ w.ret = 0 =>
                /\ Moves(b, w.at, l)
                /\ l.ret = 0 => l.at \in 2..(Len(b) + 1) /\ b[l.at - 1] = "LF"
<1>1. /\ m = IF b[1] \in {"CR", "LF"} THEN Parser!end_of_line(b, 1) ELSE Parser!Ok(1)
      /\ e = Parser!parse_token(b, m.at, "SP")
      /\ s = Parser!skip_spaces(b, e.at + 1)
      /\ t = Parser!advance_token(b, s.at)
      /\ v = Parser!skip_spaces(b, t.at + 1)
      /\ w = Parser!parse_http_version(b, v.at)
      /\ l = Parser!end_of_line(b, w.at)
  BY Zenon DEF Requested
<1>2. Moves(b, 1, m)
  <2>1. CASE b[1] \in {"CR", "LF"}
    <3>1. 1 \in 1..Len(b)
      OBVIOUS
    <3> QED  BY Zenon, <1>1, <2>1, <3>1, LineMoves
  <2>2. CASE ~(b[1] \in {"CR", "LF"})
    <3>1. m = Parser!Ok(1)
      BY Zenon, <1>1, <2>2
    <3>2. m \in Result /\ m.ret = 0 /\ m.at = 1
      BY <3>1, Results
    <3>3. NoStray(b, 1, 1)
      BY DEF NoStray
    <3> QED  BY <3>2, <3>3 DEF Moves
  <2> QED  BY <2>1, <2>2
<1>3. ASSUME m.ret = 0  PROVE Moves(b, m.at, e) /\ At(b, e, 1) /\ (e.ret = 0 => b[e.at] = "SP")
  <2>1. m.at \in 1..(Len(b) + 1)
    BY <1>2, <1>3 DEF Moves, Result
  <2>2. ScanMoves(b, m.at, {"SP"}, e)
    BY Zenon, <1>1, <2>1, SearchesMove
  <2>3. e.ret = 0 => e.at \in 1..Len(b)
    BY <2>1, <2>2 DEF ScanMoves, Moves, Result
  <2> QED  BY <2>2, <2>3 DEF ScanMoves, At
<1>4. ASSUME m.ret = 0, e.ret = 0  PROVE Moves(b, e.at, s) /\ At(b, s, 1)
  <2>1. PICK p \in 1..Len(b) : p = e.at /\ b[p] = "SP" /\ p + 1 \in 1..(Len(b) + 1)
    BY <1>3, <1>4 DEF At
  <2>2. ScanMoves(b, p + 1, STRING \ {"SP"}, s)
    BY Zenon, <1>1, <2>1, SearchesMove
  <2>3. Moves(b, p + 1, s)
    BY <2>2 DEF ScanMoves
  <2>4. b[p] # "CR"
    BY <2>1
  <2>5. Moves(b, p, s)
    BY <2>3, <2>4, StepOver
  <2>6. s.ret = 0 => s.at \in 1..Len(b)
    BY <2>2, <2>5 DEF ScanMoves, Moves, Result
  <2> QED  BY <2>1, <2>5, <2>6 DEF At
<1>5. ASSUME m.ret = 0, e.ret = 0, s.ret = 0
      PROVE  Moves(b, s.at, t) /\ At(b, t, 1) /\ (t.ret = 0 => b[t.at] = "SP")
  <2>1. s.at \in 1..(Len(b) + 1)
    BY <1>4, <1>5 DEF At
  <2>2. ScanMoves(b, s.at, {"SP"}, t)
    BY Zenon, <1>1, <2>1, SearchesMove
  <2>3. t.ret = 0 => t.at \in 1..Len(b)
    BY <2>1, <2>2 DEF ScanMoves, Moves, Result
  <2> QED  BY <2>2, <2>3 DEF ScanMoves, At
<1>6. ASSUME m.ret = 0, e.ret = 0, s.ret = 0, t.ret = 0  PROVE Moves(b, t.at, v) /\ At(b, v, 1)
  <2>1. PICK p \in 1..Len(b) : p = t.at /\ b[p] = "SP" /\ p + 1 \in 1..(Len(b) + 1)
    BY <1>5, <1>6 DEF At
  <2>2. ScanMoves(b, p + 1, STRING \ {"SP"}, v)
    BY Zenon, <1>1, <2>1, SearchesMove
  <2>3. Moves(b, p + 1, v)
    BY <2>2 DEF ScanMoves
  <2>4. b[p] # "CR"
    BY <2>1
  <2>5. Moves(b, p, v)
    BY <2>3, <2>4, StepOver
  <2>6. v.ret = 0 => v.at \in 1..Len(b)
    BY <2>2, <2>5 DEF ScanMoves, Moves, Result
  <2> QED  BY <2>1, <2>5, <2>6 DEF At
<1>7. ASSUME m.ret = 0, e.ret = 0, s.ret = 0, t.ret = 0, v.ret = 0
      PROVE  Moves(b, v.at, w) /\ At(b, w, 1)
  <2>1. v.at \in 1..(Len(b) + 1)
    BY <1>6, <1>7 DEF At
  <2>2. Moves(b, v.at, w) /\ (w.ret = 0 => w.at <= Len(b))
    BY Zenon, <1>1, <2>1, VersionMoves
  <2>3. w.ret = 0 => w.at \in 1..Len(b)
    BY <2>1, <2>2 DEF Moves, Result
  <2> QED  BY <2>2, <2>3 DEF At
<1>8. ASSUME m.ret = 0, e.ret = 0, s.ret = 0, t.ret = 0, v.ret = 0, w.ret = 0
      PROVE  /\ Moves(b, w.at, l)
             /\ l.ret = 0 => l.at \in 2..(Len(b) + 1) /\ b[l.at - 1] = "LF"
  <2>1. PICK p \in 1..Len(b) : p = w.at
    BY <1>7, <1>8 DEF At
  <2>2. /\ Moves(b, p, l)
        /\ l.ret = 0 => (b[p] = "LF" /\ l.at = p + 1) \/ (b[p + 1] = "LF" /\ l.at = p + 2)
    BY ZenonT(60), <1>1, <2>1, LineMoves
  <2>3. ASSUME l.ret = 0  PROVE l.at \in 2..(Len(b) + 1) /\ b[l.at - 1] = "LF"
    <3>1. l.at \in Nat /\ l.at <= Len(b) + 1
      BY <2>2, <2>3 DEF Moves, Result
    <3> QED  BY <2>2, <2>3, <3>1
  <2> QED  BY <2>1, <2>2, <2>3
<1> QED  BY <1>2, <1>3, <1>4, <1>5, <1>6, <1>7, <1>8

\* What comes to a place behind k + 1 comes to one behind k.
LEMMA AlikeWeaker ==
    ASSUME NEW n \in Nat, NEW x, NEW y, Alike(n + 1, x, y), y.ret = 0 => y.at \in Nat
    PROVE  Alike(n, x, y)
  BY DEF Alike

\* What the cut leaves open in each part of a request whose parts before it are the same.
LEMMA RequestPartsAlike ==
    ASSUME NEW a, NEW b, NEW n, Cut(a, b, n), n > 0,
           NEW M, NEW E, NEW S, NEW T, NEW V, NEW W, NEW L, NEW F,
           NEW m, NEW e, NEW s, NEW t, NEW v, NEW w, NEW l, NEW f,
           Requested(a, M, E, S, T, V, W, L, F), Requested(b, m, e, s, t, v, w, l, f)
    PROVE  /\ Alike(n, M, m)
           /\ m.ret = 0 /\ M = m => Alike(n, E, e)
           /\ m.ret = 0 /\ e.ret = 0 /\ M = m /\ E = e => Alike(n, S, s)
           /\ m.ret = 0 /\ e.ret = 0 /\ s.ret = 0 /\ M = m /\ E = e /\ S = s => Alike(n, T, t)
           /\ m.ret = 0 /\ e.ret = 0 /\ s.ret = 0 /\ t.ret = 0 /\ M = m /\ E = e /\ S = s /\
               T = t =>
                Alike(n, V, v)
           /\ m.ret = 0 /\ e.ret = 0 /\ s.ret = 0 /\ t.ret = 0 /\ v.ret = 0
              /\ M = m /\ E = e /\ S = s /\ T = t /\ V = v => Alike(n, W, w)
           /\ m.ret = 0 /\ e.ret = 0 /\ s.ret = 0 /\ t.ret = 0 /\ v.ret = 0 /\ w.ret = 0
              /\ M = m /\ E = e /\ S = s /\ T = t /\ V = v /\ W = w => Alike(n, L, l)
<1>1. /\ m = IF b[1] \in {"CR", "LF"} THEN Parser!end_of_line(b, 1) ELSE Parser!Ok(1)
      /\ e = Parser!parse_token(b, m.at, "SP")
      /\ s = Parser!skip_spaces(b, e.at + 1)
      /\ t = Parser!advance_token(b, s.at)
      /\ v = Parser!skip_spaces(b, t.at + 1)
      /\ w = Parser!parse_http_version(b, v.at)
      /\ l = Parser!end_of_line(b, w.at)
  BY Zenon DEF Requested
<1>2. /\ M = IF a[1] \in {"CR", "LF"} THEN Parser!end_of_line(a, 1) ELSE Parser!Ok(1)
      /\ E = Parser!parse_token(a, M.at, "SP")
      /\ S = Parser!skip_spaces(a, E.at + 1)
      /\ T = Parser!advance_token(a, S.at)
      /\ V = Parser!skip_spaces(a, T.at + 1)
      /\ W = Parser!parse_http_version(a, V.at)
      /\ L = Parser!end_of_line(a, W.at)
  BY Zenon DEF Requested
<1>3. /\ a \in Seq(STRING) /\ b \in Seq(STRING) /\ n \in Nat /\ n <= Len(b) /\ Len(a) = n
      /\ Len(a) > 0 /\ Len(b) > 0 /\ 1 \in 1..n /\ a[1] = b[1] /\ 1 \in 1..Len(b)
  BY DEF Cut
<1>4. /\ Moves(a, 1, M)
      /\ M.ret = 0 => At(a, E, 1)
      /\ M.ret = 0 /\ E.ret = 0 => At(a, S, 1)
      /\ M.ret = 0 /\ E.ret = 0 /\ S.ret = 0 => At(a, T, 1)
      /\ M.ret = 0 /\ E.ret = 0 /\ S.ret = 0 /\ T.ret = 0 => At(a, V, 1)
      /\ M.ret = 0 /\ E.ret = 0 /\ S.ret = 0 /\ T.ret = 0 /\ V.ret = 0 => At(a, W, 1)
  BY <1>3, RequestParts
<1>5. Alike(n, M, m)
  <2>1. CASE b[1] \in {"CR", "LF"}
    <3>1. Alike(n + 1, M, m)
      BY Zenon, <1>1, <1>2, <1>3, <2>1, LineAlike
    <3>2. Moves(b, 1, m)
      BY Zenon, <1>1, <1>3, <2>1, LineMoves
    <3> QED  BY <1>3, <3>1, <3>2, AlikeWeaker DEF Moves, Result
  <2>2. CASE ~(b[1] \in {"CR", "LF"})
    BY Zenon, <1>1, <1>2, <1>3, <2>2 DEF Alike
  <2> QED  BY <2>1, <2>2
<1>6. ASSUME m.ret = 0, M = m  PROVE Alike(n, E, e)
  <2>1. PICK p \in 1..(n + 1) : p = m.at /\ p = M.at
    BY <1>3, <1>4, <1>6 DEF Moves, Result
  <2> QED  BY Zenon, <1>1, <1>2, <2>1, SearchesAlike
<1>7. ASSUME m.ret = 0, e.ret = 0, M = m, E = e  PROVE Alike(n, S, s)
  <2>1. PICK p \in 1..(n + 1) : p = e.at + 1 /\ p = E.at + 1
    BY <1>3, <1>4, <1>7 DEF At
  <2> QED  BY Zenon, <1>1, <1>2, <2>1, SearchesAlike
<1>8. ASSUME m.ret = 0, e.ret = 0, s.ret = 0, M = m, E = e, S = s  PROVE Alike(n, T, t)
  <2>1. PICK p \in 1..(n + 1) : p = s.at /\ p = S.at
    BY <1>3, <1>4, <1>8 DEF At
  <2> QED  BY Zenon, <1>1, <1>2, <2>1, SearchesAlike
<1>9. ASSUME m.ret = 0, e.ret = 0, s.ret = 0, t.ret = 0, M = m, E = e, S = s, T = t
      PROVE  Alike(n, V, v)
  <2>1. PICK p \in 1..(n + 1) : p = t.at + 1 /\ p = T.at + 1
    BY <1>3, <1>4, <1>9 DEF At
  <2> QED  BY Zenon, <1>1, <1>2, <2>1, SearchesAlike
<1>10. ASSUME m.ret = 0, e.ret = 0, s.ret = 0, t.ret = 0, v.ret = 0,
           M = m, E = e, S = s, T = t,
              V = v
       PROVE  Alike(n, W, w)
  <2>1. PICK p \in 1..(n + 1) : p = v.at /\ p = V.at
    BY <1>3, <1>4, <1>10 DEF At
  <2> QED  BY Zenon, <1>1, <1>2, <2>1, VersionAlike
<1>11. ASSUME m.ret = 0, e.ret = 0, s.ret = 0, t.ret = 0, v.ret = 0, w.ret = 0,
              M = m, E = e, S = s, T = t, V = v, W = w
       PROVE  Alike(n, L, l)
  <2>1. PICK p \in 1..n : p = w.at /\ p = W.at /\ p \in 1..Len(b)
    BY <1>3, <1>4, <1>11 DEF At
  <2>2. Alike(n + 1, L, l)
    BY Zenon, <1>1, <1>2, <2>1, LineAlike
  <2>3. Moves(b, p, l)
    <3>1. \A q \in 1..Len(b) : Moves(b, q, Parser!end_of_line(b, q))
      BY <1>3, LineMoves
    <3> QED  BY Zenon, <1>1, <2>1, <3>1
  <2> QED  BY <1>3, <2>2, <2>3, AlikeWeaker DEF Moves, Result
<1> QED  BY <1>5, <1>6, <1>7, <1>8, <1>9, <1>10, <1>11

\* A request, over a whole message and one that is cut.
Chained(a, b, n, p, same, X, Y) ==
    Leaves(b, p, Y) /\ (same => Alike(n + 1, X, Y))

\* The request line of b is there, and n bytes of b are in a.
RequestLineRead(a, b, n, M, E, S, T, V, W, L, F, m, e, s, t, v, w, l, f) ==
    /\ Cut(a, b, n) /\ n > 0
    /\ Requested(a, M, E, S, T, V, W, L, F) /\ Requested(b, m, e, s, t, v, w, l, f)
    /\ m.ret = 0 /\ e.ret = 0 /\ s.ret = 0 /\ t.ret = 0 /\ v.ret = 0 /\ w.ret = 0 /\ l.ret = 0

\* The headers of a request, over a whole message and one that is cut.
LEMMA RequestLineChain ==
    ASSUME NEW a, NEW b, NEW n,
           NEW M, NEW E, NEW S, NEW T, NEW V, NEW W, NEW L, NEW F,
           NEW m, NEW e, NEW s, NEW t, NEW v, NEW w, NEW l, NEW f,
           RequestLineRead(a, b, n, M, E, S, T, V, W, L, F, m, e, s, t, v, w, l, f)
    PROVE  /\ Leaves(b, l.at, AfterRequestLine(b, m, e, s, t, f))
           /\ M = m /\ E = e /\ S = s /\ T = t /\ V = v /\ W = w /\ L = l =>
                Alike(n + 1, AfterRequestLine(a, M, E, S, T, F), AfterRequestLine(b, m, e, s, t, f))
<1>0. /\ Cut(a, b, n) /\ n > 0
      /\ Requested(a, M, E, S, T, V, W, L, F) /\ Requested(b, m, e, s, t, v, w, l, f)
      /\ m.ret = 0 /\ e.ret = 0 /\ s.ret = 0 /\ t.ret = 0 /\ v.ret = 0 /\ w.ret = 0 /\ l.ret = 0
  BY DEF RequestLineRead
<1>1. /\ a \in Seq(STRING) /\ b \in Seq(STRING) /\ n \in Nat /\ n <= Len(b) /\ Len(a) = n
      /\ Len(a) > 0 /\ Len(b) > 0
  BY <1>0 DEF Cut
<1>2. /\ Moves(b, 1, m) /\ At(b, e, 1) /\ At(b, s, 1) /\ At(b, t, 1)
      /\ l.at \in 2..(Len(b) + 1) /\ b[l.at - 1] = "LF"
  BY <1>0, <1>1, RequestParts
<1>3. f = Parser!parse_headers(b, l.at) /\ F = Parser!parse_headers(a, L.at)
  BY <1>0, Zenon DEF Requested
<1>4. PICK A, B : A = SubSeq(b, m.at, e.at - 1) /\ B = SubSeq(b, s.at, t.at - 1)
  OBVIOUS
<1>5. m.at \in Nat /\ 1 <= m.at /\ e.at \in 1..Len(b) /\ s.at \in 1..Len(b) /\
          t.at \in 1..Len(b)
  BY <1>0, <1>2 DEF Moves, Result, At
<1>6. A \in Seq(STRING) /\ B \in Seq(STRING)
  <2>1. /\ m.at \in Int /\ e.at - 1 \in Int /\ s.at \in Int /\ t.at - 1 \in Int
        /\ \A i \in m.at..(e.at - 1) : b[i] \in STRING
        /\ \A i \in s.at..(t.at - 1) : b[i] \in STRING
    BY <1>1, <1>5, SMTT(60)
  <2> QED  BY <1>4, <2>1, SubSeqProperties
<1>7. PICK G : G = FilledRequest(b, m, e, s, t, f) /\ G = [f EXCEPT !.method = A, !.path = B]
  BY <1>4, Zenon DEF FilledRequest
<1>8. Completed(f, G)
  <2>1. ASSUME f \in Result  PROVE G \in Result /\ G.ret = f.ret /\ G.at = f.at
    <3>1. Fills(G, f, A, B)
      BY <1>7, Zenon DEF Fills
    <3> QED  BY <1>6, <2>1, <3>1, Filling
  <2> QED  BY <2>1 DEF Completed
<1>9. AfterRequestLine(b, m, e, s, t, f) = Parser!Then(f, G)
  BY <1>7, Zenon DEF AfterRequestLine
<1>10. Leaves(b, l.at, AfterRequestLine(b, m, e, s, t, f))
  BY <1>1, <1>2, <1>3, <1>8, <1>9, <1>0, FieldsChain
<1>11. ASSUME M = m, E = e, S = s, T = t, V = v, W = w, L = l
       PROVE  Alike(n + 1, AfterRequestLine(a, M, E, S, T, F), AfterRequestLine(b, m, e, s, t, f))
  <2>1. /\ At(a, E, 1) /\ At(a, T, 1) /\ L.at \in 2..(Len(a) + 1)
    BY <1>0, <1>1, <1>11, RequestParts
  <2>2. e.at \in 1..n /\ t.at \in 1..n /\ l.at \in 1..(n + 1)
    BY <1>0, <1>1, <1>11, <2>1 DEF At
  <2>3. SubSeq(a, m.at, e.at - 1) = A /\ SubSeq(a, s.at, t.at - 1) = B
    <3>1. /\ m.at \in Nat /\ 1 <= m.at /\ e.at - 1 \in Int /\ e.at - 1 <= n
          /\ s.at \in Nat /\ 1 <= s.at /\ t.at - 1 \in Int /\ t.at - 1 <= n
      BY SMTT(60), <1>1, <1>5, <2>2
    <3> QED  BY ZenonT(60), <1>0, <1>4, <3>1, CutPieces
  <2>4. PICK H : H = FilledRequest(a, M, E, S, T, F) /\ H = [F EXCEPT !.method = A, !.path = B]
    BY <1>11, <2>3, Zenon DEF FilledRequest
  <2>5. F = f => H = G
    BY <1>7, <2>4, Zenon
  <2>6. AfterRequestLine(a, M, E, S, T, F) = Parser!Then(F, H)
    BY <2>4, Zenon DEF AfterRequestLine
  <2> QED  BY <1>3, <1>8, <1>9, <1>11, <2>2, <2>5, <2>6, <1>0, FieldsAlike
<1> QED  BY <1>10, <1>11

\* The whole request, part by part, from its headers back to its method.
LEMMA RequestChain ==
    ASSUME NEW a, NEW b, NEW n, Cut(a, b, n), n > 0,
           NEW M, NEW E, NEW S, NEW T, NEW V, NEW W, NEW L, NEW F,
           NEW m, NEW e, NEW s, NEW t, NEW v, NEW w, NEW l, NEW f,
           Requested(a, M, E, S, T, V, W, L, F), Requested(b, m, e, s, t, v, w, l, f)
    PROVE  /\ Leaves(b, 1, RequestOf(b, m, e, s, t, v, w, l, f))
           /\ Alike(n + 1, RequestOf(a, M, E, S, T, V, W, L, F), RequestOf(b, m, e, s, t, v, w, l, f))
<1>1. b \in Seq(STRING) /\ n \in Nat /\ Len(b) > 0
  BY DEF Cut
<1>2. PICK Y0, X0, Y1, X1, Y2, X2, Y3, X3, Y4, X4, Y5, X5, Y6, X6, Y7, X7 :
        /\ Y0 = RequestOf(b, m, e, s, t, v, w, l, f)
        /\ X0 = RequestOf(a, M, E, S, T, V, W, L, F)
        /\ Y1 = Parser!Then(e, AfterMethod(b, m, e, s, t, v, w, l, f))
        /\ X1 = Parser!Then(E, AfterMethod(a, M, E, S, T, V, W, L, F))
        /\ Y2 = AfterMethod(b, m, e, s, t, v, w, l, f)
        /\ X2 = AfterMethod(a, M, E, S, T, V, W, L, F)
        /\ Y3 = Parser!Then(t, AfterRequestPath(b, m, e, s, t, v, w, l, f))
        /\ X3 = Parser!Then(T, AfterRequestPath(a, M, E, S, T, V, W, L, F))
        /\ Y4 = AfterRequestPath(b, m, e, s, t, v, w, l, f)
        /\ X4 = AfterRequestPath(a, M, E, S, T, V, W, L, F)
        /\ Y5 = IF m.at = e.at \/ s.at = t.at THEN Parser!Fail ELSE Parser!Then(w, AfterRequestVersion(b, m, e, s, t, l, f))
        /\ X5 = IF M.at = E.at \/ S.at = T.at THEN Parser!Fail ELSE Parser!Then(W, AfterRequestVersion(a, M, E, S, T, L, F))
        /\ Y6 = AfterRequestVersion(b, m, e, s, t, l, f)
        /\ X6 = AfterRequestVersion(a, M, E, S, T, L, F)
        /\ Y7 = AfterRequestLine(b, m, e, s, t, f)
        /\ X7 = AfterRequestLine(a, M, E, S, T, F)
  OBVIOUS
<1>3. /\ Y0 = Parser!Then(m, Y1) /\ X0 = Parser!Then(M, X1)
      /\ Y1 = Parser!Then(e, Y2) /\ X1 = Parser!Then(E, X2)
      /\ Y2 = Parser!Then(s, Y3) /\ X2 = Parser!Then(S, X3)
      /\ Y3 = Parser!Then(t, Y4) /\ X3 = Parser!Then(T, X4)
      /\ Y4 = Parser!Then(v, Y5) /\ X4 = Parser!Then(V, X5)
      /\ Y6 = Parser!Then(l, Y7) /\ X6 = Parser!Then(L, X7)
      /\ Y5 = (IF m.at = e.at \/ s.at = t.at THEN Parser!Fail ELSE Parser!Then(w, Y6))
      /\ X5 = (IF M.at = E.at \/ S.at = T.at THEN Parser!Fail ELSE Parser!Then(W, X6))
  BY <1>2, Zenon DEF RequestOf, AfterMethod, AfterRequestPath, AfterRequestVersion
<1>4. /\ Moves(b, 1, m)
      /\ m.ret = 0 => Moves(b, m.at, e)
      /\ m.ret = 0 /\ e.ret = 0 => Moves(b, e.at, s)
      /\ m.ret = 0 /\ e.ret = 0 /\ s.ret = 0 => Moves(b, s.at, t)
      /\ m.ret = 0 /\ e.ret = 0 /\ s.ret = 0 /\ t.ret = 0 => Moves(b, t.at, v)
      /\ m.ret = 0 /\ e.ret = 0 /\ s.ret = 0 /\ t.ret = 0 /\ v.ret = 0 => Moves(b, v.at, w)
      /\ m.ret = 0 /\ e.ret = 0 /\ s.ret = 0 /\ t.ret = 0 /\ v.ret = 0 /\ w.ret = 0 =>
           Moves(b, w.at, l)
  BY <1>1, RequestParts
<1>5. ASSUME m.ret = 0, e.ret = 0, s.ret = 0, t.ret = 0, v.ret = 0, w.ret = 0, l.ret = 0
      PROVE  Chained(a, b, n, l.at, M = m /\ E = e /\ S = s /\ T = t /\ V = v /\ W = w /\ L = l, X7, Y7)
  <2>0. RequestLineRead(a, b, n, M, E, S, T, V, W, L, F, m, e, s, t, v, w, l, f)
    BY <1>5 DEF RequestLineRead
  <2>1. Leaves(b, l.at, AfterRequestLine(b, m, e, s, t, f))
    BY <2>0, RequestLineChain, Zenon
  <2>2. M = m /\ E = e /\ S = s /\ T = t /\ V = v /\ W = w /\ L = l =>
          Alike(n + 1, AfterRequestLine(a, M, E, S, T, F), AfterRequestLine(b, m, e, s, t, f))
    BY ZenonT(60), <2>0, RequestLineChain
  <2> QED  BY <1>2, <2>1, <2>2 DEF Chained
<1>6. ASSUME m.ret = 0, e.ret = 0, s.ret = 0, t.ret = 0, v.ret = 0, w.ret = 0
      PROVE  Chained(a, b, n, w.at, M = m /\ E = e /\ S = s /\ T = t /\ V = v /\ W = w, X6, Y6)
  <2>1. Moves(b, w.at, l) /\ w.at \in Nat
    BY <1>4, <1>6 DEF Moves, Result
  <2>2. l.ret = 0 => Leaves(b, l.at, Y7)
    BY <1>5, <1>6 DEF Chained
  <2>3. ASSUME M = m, E = e, S = s, T = t, V = v, W = w
        PROVE  Alike(n, L, l) /\ (l.ret = 0 /\ L = l => Alike(n + 1, X7, Y7))
    <3>1. Alike(n, L, l)
      BY <1>6, <2>3, RequestPartsAlike
    <3> QED  BY <1>5, <1>6, <2>3, <3>1 DEF Chained
  <2>4. Leaves(b, w.at, Y6) /\
            (M = m /\ E = e /\ S = s /\ T = t /\ V = v /\ W = w => Alike(n + 1, X6, Y6))
    BY <1>1, <1>3, <2>1, <2>2, <2>3, ChainThen
  <2> QED  BY <2>4 DEF Chained
<1>7. ASSUME m.ret = 0, e.ret = 0, s.ret = 0, t.ret = 0, v.ret = 0
      PROVE  Chained(a, b, n, v.at, M = m /\ E = e /\ S = s /\ T = t /\ V = v, X5, Y5)
  <2>1. Moves(b, v.at, w) /\ v.at \in Nat
    BY <1>4, <1>7 DEF Moves, Result
  <2>2. w.ret = 0 => Leaves(b, w.at, Y6)
    BY <1>6, <1>7 DEF Chained
  <2>3. ASSUME M = m, E = e, S = s, T = t, V = v
        PROVE  Alike(n, W, w) /\ (w.ret = 0 /\ W = w => Alike(n + 1, X6, Y6))
    <3>1. Alike(n, W, w)
      BY <1>7, <2>3, RequestPartsAlike
    <3> QED  BY <1>6, <1>7, <2>3, <3>1 DEF Chained
  <2>4. PICK X, Y : X = Parser!Then(W, X6) /\ Y = Parser!Then(w, Y6)
    OBVIOUS
  <2>5. Leaves(b, v.at, Y) /\ (M = m /\ E = e /\ S = s /\ T = t /\ V = v => Alike(n + 1, X, Y))
    BY <1>1, <2>1, <2>2, <2>3, <2>4, ChainThen
  <2>6. CASE m.at = e.at \/ s.at = t.at
    <3>1. Y5 = Parser!Fail
      BY <1>3, <2>6, Zenon
    <3>2. M = m /\ E = e /\ S = s /\ T = t /\ V = v => X5 = Parser!Fail
      BY <1>3, <2>6, Zenon
    <3> QED  BY <3>1, <3>2, ReturnsLeave DEF Chained, Alike
  <2>7. CASE ~(m.at = e.at \/ s.at = t.at)
    <3>1. Y5 = Y
      BY <1>3, <2>4, <2>7, ZenonT(60)
    <3>2. M = m /\ E = e /\ S = s /\ T = t /\ V = v => X5 = X
      BY <1>3, <2>4, <2>7, Zenon
    <3> QED  BY <2>5, <3>1, <3>2 DEF Chained
  <2> QED  BY <2>6, <2>7
<1>8. ASSUME m.ret = 0, e.ret = 0, s.ret = 0, t.ret = 0
      PROVE  Chained(a, b, n, t.at, M = m /\ E = e /\ S = s /\ T = t, X4, Y4)
  <2>1. Moves(b, t.at, v) /\ t.at \in Nat
    BY <1>4, <1>8 DEF Moves, Result
  <2>2. v.ret = 0 => Leaves(b, v.at, Y5)
    BY <1>7, <1>8 DEF Chained
  <2>3. ASSUME M = m, E = e, S = s, T = t
        PROVE  Alike(n, V, v) /\ (v.ret = 0 /\ V = v => Alike(n + 1, X5, Y5))
    <3>1. Alike(n, V, v)
      BY <1>8, <2>3, RequestPartsAlike
    <3> QED  BY <1>7, <1>8, <2>3, <3>1 DEF Chained
  <2>4. Leaves(b, t.at, Y4) /\ (M = m /\ E = e /\ S = s /\ T = t => Alike(n + 1, X4, Y4))
    BY <1>1, <1>3, <2>1, <2>2, <2>3, ChainThen
  <2> QED  BY <2>4 DEF Chained
<1>9. ASSUME m.ret = 0, e.ret = 0, s.ret = 0
      PROVE  Chained(a, b, n, s.at, M = m /\ E = e /\ S = s, X3, Y3)
  <2>1. Moves(b, s.at, t) /\ s.at \in Nat
    BY <1>4, <1>9 DEF Moves, Result
  <2>2. t.ret = 0 => Leaves(b, t.at, Y4)
    BY SMTT(60), <1>8, <1>9 DEF Chained
  <2>3. ASSUME M = m, E = e, S = s
        PROVE  Alike(n, T, t) /\ (t.ret = 0 /\ T = t => Alike(n + 1, X4, Y4))
    <3>1. Alike(n, T, t)
      BY <1>9, <2>3, RequestPartsAlike
    <3> QED  BY SMTT(60), <1>8, <1>9, <2>3, <3>1 DEF Chained
  <2>4. Leaves(b, s.at, Y3) /\ (M = m /\ E = e /\ S = s => Alike(n + 1, X3, Y3))
    BY <1>1, <1>3, <2>1, <2>2, <2>3, ChainThen
  <2> QED  BY <2>4 DEF Chained
<1>10. ASSUME m.ret = 0, e.ret = 0
      PROVE  Chained(a, b, n, e.at, M = m /\ E = e, X2, Y2)
  <2>1. Moves(b, e.at, s) /\ e.at \in Nat
    BY <1>4, <1>10 DEF Moves, Result
  <2>2. s.ret = 0 => Leaves(b, s.at, Y3)
    BY <1>9, <1>10 DEF Chained
  <2>3. ASSUME M = m, E = e
        PROVE  Alike(n, S, s) /\ (s.ret = 0 /\ S = s => Alike(n + 1, X3, Y3))
    <3>1. Alike(n, S, s)
      BY <1>10, <2>3, RequestPartsAlike
    <3> QED  BY <1>9, <1>10, <2>3, <3>1 DEF Chained
  <2>4. Leaves(b, e.at, Y2) /\ (M = m /\ E = e => Alike(n + 1, X2, Y2))
    BY <1>1, <1>3, <2>1, <2>2, <2>3, ChainThen
  <2> QED  BY <2>4 DEF Chained
<1>11. ASSUME m.ret = 0
      PROVE  Chained(a, b, n, m.at, M = m, X1, Y1)
  <2>1. Moves(b, m.at, e) /\ m.at \in Nat
    BY <1>4, <1>11 DEF Moves, Result
  <2>2. e.ret = 0 => Leaves(b, e.at, Y2)
    BY <1>10, <1>11 DEF Chained
  <2>3. ASSUME M = m
        PROVE  Alike(n, E, e) /\ (e.ret = 0 /\ E = e => Alike(n + 1, X2, Y2))
    <3>1. Alike(n, E, e)
      BY <1>11, <2>3, RequestPartsAlike
    <3> QED  BY <1>10, <1>11, <2>3, <3>1 DEF Chained
  <2>4. Leaves(b, m.at, Y1) /\ (M = m => Alike(n + 1, X1, Y1))
    BY <1>1, <1>3, <2>1, <2>2, <2>3, ChainThen
  <2> QED  BY <2>4 DEF Chained
<1>12. Leaves(b, 1, Y0) /\ Alike(n + 1, X0, Y0)
  <2>1. m.ret = 0 => Leaves(b, m.at, Y1)
    BY <1>11 DEF Chained
  <2>2. Alike(n, M, m)
    BY RequestPartsAlike
  <2>3. m.ret = 0 /\ M = m => Alike(n + 1, X1, Y1)
    BY <1>11 DEF Chained
  <2>4. 1 \in Nat
    OBVIOUS
  <2> QED  BY <1>1, <1>3, <1>4, <2>1, <2>2, <2>3, <2>4, ChainThen
<1> QED  BY <1>2, <1>12

\* What a request leaves.
LEMMA RequestLeaves ==
    ASSUME NEW b \in Seq(STRING)
    PROVE  Leaves(b, 1, Parser!parse_request(b))
<1>1. PICK m, e, s, t, v, w, l, f :
        /\ Requested(b, m, e, s, t, v, w, l, f)
        /\ Parser!parse_request(b) =
             IF Parser!Eof(b, 1) THEN Parser!Partial ELSE RequestOf(b, m, e, s, t, v, w, l, f)
  BY RequestHasParts
<1>2. CASE Parser!Eof(b, 1)
  <2>1. Parser!parse_request(b) = Parser!Partial
    BY <1>1, <1>2
  <2> QED  BY <2>1, ReturnsLeave
<1>3. CASE ~Parser!Eof(b, 1)
  <2>1. PICK n \in Nat : n = Len(b) /\ n > 0 /\ Cut(b, b, n)
    BY <1>3 DEF Parser!Eof, Cut
  <2>2. Parser!parse_request(b) = RequestOf(b, m, e, s, t, v, w, l, f)
    BY <1>1, <1>3
  <2> QED  BY <1>1, <2>1, <2>2, RequestChain
<1> QED  BY <1>2, <1>3

\* What is left open when a request is cut.
LEMMA RequestAlike ==
    ASSUME NEW a, NEW b, NEW n, Cut(a, b, n)
    PROVE  Alike(n + 1, Parser!parse_request(a), Parser!parse_request(b))
<1>1. PICK M, E, S, T, V, W, L, F :
        /\ Requested(a, M, E, S, T, V, W, L, F)
        /\ Parser!parse_request(a) =
             IF Parser!Eof(a, 1) THEN Parser!Partial ELSE RequestOf(a, M, E, S, T, V, W, L, F)
  BY RequestHasParts
<1>2. PICK m, e, s, t, v, w, l, f :
        /\ Requested(b, m, e, s, t, v, w, l, f)
        /\ Parser!parse_request(b) =
             IF Parser!Eof(b, 1) THEN Parser!Partial ELSE RequestOf(b, m, e, s, t, v, w, l, f)
  BY RequestHasParts
<1>3. b \in Seq(STRING) /\ n \in Nat /\ n <= Len(b) /\ Len(a) = n
  BY DEF Cut
<1>4. CASE n = 0
  <2>1. Parser!parse_request(a) = Parser!Partial
    BY <1>1, <1>3, <1>4 DEF Parser!Eof
  <2>2. PICK y : y = Parser!parse_request(b) /\ Leaves(b, 1, y)
    BY <1>3, RequestLeaves
  <2>3. y.ret = 0 => y.at > n + 1
    BY <1>3, <1>4, <2>2 DEF Leaves
  <2> QED  BY <2>1, <2>2, <2>3, Results DEF Alike
<1>5. CASE n > 0
  <2>1. ~Parser!Eof(a, 1) /\ ~Parser!Eof(b, 1)
    BY <1>3, <1>5 DEF Parser!Eof
  <2>2. /\ Parser!parse_request(a) = RequestOf(a, M, E, S, T, V, W, L, F)
        /\ Parser!parse_request(b) = RequestOf(b, m, e, s, t, v, w, l, f)
    BY <1>1, <1>2, <2>1
  <2> QED  BY <1>1, <1>2, <1>5, <2>2, RequestChain
<1> QED  BY <1>3, <1>4, <1>5

\* The parts of a response, and what follows each of them.
Responded(b, w, s, c, t, f) ==
    /\ w = Parser!parse_http_version(b, 1)
    /\ s = Parser!skip_spaces(b, w.at + 1)
    /\ c = Parser!parse_status(b, s.at)
    /\ t = Parser!get_token_to_eol(b, c.at)
    /\ f = Parser!parse_headers(b, t.r.at)
Reason(t) == SubSeq(t.token, Parser!Skip(t.token, 1, {"SP"}), Len(t.token))
AfterText(t, f) ==
    IF t.token # <<>> /\ Head(t.token) # "SP" THEN Parser!Fail
    ELSE Parser!Then(f, [f EXCEPT !.path = Reason(t)])
AfterVersion(b, w, s, c, t, f) ==
    IF b[w.at] # "SP" THEN Parser!Fail
    ELSE Parser!Then(s, Parser!Then(c, Parser!Then(t.r, AfterText(t, f))))

\* A response has these parts.
LEMMA ResponseHasParts ==
    ASSUME NEW b
    PROVE  \E w, s, c, t, f :
             /\ Responded(b, w, s, c, t, f)
             /\ Parser!parse_response(b) = Parser!Then(w, AfterVersion(b, w, s, c, t, f))
<1>1. PICK w : w = Parser!parse_http_version(b, 1)
  OBVIOUS
<1>2. PICK s : s = Parser!skip_spaces(b, w.at + 1)
  OBVIOUS
<1>3. PICK c : c = Parser!parse_status(b, s.at)
  OBVIOUS
<1>4. PICK t : t = Parser!get_token_to_eol(b, c.at)
  OBVIOUS
<1>5. PICK f : f = Parser!parse_headers(b, t.r.at)
  OBVIOUS
<1>6. Responded(b, w, s, c, t, f)
  BY <1>1, <1>2, <1>3, <1>4, <1>5, Zenon DEF Responded
<1>7. Parser!parse_response(b) = Parser!Then(w, AfterVersion(b, w, s, c, t, f))
  BY <1>1, <1>2, <1>3, <1>4, <1>5, Zenon
     DEF Parser!parse_response, AfterVersion, AfterText, Reason
<1> QED  BY <1>6, <1>7

\* Where each part of a response comes to.
LEMMA ResponseParts ==
    ASSUME NEW b \in Seq(STRING), NEW w, NEW s, NEW c, NEW t,
        NEW f, Responded(b, w, s, c, t, f)
    PROVE  /\ Moves(b, 1, w) /\ At(b, w, 1)
           /\ w.ret = 0 /\ b[w.at] = "SP" => Moves(b, w.at, s) /\ At(b, s, 1)
           /\ w.ret = 0 /\ b[w.at] = "SP" /\ s.ret = 0 => Moves(b, s.at, c) /\ At(b, c, 1)
           /\ w.ret = 0 /\ b[w.at] = "SP" /\ s.ret = 0 /\ c.ret = 0 =>
                /\ Moves(b, c.at, t.r) /\ t.token \in Seq(STRING)
                /\ t.r.ret = 0 => t.r.at \in 2..(Len(b) + 1) /\ b[t.r.at - 1] = "LF"
<1>1. /\ w = Parser!parse_http_version(b, 1)
      /\ s = Parser!skip_spaces(b, w.at + 1)
      /\ c = Parser!parse_status(b, s.at)
      /\ t = Parser!get_token_to_eol(b, c.at)
  BY DEF Responded
<1>2. Moves(b, 1, w) /\ At(b, w, 1)
  <2>1. 1 \in 1..(Len(b) + 1)
    OBVIOUS
  <2>2. Moves(b, 1, w) /\ (w.ret = 0 => w.at <= Len(b))
    BY <1>1, <2>1, VersionMoves
  <2>3. w.ret = 0 => w.at \in 1..Len(b)
    BY <2>2 DEF Moves, Result
  <2> QED  BY <2>2, <2>3 DEF At
<1>3. ASSUME w.ret = 0, b[w.at] = "SP"  PROVE Moves(b, w.at, s) /\ At(b, s, 1)
  <2>1. PICK p \in 1..Len(b) : p = w.at /\ b[p] = "SP" /\ p + 1 \in 1..(Len(b) + 1)
    BY <1>2, <1>3 DEF At
  <2>2. ScanMoves(b, p + 1, STRING \ {"SP"}, s)
    BY <1>1, <2>1, SearchesMove
  <2>3. Moves(b, p + 1, s)
    BY <2>2 DEF ScanMoves
  <2>4. b[p] # "CR"
    BY <2>1
  <2>5. Moves(b, p, s)
    BY <2>3, <2>4, StepOver
  <2>6. s.ret = 0 => s.at \in 1..Len(b)
    BY <2>2, <2>5 DEF ScanMoves, Moves, Result
  <2> QED  BY <2>1, <2>5, <2>6 DEF At
<1>4. ASSUME w.ret = 0, b[w.at] = "SP", s.ret = 0  PROVE Moves(b, s.at, c) /\ At(b, c, 1)
  <2>1. s.at \in 1..(Len(b) + 1)
    BY <1>3, <1>4 DEF At
  <2>2. Moves(b, s.at, c) /\ (c.ret = 0 => c.at <= Len(b))
    BY <1>1, <2>1, StatusMoves
  <2>3. c.ret = 0 => c.at \in 1..Len(b)
    BY <2>1, <2>2 DEF Moves, Result
  <2> QED  BY <2>2, <2>3 DEF At
<1>5. ASSUME w.ret = 0, b[w.at] = "SP", s.ret = 0, c.ret = 0
      PROVE  /\ Moves(b, c.at, t.r) /\ t.token \in Seq(STRING)
             /\ t.r.ret = 0 => t.r.at \in 2..(Len(b) + 1) /\ b[t.r.at - 1] = "LF"
  <2>1. PICK p \in 1..(Len(b) + 1) : p = c.at
    BY <1>4, <1>5 DEF At
  <2>2. RestMoves(b, p, t)
    BY <1>1, <2>1, RestOfLineMoves
  <2>3. Moves(b, p, t.r) /\ (t.r.ret = 0 => p < t.r.at /\ b[t.r.at - 1] = "LF")
    BY <2>2 DEF RestMoves
  <2>4. t.r.ret = 0 => t.r.at \in 2..(Len(b) + 1)
    BY <2>3 DEF Moves, Result
  <2> QED  BY <2>1, <2>2, <2>3, <2>4 DEF RestMoves
<1> QED  BY <1>2, <1>3, <1>4, <1>5

\* The fields of a response.
LEMMA TextChain ==
    ASSUME NEW a, NEW b, NEW n, Cut(a, b, n),
           NEW W, NEW S, NEW C, NEW T, NEW F, NEW w, NEW s, NEW c, NEW t, NEW f,
           Responded(a, W, S, C, T, F), Responded(b, w, s, c, t, f),
           w.ret = 0, b[w.at] = "SP", s.ret = 0, c.ret = 0, t.r.ret = 0
    PROVE  /\ Leaves(b, t.r.at, AfterText(t, f))
           /\ T = t /\ t.r.at <= n + 1 => Alike(n + 1, AfterText(T, F), AfterText(t, f))
<1>1. b \in Seq(STRING) /\ n \in Nat /\ n <= Len(b)
  BY SMTT(60) DEF Cut
<1>2. t.token \in Seq(STRING) /\ t.r.at \in 2..(Len(b) + 1) /\ b[t.r.at - 1] = "LF"
  BY SMTT(60), <1>1, ResponseParts
<1>3. f = Parser!parse_headers(b, t.r.at) /\ F = Parser!parse_headers(a, T.r.at)
  BY DEF Responded
<1>4. Reason(t) \in Seq(STRING)
  <2>1. PICK x \in Seq(STRING) : x = t.token
    BY <1>2
  <2>2. 1 \in 1..(Len(x) + 1)
    OBVIOUS
  <2>3. PICK q : q = Parser!Skip(x, 1, {"SP"}) /\ First(x, 1, STRING \ {"SP"}, q)
    BY <2>2, SkipIsFind, FindIsFirst
  <2>4. q \in Int /\ Len(x) \in Int /\ \A i \in q..Len(x) : x[i] \in STRING
    BY <2>3 DEF First
  <2> QED  BY <2>1, <2>3, <2>4, SubSeqProperties DEF Reason
<1>5. PICK G : G = [f EXCEPT !.path = Reason(t)]
  OBVIOUS
<1>6. Completed(f, G)
  <2>1. ASSUME f \in Result  PROVE G \in Result /\ G.ret = f.ret /\ G.at = f.at
    <3>1. Fills(G, f, Reason(t), Reason(t))
      BY <1>5, Zenon DEF Fills
    <3> QED  BY <1>4, <2>1, <3>1, Filling
  <2> QED  BY <2>1 DEF Completed
<1>7. CASE t.token # <<>> /\ Head(t.token) # "SP"
  <2>1. AfterText(t, f) = Parser!Fail /\ (T = t => AfterText(T, F) = Parser!Fail)
    BY <1>7, Zenon DEF AfterText
  <2> QED  BY <2>1, ReturnsLeave DEF Alike
<1>8. CASE ~(t.token # <<>> /\ Head(t.token) # "SP")
  <2>1. AfterText(t, f) = Parser!Then(f, G)
    BY <1>5, <1>8, Zenon DEF AfterText
  <2>2. Leaves(b, t.r.at, AfterText(t, f))
    BY <1>1, <1>2, <1>3, <1>6, <2>1, FieldsChain
  <2>3. ASSUME T = t, t.r.at <= n + 1  PROVE Alike(n + 1, AfterText(T, F), AfterText(t, f))
    <3>1. PICK H : H = [F EXCEPT !.path = Reason(t)]
      OBVIOUS
    <3>2. AfterText(T, F) = Parser!Then(F, H)
      BY <1>8, <2>3, <3>1, Zenon DEF AfterText
    <3>3. F = f => H = G
      BY <1>5, <3>1, Zenon
    <3>4. t.r.at \in 1..(n + 1)
      BY <1>1, <1>2, <2>3
    <3> QED  BY <1>3, <1>6, <2>1, <2>3, <3>2, <3>3, <3>4, FieldsAlike
  <2> QED  BY <2>2, <2>3
<1> QED  BY <1>7, <1>8

\* A response, over a whole message and one that is cut.
LEMMA ResponseChain ==
    ASSUME NEW a, NEW b, NEW n, Cut(a, b, n),
           NEW W, NEW S, NEW C, NEW T, NEW F, NEW w, NEW s, NEW c, NEW t, NEW f,
           Responded(a, W, S, C, T, F), Responded(b, w, s, c, t, f)
    PROVE  /\ Leaves(b, 1, Parser!Then(w, AfterVersion(b, w, s, c, t, f)))
           /\ Alike(n + 1, Parser!Then(W, AfterVersion(a, W, S, C, T, F)),
                    Parser!Then(w, AfterVersion(b, w, s, c, t, f)))
<1>1. /\ a \in Seq(STRING) /\ b \in Seq(STRING) /\ n \in Nat /\ n <= Len(b) /\ Len(a) = n
      /\ 1 \in 1..(n + 1) /\ \A i \in 1..n : a[i] = b[i]
  BY DEF Cut
<1>2. /\ Moves(b, 1, w) /\ At(b, w, 1)
      /\ w.ret = 0 /\ b[w.at] = "SP" => Moves(b, w.at, s) /\ At(b, s, 1)
      /\ w.ret = 0 /\ b[w.at] = "SP" /\ s.ret = 0 => Moves(b, s.at, c) /\ At(b, c, 1)
      /\ w.ret = 0 /\ b[w.at] = "SP" /\ s.ret = 0 /\ c.ret = 0 => Moves(b, c.at, t.r)
  BY <1>1, ResponseParts
<1>3. /\ At(a, W, 1)
      /\ W.ret = 0 /\ a[W.at] = "SP" => At(a, S, 1)
      /\ W.ret = 0 /\ a[W.at] = "SP" /\ S.ret = 0 => At(a, C, 1)
      /\ W.ret = 0 /\ a[W.at] = "SP" /\ S.ret = 0 /\ C.ret = 0 /\ T.r.ret = 0 =>
           T.r.at \in 2..(Len(a) + 1)
  BY <1>1, ResponseParts
<1>4. /\ w = Parser!parse_http_version(b, 1) /\ W = Parser!parse_http_version(a, 1)
      /\ s = Parser!skip_spaces(b, w.at + 1) /\ S = Parser!skip_spaces(a, W.at + 1)
      /\ c = Parser!parse_status(b, s.at) /\ C = Parser!parse_status(a, S.at)
      /\ t = Parser!get_token_to_eol(b, c.at) /\ T = Parser!get_token_to_eol(a, C.at)
  BY DEF Responded
<1>5. w.ret = 0 /\ W = w => w.at \in 1..n /\ a[w.at] = b[w.at]
  BY <1>1, <1>3 DEF At
<1>6. ASSUME w.ret = 0, b[w.at] = "SP", s.ret = 0, c.ret = 0
      PROVE  LET Y == Parser!Then(t.r, AfterText(t, f))
                 X == Parser!Then(T.r, AfterText(T, F))
             IN  Leaves(b, c.at, Y) /\ (W = w /\ S = s /\ C = c => Alike(n + 1, X, Y))
  <2>1. Moves(b, c.at, t.r) /\ c.at \in Nat
    BY <1>2, <1>6 DEF At, Moves, Result
  <2>2. t.r.ret = 0 => Leaves(b, t.r.at, AfterText(t, f))
    BY <1>6, TextChain
  <2>3. ASSUME W = w, S = s, C = c
        PROVE  /\ Alike(n, T.r, t.r)
               /\ t.r.ret = 0 /\ T.r = t.r => Alike(n + 1, AfterText(T, F), AfterText(t, f))
    <3>1. PICK p \in 1..(n + 1) : p = c.at
      BY <1>1, <1>3, <1>5, <1>6, <2>3 DEF At
    <3>2. T = t \/ (T.r.ret = -2 /\ (t.r.ret = 0 => t.r.at > n + 1))
      BY <1>4, <2>3, <3>1, RestOfLineAlike
    <3>3. t.r.ret = 0 => t.r.at \in Nat
      BY <2>1 DEF Moves, Result
    <3>4. Alike(n, T.r, t.r)
      BY <1>1, <3>2, <3>3 DEF Alike
    <3>5. ASSUME t.r.ret = 0, T.r = t.r
          PROVE  Alike(n + 1, AfterText(T, F), AfterText(t, f))
      <4>1. T = t
        BY <3>2, <3>5
      <4>2. t.r.at <= n + 1
        BY <1>1, <1>3, <1>5, <1>6, <2>3, <3>5, <4>1
      <4> QED  BY <1>6, <3>5, <4>1, <4>2, TextChain
    <3> QED  BY <3>4, <3>5
  <2> QED  BY <1>1, <2>1, <2>2, <2>3, ChainThen
<1>7. ASSUME w.ret = 0, b[w.at] = "SP", s.ret = 0
      PROVE  LET Y == Parser!Then(c, Parser!Then(t.r, AfterText(t, f)))
                 X == Parser!Then(C, Parser!Then(T.r, AfterText(T, F)))
             IN  Leaves(b, s.at, Y) /\ (W = w /\ S = s => Alike(n + 1, X, Y))
  <2>1. Moves(b, s.at, c) /\ s.at \in Nat
    BY <1>2, <1>7 DEF At, Moves, Result
  <2>2. ASSUME W = w, S = s  PROVE Alike(n, C, c)
    <3>1. s.at \in 1..(n + 1)
      BY <1>1, <1>3, <1>5, <1>7, <2>2 DEF At
    <3> QED  BY <1>4, <2>2, <3>1, StatusAlike
  <2> QED  BY <1>1, <1>6, <1>7, <2>1, <2>2, ChainThen
<1>8. ASSUME w.ret = 0, b[w.at] = "SP"
      PROVE  LET Y == Parser!Then(s, Parser!Then(c, Parser!Then(t.r, AfterText(t, f))))
                 X == Parser!Then(S, Parser!Then(C, Parser!Then(T.r, AfterText(T, F))))
             IN  Leaves(b, w.at, Y) /\ (W = w => Alike(n + 1, X, Y))
  <2>1. Moves(b, w.at, s) /\ w.at \in Nat
    BY <1>2, <1>8 DEF At, Moves, Result
  <2>2. ASSUME W = w  PROVE Alike(n, S, s)
    <3>1. PICK p \in 1..(n + 1) : p = w.at + 1
      BY <1>1, <1>5, <1>8, <2>2
    <3> QED  BY <1>4, <2>2, <3>1, SearchesAlike
  <2> QED  BY <1>1, <1>7, <1>8, <2>1, <2>2, ChainThen
<1>9. ASSUME w.ret = 0
      PROVE  /\ Leaves(b, w.at, AfterVersion(b, w, s, c, t, f))
             /\ W = w => Alike(n + 1, AfterVersion(a, W, S, C, T, F), AfterVersion(b, w, s, c, t, f))
  <2>1. CASE b[w.at] # "SP"
    <3>1. AfterVersion(b, w, s, c, t, f) = Parser!Fail
      BY <2>1, Zenon DEF AfterVersion
    <3>2. W = w => AfterVersion(a, W, S, C, T, F) = Parser!Fail
      BY <1>5, <1>9, <2>1, Zenon DEF AfterVersion
    <3> QED  BY <3>1, <3>2, ReturnsLeave DEF Alike
  <2>2. CASE b[w.at] = "SP"
    <3>1. AfterVersion(b, w, s, c, t, f) =
            Parser!Then(s, Parser!Then(c, Parser!Then(t.r, AfterText(t, f))))
      BY <2>2, Zenon DEF AfterVersion
    <3>2. W = w => AfterVersion(a, W, S, C, T, F) =
                     Parser!Then(S, Parser!Then(C, Parser!Then(T.r, AfterText(T, F))))
      BY <1>5, <1>9, <2>2, Zenon DEF AfterVersion
    <3> QED  BY <1>8, <1>9, <2>2, <3>1, <3>2
  <2> QED  BY <2>1, <2>2
<1>10. Alike(n, W, w)
  BY <1>1, <1>4, VersionAlike
<1> QED  BY <1>1, <1>2, <1>9, <1>10, ChainThen

\* What is left of a head of either kind.
HeadLeaves(kind, b, y) ==
    /\ Moves(b, 1, y)
    /\ y.ret = 0 => /\ y.at \in 2..(Len(b) + 1)
                    /\ (kind = "headers" => y.headers # <<>>) => BlankEnd(b, y.at - 1)

\* Each of the three parsers leaves this, and the same of a head that is cut.
LEMMA HeadParsed ==
    ASSUME NEW kind \in {"request", "response", "headers"}, NEW a, NEW b, NEW n, Cut(a, b, n)
    PROVE  /\ HeadLeaves(kind, b, Parser!parse(kind, b))
           /\ Alike(n + 1, Parser!parse(kind, a), Parser!parse(kind, b))
<1>1. b \in Seq(STRING) /\ n \in Nat /\ 1 \in 1..(n + 1) /\ 1 \in 1..(Len(b) + 1)
  BY DEF Cut
<1>2. CASE kind = "request"
  <2>1. \A c : Parser!parse(kind, c) = Parser!parse_request(c)
    BY <1>2, Zenon DEF Parser!parse
  <2>2. PICK y : y = Parser!parse_request(b) /\ Leaves(b, 1, y)
    BY <1>1, RequestLeaves
  <2>3. HeadLeaves(kind, b, y)
    BY <1>2, <2>2 DEF HeadLeaves, Leaves
  <2> QED  BY <2>1, <2>2, <2>3, RequestAlike
<1>3. CASE kind = "response"
  <2>1. \A c : Parser!parse(kind, c) = Parser!parse_response(c)
    <3>1. kind # "request"
      BY <1>3
    <3> QED  BY <1>3, <3>1, Zenon DEF Parser!parse
  <2>2. PICK W, S, C, T, F : /\ Responded(a, W, S, C, T, F)
                             /\ Parser!parse_response(a) =
                                  Parser!Then(W, AfterVersion(a, W, S, C, T, F))
    BY ResponseHasParts
  <2>3. PICK w, s, c, t, f : /\ Responded(b, w, s, c, t, f)
                             /\ Parser!parse_response(b) =
                                  Parser!Then(w, AfterVersion(b, w, s, c, t, f))
    BY ResponseHasParts
  <2>4. /\ Leaves(b, 1, Parser!parse_response(b))
        /\ Alike(n + 1, Parser!parse_response(a), Parser!parse_response(b))
    BY <2>2, <2>3, ResponseChain
  <2>5. PICK y : y = Parser!parse_response(b) /\ Leaves(b, 1, y)
    BY <2>4
  <2>6. HeadLeaves(kind, b, y)
    BY <1>3, <2>5 DEF HeadLeaves, Leaves
  <2> QED  BY <2>1, <2>4, <2>5, <2>6
<1>4. CASE kind = "headers"
  <2>1. \A c : Parser!parse(kind, c) = Parser!parse_headers(c, 1)
    <3>1. kind # "request" /\ kind # "response"
      BY <1>4
    <3> QED  BY <1>4, <3>1, Zenon DEF Parser!parse
  <2>2. PICK y : y = Parser!parse_headers(b, 1) /\ HeadersLeave(b, 1, y)
    BY <1>1, HeadersMove
  <2>3. HeadLeaves(kind, b, y)
    BY <1>4, <2>2 DEF HeadLeaves, HeadersLeave
  <2> QED  BY <1>1, <2>1, <2>2, <2>3, HeadersAlike
<1> QED  BY <1>2, <1>3, <1>4

\* The least place of a set, or the one behind the bytes.
LeastFrom(P, l, m) == m \in P \cup {l + 1} /\ \A q \in P \cup {l + 1} : m <= q

\* Min finds it.
LEMMA LeastPlace ==
    ASSUME NEW l \in Nat, NEW P \in SUBSET Nat
    PROVE  LeastFrom(P, l, Parser!Min(P \cup {l + 1}))
<1>1. PICK Q : Q = P \cup {l + 1}
  OBVIOUS
<1>2. Q \in SUBSET Nat /\ Q # {}
  BY <1>1
<1>3. PICK m : m = CHOOSE x \in Q : \A y \in Q : x =< y
  OBVIOUS
<1>4. m \in Q /\ \A y \in Q : m =< y
  BY <1>2, <1>3, LeastNatural, Zenon
<1>5. Parser!Min(Q) = m
  BY <1>3, Zenon DEF Parser!Min
<1> QED  BY <1>1, <1>4, <1>5 DEF LeastFrom

\* The look at the lines from p on refuses nothing that has no stray CR, and finds a blank line
\* before which there is none.
LEMMA LinesFind ==
    ASSUME NEW b \in Seq(STRING), NEW p \in Nat, NEW g, g = Parser!Lines(b, p)
    PROVE  /\ g.ret \in {0, -1, -2}
           /\ (\A q \in p..Len(b) : ~Parser!StrayAt(b, q)) => g.ret # -1
           /\ \A e \in p..Len(b) :
                Parser!BlankLineAt(b, p, e) /\
                    (\A q \in p..e : ~Parser!StrayAt(b, q)) => g.ret = 0
<1>1. PICK l \in Nat : l = Len(b)
  OBVIOUS
<1>2. PICK B, S : /\ B = {q \in p..Len(b) : Parser!BlankLineAt(b, p, q)}
                  /\ S = {q \in p..Len(b) : Parser!StrayAt(b, q)}
  OBVIOUS
<1>3. B \in SUBSET Nat /\ S \in SUBSET Nat
  BY <1>2
<1>4. PICK x, y : /\ x = Parser!Min(B \cup {l + 1}) /\ LeastFrom(B, l, x)
                  /\ y = Parser!Min(S \cup {l + 1}) /\ LeastFrom(S, l, y)
  BY <1>3, LeastPlace
<1>5. g = IF y < x THEN Parser!Fail
          ELSE IF Parser!Eof(b, x) THEN Parser!Partial ELSE Parser!Ok(x + 1)
  BY <1>1, <1>2, <1>4, Zenon DEF Parser!Lines
<1>6. /\ x \in Nat /\ x <= l + 1 /\ (\A q \in B : x <= q)
      /\ y \in Nat /\ (y \in S \/ y = l + 1)
  <2>1. \A m \in B \cup {l + 1} : m \in Nat
    BY <1>3
  <2>2. \A m \in S \cup {l + 1} : m \in Nat
    BY <1>3
  <2>3. x \in B \cup {l + 1} /\ \A q \in B \cup {l + 1} : x <= q
    BY <1>4 DEF LeastFrom
  <2>4. y \in S \cup {l + 1}
    BY <1>4 DEF LeastFrom
  <2> QED  BY <2>1, <2>2, <2>3, <2>4
<1>7. g.ret = IF y < x THEN -1 ELSE IF x > l THEN -2 ELSE 0
  <2>1. x + 1 \in Nat
    BY <1>6
  <2>2. Parser!Ok(x + 1).ret = 0 /\ Parser!Fail.ret = -1 /\ Parser!Partial.ret = -2
    BY <2>1, Results
  <2> QED  BY <1>1, <1>5, <2>2 DEF Parser!Eof
<1>8. ASSUME \A q \in p..Len(b) : ~Parser!StrayAt(b, q)  PROVE g.ret # -1
  <2>1. S = {}
    BY <1>2, <1>8
  <2> QED  BY <1>6, <1>7, <2>1
<1>9. ASSUME NEW e \in p..Len(b), Parser!BlankLineAt(b, p, e),
             \A q \in p..e : ~Parser!StrayAt(b, q)
      PROVE  g.ret = 0
  <2>1. e \in B /\ e \in Nat /\ e <= l
    BY <1>1, <1>2, <1>9
  <2>2. x <= e
    BY <1>6, <2>1
  <2>3. ~(y < x)
    <3>1. CASE y = l + 1
      BY <1>6, <3>1
    <3>2. CASE y \in S
      <4>1. y \in p..Len(b) /\ Parser!StrayAt(b, y)
        BY <1>2, <3>2
      <4>2. ~(y <= e)
        <5>1. y <= e => y \in p..e
          BY <2>1, <4>1
        <5> QED  BY <1>9, <4>1, <5>1
      <4> QED  BY <1>6, <2>1, <2>2, <4>2
    <3> QED  BY <1>6, <3>1, <3>2
  <2> QED  BY <1>6, <1>7, <2>1, <2>2, <2>3
<1> QED  BY <1>7, <1>8, <1>9

\* A call, by what it finds of the lines and what it parses.
Called(b, d, g, x, r) ==
    /\ g = IF d = 0 THEN Parser!Ok(1) ELSE Parser!Lines(b, IF d < 3 THEN 1 ELSE d - 2)
    /\ r = Parser!Then(g, Parser!Then(x, [x EXCEPT !.ret = x.at - 1]))

\* A call has these parts.
LEMMA CallHasParts ==
    ASSUME NEW kind, NEW b, NEW d
    PROVE  \E g : Called(b, d, g, Parser!parse(kind, b), Parser!phr_parse(kind, b, d))
<1>1. PICK g : g = IF d = 0 THEN Parser!Ok(1) ELSE Parser!Lines(b, IF d < 3 THEN 1 ELSE d - 2)
  OBVIOUS
<1>2. g = IF d = 0 THEN Parser!Ok(1) ELSE Parser!is_complete(b, d)
  BY <1>1, Zenon DEF Parser!is_complete
<1>3. Parser!phr_parse(kind, b, d) =
        Parser!Then(g, Parser!Then(Parser!parse(kind, b),
                                   [Parser!parse(kind, b) EXCEPT !.ret = Parser!parse(kind, b).at - 1]))
  BY <1>2, Zenon DEF Parser!phr_parse
<1> QED  BY <1>1, <1>3, Zenon DEF Called

\* What a call over the whole message returns.
IsWhole(b, y, r) ==
    /\ y \in Result /\ y.ret \in {0, -1, -2}
    /\ y.ret = 0 => /\ r = [y EXCEPT !.ret = y.at - 1]
                    /\ r.ret = y.at - 1 /\ r.headers = y.headers /\ y.at \in 2..(Len(b) + 1)
    /\ y.ret # 0 => r = y

\* The look at the lines is left out the first time.
LEMMA WholeReturns ==
    ASSUME NEW kind \in {"request", "response", "headers"}, NEW b \in Seq(STRING),
           NEW y, y = Parser!parse(kind, b), NEW r, r = Parser!phr_parse(kind, b, 0)
    PROVE  IsWhole(b, y, r)
<1>1. PICK n \in Nat : n = Len(b) /\ Cut(b, b, n)
  BY DEF Cut
<1>2. HeadLeaves(kind, b, y)
  BY <1>1, HeadParsed
<1>3. y \in Result /\ y.ret \in {0, -1, -2} /\ (y.ret = 0 => y.at \in 2..(Len(b) + 1))
  BY <1>2 DEF HeadLeaves, Moves
<1>4. PICK g : Called(b, 0, g, y, r)
  BY CallHasParts
<1>5. r = Parser!Then(y, [y EXCEPT !.ret = y.at - 1])
  <2>1. g = Parser!Ok(1)
    BY <1>4, Zenon DEF Called
  <2>2. g.ret = 0
    BY <2>1, Results
  <2> QED  BY <1>4, <2>2, Zenon DEF Called, Parser!Then
<1>6. ASSUME y.ret = 0
      PROVE  r = [y EXCEPT !.ret = y.at - 1] /\ r.ret = y.at - 1 /\ r.headers = y.headers
  <2>1. r = [y EXCEPT !.ret = y.at - 1]
    BY <1>5, <1>6, Zenon DEF Parser!Then
  <2> QED  BY <1>3, <2>1 DEF Result
<1>7. y.ret # 0 => r = y
  BY <1>5, Zenon DEF Parser!Then
<1> QED  BY <1>3, <1>6, <1>7 DEF IsWhole

\* A message of which d bytes are not enough.
Message(m) == \E e \in Exchanges : m = e.head
Waits(d, r) == d \in Nat /\ (r.ret > 0 => d < r.ret)

\* A call over the first n bytes of a message, when the first d were not enough.
CallOver(m, n, d, w, r) ==
    /\ Message(m) /\ n \in Nat /\ n <= Len(m.bytes) /\ d <= n
    /\ w = Parser!phr_parse(m.kind, m.bytes, 0) /\ Waits(d, w)
    /\ r = Parser!phr_parse(m.kind, SubSeq(m.bytes, 1, n), d)
CallReturns(n, w, r) ==
    /\ r.ret = -2 => Waits(n, w)
    /\ r.ret # -2 => r.ret = w.ret /\ (w.ret > 0 => r = w)

\* A stray of a cut message is one of the whole message.
LEMMA StrayOfCut ==
    ASSUME NEW a, NEW b, NEW n, Cut(a, b, n), NEW q \in Nat, 1 <= q, Parser!StrayAt(a, q)
    PROVE  q < n /\ Parser!StrayAt(b, q)
<1>1. /\ n \in Nat /\ n <= Len(b) /\ Len(a) = n /\ Len(b) \in Nat
      /\ \A i \in 1..n : a[i] = b[i]
  BY DEF Cut
<1>2. a[q] = "CR" /\ q < n /\ a[q + 1] # "LF"
  BY <1>1 DEF Parser!StrayAt
<1>3. q \in 1..n /\ q + 1 \in 1..n /\ q < Len(b)
  BY <1>1, <1>2
<1>4. b[q] = "CR" /\ b[q + 1] # "LF"
  BY <1>1, <1>2, <1>3
<1> QED  BY <1>2, <1>3, <1>4 DEF Parser!StrayAt

\* The place from which the lines are looked at, and the blank line that ends behind d.
LEMMA BlankIsFound ==
    ASSUME NEW a, NEW b, NEW n, Cut(a, b, n), NEW d \in Nat, NEW e \in Nat, d < e, e <= n,
           BlankEnd(b, e), NEW p \in Nat, p = IF d < 3 THEN 1 ELSE d - 2
    PROVE  1 <= p /\ e \in p..Len(a) /\ Parser!BlankLineAt(a, p, e)
<1>1. /\ n \in Nat /\ n <= Len(b) /\ Len(a) = n /\ Len(b) \in Nat
      /\ \A i \in 1..n : a[i] = b[i]
  BY DEF Cut
<1>2. /\ e >= 2 /\ b[e] = "LF"
      /\ b[e - 1] = "LF" \/ (b[e - 1] = "CR" /\ e >= 3 /\ b[e - 2] = "LF")
  BY <1>1 DEF BlankEnd
<1>3. 1 <= p /\ e > p /\ (e >= 3 => e - 1 > p)
  BY <1>2
<1>4. e \in 1..n /\ e - 1 \in 1..n /\ (e >= 3 => e - 2 \in 1..n)
  BY <1>1, <1>2
<1>5. a[e] = b[e] /\ a[e - 1] = b[e - 1] /\ (e >= 3 => a[e - 2] = b[e - 2])
  BY <1>1, <1>4
<1>6. Parser!BlankLineAt(a, p, e)
  BY <1>2, <1>3, <1>5 DEF Parser!BlankLineAt
<1> QED  BY <1>1, <1>3, <1>6

\* A call returns what it returns over the whole message as soon as the whole head is there.
LEMMA CallIsRight ==
    ASSUME NEW m, NEW n, NEW d, NEW w, NEW r, CallOver(m, n, d, w, r)
    PROVE  CallReturns(n, w, r)
<1>1. /\ n \in Nat /\ n <= Len(m.bytes) /\ d <= n /\ d \in Nat
      /\ w = Parser!phr_parse(m.kind, m.bytes, 0) /\ (w.ret > 0 => d < w.ret)
      /\ r = Parser!phr_parse(m.kind, SubSeq(m.bytes, 1, n), d)
  BY DEF CallOver, Waits
<1>2. PICK kind \in {"request", "response", "headers"}, b \in Seq(STRING) :
        /\ kind = m.kind /\ b = m.bytes
        /\ w.ret > 0 /\ kind = "headers" => w.headers # <<>>
        /\ w.ret = -2 => \A q \in 1..Len(b) : ~Parser!StrayAt(b, q)
  <2>1. Parser!InOnePiece(m)
    BY HeadsAssumption DEF CallOver, Message
  <2> QED  BY <1>1, <2>1 DEF Parser!InOnePiece
<1>3. PICK a : a = SubSeq(b, 1, n) /\ Cut(a, b, n)
  BY <1>1, <1>2, PrefixIsCut
<1>4. PICK x, y : x = Parser!parse(kind, a) /\ y = Parser!parse(kind, b)
  OBVIOUS
<1>5. HeadLeaves(kind, b, y) /\ Alike(n + 1, x, y)
  BY <1>3, <1>4, HeadParsed
<1>6. a \in Seq(STRING) /\ Len(a) = n /\ Cut(a, a, n) /\ Len(b) \in Nat
  BY <1>3 DEF Cut
<1>7. HeadLeaves(kind, a, x)
  BY <1>4, <1>6, HeadParsed
<1>8. /\ y \in Result /\ y.ret \in {0, -1, -2}
      /\ y.ret = 0 => /\ w = [y EXCEPT !.ret = y.at - 1] /\ w.ret = y.at - 1
                      /\ w.headers = y.headers /\ y.at \in 2..(Len(b) + 1)
      /\ y.ret # 0 => w = y
  <2>1. w = Parser!phr_parse(kind, b, 0)
    BY <1>1, <1>2, Zenon
  <2>2. IsWhole(b, y, w)
    BY <1>4, <2>1, WholeReturns, Zenon
  <2> QED  BY <2>2, Zenon DEF IsWhole
<1>9. PICK g : Called(a, d, g, x, r)
  BY <1>1, <1>2, <1>3, <1>4, CallHasParts
<1>10. r = Parser!Then(g, Parser!Then(x, [x EXCEPT !.ret = x.at - 1]))
  BY <1>9 DEF Called
<1>11. PICK p \in Nat : p = IF d < 3 THEN 1 ELSE d - 2
  BY <1>1
<1>12. g = IF d = 0 THEN Parser!Ok(1) ELSE Parser!Lines(a, p)
  BY <1>9, <1>11, Zenon DEF Called
<1>13. /\ g.ret \in {0, -1, -2}
       /\ (\A q \in p..Len(a) : ~Parser!StrayAt(a, q)) => g.ret # -1
       /\ \A e \in p..Len(a) :
            Parser!BlankLineAt(a, p, e) /\ (\A q \in p..e : ~Parser!StrayAt(a, q)) => g.ret = 0
  <2>1. CASE d = 0
    <3>1. g = Parser!Ok(1)
      BY <1>12, <2>1
    <3>2. g.ret = 0
      BY <3>1, Results
    <3> QED  BY <3>2
  <2>2. CASE d # 0
    <3>1. g = Parser!Lines(a, p)
      BY <1>12, <2>2
    <3> QED  BY <1>6, <3>1, LinesFind
  <2> QED  BY <2>1, <2>2
<1>14. 1 <= p
  BY <1>1, <1>11
<1>15. CASE y.ret = 0 /\ y.at <= n + 1
  <2>1. PICK e \in Nat : e = y.at - 1 /\ e \in 1..Len(b) /\ e <= n /\ e + 1 = y.at /\ e = w.ret
    BY <1>1, <1>8, <1>15
  <2>2. BlankEnd(b, e) /\ NoStray(b, 1, e + 1)
    BY <1>2, <1>5, <1>8, <1>15, <2>1 DEF HeadLeaves, Moves
  <2>3. e \in p..Len(a) /\ Parser!BlankLineAt(a, p, e)
    <3>1. d \in Nat /\ d < e
      BY <1>1, <2>1
    <3> QED  BY <1>3, <1>11, <2>1, <2>2, <3>1, BlankIsFound
  <2>4. ASSUME NEW q \in p..e  PROVE ~Parser!StrayAt(a, q)
    <3>1. q \in Nat /\ 1 <= q /\ q \in 1..(e + 1 - 1)
      BY <1>14, <2>1
    <3>2. ~Parser!StrayAt(b, q)
      BY <2>1, <2>2, <3>1 DEF NoStray, Parser!StrayAt
    <3> QED  BY <1>3, <3>1, <3>2, StrayOfCut
  <2>5. g.ret = 0
    BY <1>13, <2>3, <2>4
  <2>6. x = y
    <3>1. ~(y.at > n + 1)
      BY <1>1, <1>15, <2>1
    <3> QED  BY <1>5, <1>15, <3>1 DEF Alike
  <2>7. r = w
    BY <1>8, <1>10, <1>15, <2>5, <2>6, Zenon DEF Parser!Then
  <2>8. w.ret # -2
    BY <2>1
  <2> QED  BY <2>7, <2>8 DEF CallReturns
<1>16. CASE y.ret = 0 /\ y.at > n + 1
  <2>1. PICK e \in Nat : e = y.at - 1 /\ e \in 1..Len(b) /\ n < e /\ e + 1 = y.at /\ e = w.ret
    BY <1>1, <1>8, <1>16
  <2>2. NoStray(b, 1, e + 1)
    BY <1>5, <1>16, <2>1 DEF HeadLeaves, Moves
  <2>3. ASSUME NEW q \in p..Len(a)  PROVE ~Parser!StrayAt(a, q)
    <3>1. q \in Nat /\ 1 <= q /\ q \in 1..(e + 1 - 1)
      BY <1>1, <1>6, <1>14, <2>1
    <3>2. ~Parser!StrayAt(b, q)
      BY <2>1, <2>2, <3>1 DEF NoStray, Parser!StrayAt
    <3> QED  BY <1>3, <3>1, <3>2, StrayOfCut
  <2>4. g.ret \in {0, -2}
    BY <1>13, <2>3
  <2>5. x.ret = -2
    <3>1. x # y
      <4>1. x.ret = 0 => x.at <= n + 1
        BY <1>1, <1>6, <1>7 DEF HeadLeaves
      <4> QED  BY <1>1, <1>16, <2>1, <4>1
    <3> QED  BY <1>5, <3>1 DEF Alike
  <2>6. r.ret = -2
    <3>1. x.ret # 0
      BY <2>5
    <3>2. Parser!Then(x, [x EXCEPT !.ret = x.at - 1]) = x
      BY <3>1, Zenon DEF Parser!Then
    <3>3. r = Parser!Then(g, x)
      BY <1>10, <3>2
    <3>4. r \in {g, x} /\ (g.ret = 0 => r = x)
      BY <3>3 DEF Parser!Then
    <3> QED  BY <2>4, <2>5, <3>3, <3>4 DEF Parser!Then
  <2> QED  BY <1>1, <2>1, <2>6 DEF CallReturns, Waits
<1>17. CASE y.ret # 0
  <2>1. w = y /\ w.ret \in {-1, -2}
    BY <1>8, <1>17
  <2>2. x.ret \in {w.ret, -2}
    BY <1>5, <2>1 DEF Alike
  <2>3. w.ret = -2 => g.ret # -1
    <3>1. ASSUME w.ret = -2  PROVE \A q \in p..Len(a) : ~Parser!StrayAt(a, q)
      <4>1. ASSUME NEW q \in p..Len(a), Parser!StrayAt(a, q)  PROVE FALSE
        <5>1. q \in Nat /\ 1 <= q
          BY <1>14
        <5>2. q < n /\ Parser!StrayAt(b, q)
          BY <1>3, <4>1, <5>1, StrayOfCut
        <5>3. q \in 1..Len(b)
          BY <1>1, <1>2, <1>6, <5>1, <5>2
        <5> QED  BY <1>2, <3>1, <5>2, <5>3
      <4> QED  BY <4>1
    <3> QED  BY <1>13, <3>1
  <2>4. r.ret \in {w.ret, -2}
    <3>1. x.ret # 0
      BY <2>1, <2>2
    <3>2. Parser!Then(x, [x EXCEPT !.ret = x.at - 1]) = x
      BY <3>1, Zenon DEF Parser!Then
    <3>3. r = Parser!Then(g, x)
      BY <1>10, <3>2
    <3>4. CASE g.ret = 0
      <4>1. r = x
        BY <3>3, <3>4, Zenon DEF Parser!Then
      <4> QED  BY <2>2, <4>1
    <3>5. CASE g.ret # 0
      <4>1. r = g
        BY <3>3, <3>5, Zenon DEF Parser!Then
      <4>2. g.ret \in {-1, -2}
        BY <1>13, <3>5
      <4> QED  BY <2>1, <2>3, <4>1, <4>2
    <3> QED  BY <3>4, <3>5
  <2>5. ~(w.ret > 0)
    BY <2>1
  <2> QED  BY <1>1, <2>4, <2>5 DEF CallReturns, Waits
<1> QED  BY <1>1, <1>8, <1>15, <1>16, <1>17

-------------------------------------------------------------------------------
(* The head of an exchange. *)

\* What was read is not enough, or the call returned what it returns over the whole message.
HeadInv ==
    /\ Message(msg)
    /\ len \in Nat /\ len <= Len(msg.bytes)
    /\ CallReturns(len, Parser!Whole, res)

\* Nothing has been read at first.
LEMMA HeadInit ==
    ASSUME Init
    PROVE  HeadInv
<1>1. PICK e \in Exchanges : Parser!Start(e.head)
  BY DEF Init
<1>2. msg = e.head /\ len = 0 /\ res = Parser!Partial
  BY <1>1 DEF Parser!Start
<1>3. msg.bytes \in Seq(STRING)
  BY <1>2, HeadsAssumption DEF Parser!InOnePiece
<1>4. Message(msg)
  BY <1>2 DEF Message
<1>5. len \in Nat /\ len <= Len(msg.bytes)
  BY <1>2, <1>3
<1>6. res.ret = -2
  BY <1>2, Results
<1>7. \A x : x.ret > 0 => 0 < x.ret
  <2>1. \A i : i > 0 <=> 0 < i
    OBVIOUS
  <2> QED  BY <2>1
<1>8. CallReturns(len, Parser!Whole, res)
  BY <1>2, <1>5, <1>6, <1>7 DEF CallReturns, Waits
<1> QED  BY <1>4, <1>5, <1>8 DEF HeadInv

\* More bytes are read.
LEMMA HeadStep ==
    ASSUME HeadInv, [Next]_vars
    PROVE  HeadInv'
<1>1. CASE UNCHANGED headVars
  BY <1>1 DEF HeadInv, headVars, Parser!Whole
<1>2. CASE HeadArrives
  <2>1. PICK k \in 1..Len(msg.bytes) : Parser!Arrive(k)
    BY <1>2 DEF HeadArrives, Parser!Next
  <2>2. /\ res.ret = -2 /\ len + k <= Len(msg.bytes)
        /\ len' = len + k /\ msg' = msg
        /\ res' = Parser!phr_parse(msg.kind, SubSeq(msg.bytes, 1, len'), len)
    BY <2>1 DEF Parser!Arrive
  <2>3. PICK w : w = Parser!Whole
    OBVIOUS
  <2>4. Message(msg) /\ len \in Nat /\ Waits(len, w)
    BY <2>2, <2>3 DEF HeadInv, CallReturns
  <2>5. len' \in Nat /\ len' <= Len(msg.bytes) /\ len <= len'
    BY <2>1, <2>2, <2>4
  <2>6. w = Parser!phr_parse(msg.kind, msg.bytes, 0)
    BY <2>3 DEF Parser!Whole
  <2>7. CallOver(msg, len', len, w, res')
    BY <2>2, <2>4, <2>5, <2>6 DEF CallOver
  <2>8. CallReturns(len', w, res')
    BY <2>7, CallIsRight
  <2>9. Parser!Whole' = w
    BY <2>2, <2>6 DEF Parser!Whole
  <2> QED  BY <2>2, <2>4, <2>5, <2>8, <2>9 DEF HeadInv
<1>3. UNCHANGED headVars \/ HeadArrives
  BY DEF Next, vars, BodyArrives, ReplyIsMade
<1> QED  BY <1>1, <1>2, <1>3

\* What a call returns over the whole message is what the message is.
LEMMA HeadIsRight ==
    ASSUME HeadInv
    PROVE  AcceptsTheGrammar
<1>1. Message(msg) /\ len \in Nat /\ len <= Len(msg.bytes)
  BY DEF HeadInv
<1>2. PICK w : w = Parser!Whole /\ w = Parser!phr_parse(msg.kind, msg.bytes, 0)
  BY DEF Parser!Whole
<1>3. CallReturns(len, w, res)
  BY <1>2 DEF HeadInv
<1>4. /\ msg.kind \in {"request", "response", "headers"} /\ msg.bytes \in Seq(STRING)
      /\ msg.good <=> w.ret > 0
      /\ w.ret > 0 => w.ret = msg.size /\ Parser!Fields(w) = msg.fields
  <2>1. Parser!InOnePiece(msg)
    BY <1>1, HeadsAssumption DEF Message
  <2> QED  BY <1>2, <2>1 DEF Parser!InOnePiece
<1>5. w.ret > 0 => w.ret \in Nat /\ w.ret <= Len(msg.bytes)
  <2>1. PICK y : y = Parser!parse(msg.kind, msg.bytes)
    OBVIOUS
  <2>2. /\ y.ret \in {0, -1, -2}
        /\ y.ret = 0 => w.ret = y.at - 1 /\ y.at \in 2..(Len(msg.bytes) + 1)
        /\ y.ret # 0 => w = y
    <3>1. IsWhole(msg.bytes, y, w)
      BY <1>2, <1>4, <2>1, WholeReturns, Zenon
    <3> QED  BY <3>1, Zenon DEF IsWhole
  <2> QED  BY <1>4, <2>2
<1>6. ASSUME res.ret > 0  PROVE msg.good /\ res.ret = msg.size /\
          Parser!Fields(res) = msg.fields
  <2>1. res.ret # -2
    BY <1>6
  <2>2. w.ret > 0 /\ res = w
    BY <1>3, <1>6, <2>1 DEF CallReturns
  <2> QED  BY <1>4, <2>2
<1>7. ASSUME len = Len(msg.bytes), msg.good  PROVE res.ret > 0
  <2>1. w.ret > 0 /\ w.ret \in Nat /\ w.ret <= len
    BY <1>4, <1>5, <1>7
  <2>2. res.ret # -2
    BY <1>1, <1>3, <2>1 DEF CallReturns, Waits
  <2> QED  BY <1>3, <2>1, <2>2 DEF CallReturns
<1>8. res.ret # -2 => res.ret = Parser!Whole.ret
  BY <1>2, <1>3 DEF CallReturns
<1> QED  BY <1>6, <1>7, <1>8 DEF AcceptsTheGrammar, Parser!AcceptsTheGrammar, Parser!Accepted

\* Wherever the network cuts a head, it is accepted exactly if it is well-formed.
THEOREM GrammarCorrect == Spec => []AcceptsTheGrammar
<1>1. Init => HeadInv
  BY HeadInit
<1>2. HeadInv /\ [Next]_vars => HeadInv'
  BY HeadStep
<1>3. HeadInv => AcceptsTheGrammar
  BY HeadIsRight
<1> QED  BY <1>1, <1>2, <1>3, PTL DEF Spec
=============================================================================
