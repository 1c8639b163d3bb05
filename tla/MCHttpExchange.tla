--------------------------- MODULE MCHttpExchange ---------------------------
(* Exchanges for HttpExchange.  Heads and bodies are put together from well-formed parts
   and from at most one part that is not: what should be made of them is known beforehand.
   In an exchange one of head, body and reply varies and the others are plain. *)
EXTENDS HttpExchange, SequencesExt

Eols == {<<"CR", "LF">>, <<"LF">>}
BadEols == {<<"CR">>, <<"ctl">>, <<"CR", "tok", "LF">>}
HeaderLine(name, sep, value, eol) ==
  [bytes |-> name \o sep \o value \o eol, header |-> [name |-> name, value |-> value]]

GoodLines == {HeaderLine(<<"tok">>, <<":">>, <<"vis">>, <<"CR", "LF">>),
              HeaderLine(<<"tok">>, <<":", "SP", "HT">>, <<"tok", ":">>, <<"LF">>),
              HeaderLine(<<"tok", "tok">>, <<":", "SP">>, <<>>, <<"LF">>)}
\* A value with blanks behind it, and one that goes on in the next line.
Trailing == [bytes |-> <<"tok", ":", "tok", "SP", "HT", "LF">>,
             header |-> [name |-> <<"tok">>, value |-> <<"tok">>]]
Continued == [bytes |-> <<"SP", "vis", "LF">>,
              header |-> [name |-> <<>>, value |-> <<"SP", "vis">>]]
Simple == HeaderLine(<<"tok">>, <<":">>, <<>>, <<"LF">>)

GoodHeaders == {<<>>, <<Trailing>>, <<Simple, Continued>>, <<Simple, Simple>>}
                 \cup {<<l>> : l \in GoodLines}
BadHeaders == {<<Continued>>, <<Simple, Simple, Simple>>}
                \cup {<<HeaderLine(n, s, <<"tok">>, <<"LF">>)>> :
                        n \in {<<"tok">>, <<>>}, s \in {<<>>, <<"SP", ":">>, <<"ctl", ":">>}}
                \cup {<<HeaderLine(<<>>, <<":">>, <<"tok">>, <<"LF">>)>>}
                \cup {<<HeaderLine(<<"tok">>, <<":">>, v, <<"LF">>)>> : v \in {<<"ctl">>, <<"CR", "tok">>}}

\* Per kind of message, what each part may be and what it may not be.
PartsOf(kind) ==
  CASE kind = "request" ->
         <<{<<>>, <<"LF">>, <<"CR", "LF">>}, {<<"tok">>, <<"digit", "tok">>}, {<<"SP">>},
           {<<"vis">>, <<"tok", ":">>}, {<<"SP">>, <<"SP", "SP">>}, {<<"http", "digit">>}, Eols>>
    [] kind = "response" ->
         <<{<<>>}, {<<>>}, {<<"http", "digit">>}, {<<"SP">>, <<"SP", "SP">>},
           {<<"digit", "digit", "digit">>}, {<<>>, <<"SP", "tok", "SP">>}, Eols>>
    [] kind = "headers" -> [i \in 1 .. 7 |-> {<<>>}]
BadPartsOf(kind) ==
  CASE kind = "request" ->
         <<{<<"LF", "LF">>, <<"CR", "tok">>}, {<<>>, <<"vis">>}, {<<"HT">>}, {<<"ctl">>, <<>>},
           {<<"LF">>}, {<<"http", "tok">>, <<"tok", "digit">>, <<>>}, BadEols>>
    [] kind = "response" ->
         <<{<<"SP">>}, {<<"LF">>}, {<<"http", "vis">>, <<>>}, {<<>>, <<"HT">>},
           {<<"digit", "digit">>, <<"digit", "tok", "digit">>}, {<<"tok">>}, BadEols>>
    [] kind = "headers" -> [i \in 1 .. 7 |-> {}]

MessageOf(kind, p, hs, end, rest, good) ==
  LET head == FlattenSeq(p) \o FlattenSeq([i \in DOMAIN hs |-> hs[i].bytes]) \o end
      msgPart == p[6]
  IN [kind |-> kind, bytes |-> head \o rest, good |-> good, size |-> Len(head),
      fields |-> [headers |-> [i \in DOMAIN hs |-> hs[i].header],
                  method |-> IF kind = "request" THEN p[2] ELSE <<>>,
                  path |-> CASE kind = "request" -> p[4]
                             [] kind = "response" -> IF msgPart = <<>> THEN <<>> ELSE Tail(msgPart)
                             [] OTHER -> <<>>]]

Good(kind, blocks, ends, rests) ==
  LET g == PartsOf(kind)
  IN {MessageOf(kind, <<a, b, c, d, e, f, h>>, hs, end, rest, TRUE) :
        a \in g[1], b \in g[2], c \in g[3], d \in g[4], e \in g[5], f \in g[6], h \in g[7],
        hs \in blocks, end \in ends, rest \in rests}

BadPart(kind) ==
  LET g == PartsOf(kind)
      first == [i \in 1 .. 7 |-> CHOOSE x \in g[i] : TRUE]
  IN UNION {{MessageOf(kind, [first EXCEPT ![i] = x], hs, end, <<>>, FALSE) :
               x \in BadPartsOf(kind)[i], hs \in {<<>>, <<Simple>>}, end \in Eols} : i \in 1 .. 7}

BadHeader(kind) ==
  LET first == [i \in 1 .. 7 |-> CHOOSE x \in PartsOf(kind)[i] : TRUE]
  IN {MessageOf(kind, first, hs, <<"LF">>, <<>>, FALSE) : hs \in BadHeaders}

Heads ==
  Good("request", GoodHeaders, Eols, {<<>>, <<"tok", "LF">>}) \cup BadPart("request")
    \cup BadHeader("request")
    \cup Good("response", GoodHeaders, Eols, {<<>>}) \cup BadPart("response")
    \cup BadHeader("response")
    \* An empty block of headers never counts as complete, and is left out.
    \cup Good("headers", GoodHeaders \ {<<>>}, Eols, {<<>>, <<"tok">>}) \cup BadHeader("headers")

----------------------------------------------------------------------------
(* Bodies: up to two chunks, whose data look like sizes and line ends, the last chunk, a
   trailer and the bytes of a next message; or one fault. *)

CR == Decoder!CR
LF == Decoder!LF
Semicolon == 18
Letter == 19
ChunkOf(size, ext, d, eol) == [bytes |-> size \o ext \o <<LF>> \o d \o eol, data |-> d]
Chunks == {ChunkOf(s, e, <<LF>>, l) : s \in {<<1>>, <<0, 1>>},
             e \in {<<>>, <<Semicolon, 1, CR>>}, l \in {<<LF>>, <<CR, LF>>}}
            \cup {ChunkOf(<<2>>, <<CR>>, d, <<CR, CR, LF>>) : d \in {<<0, LF>>, <<Letter, CR>>}}
            \cup {ChunkOf(<<1, 1>>, <<>>, [i \in 1 .. 17 |-> 1], <<LF>>)}

Ends(trailer) ==
  IF trailer
  THEN {<<0, LF, LF>>, <<0, CR, LF, Letter, CR, LF, CR, LF>>, <<0, LF, CR, Letter, LF, LF>>}
  ELSE {<<0, LF>>, <<0, 0, Semicolon, CR, LF>>}

Singles == {<<>>} \cup {<<c>> : c \in Chunks}
Lists == Singles \cup {<<c, d>> : c, d \in Chunks}
All(list, field) == FlattenSeq([i \in DOMAIN list |-> list[i][field]])
BodyOf(list, end, more, size, trailer) ==
  [bytes |-> All(list, "bytes") \o end, data |-> All(list, "data") \o more,
   size |-> size, trailer |-> trailer]

Whole(trailer) ==
  {BodyOf(l, e \o rest, <<>>, Len(All(l, "bytes") \o e), trailer) :
     l \in Lists, e \in Ends(trailer), rest \in {<<>>, <<1, LF>>}}
\* No size, a size of too many digits, data that is longer than its size.
Faulty(trailer) ==
  {BodyOf(l, f, <<>>, 0, trailer) : l \in Singles, f \in {<<Letter>>, <<LF>>, <<0, 0, 1, LF>>}}
    \cup {BodyOf(l, <<1, LF, Letter, Letter>>, <<Letter>>, 0, trailer) : l \in Singles}
Bodies == UNION {Whole(t) \cup Faulty(t) : t \in BOOLEAN}

----------------------------------------------------------------------------
(* Replies: every code the callbacks pass, and sizes around a change of digits. *)

DecimalDigits(n) == IF n < 10 THEN 1 ELSE IF n < 100 THEN 2 ELSE 3
ReplyOf(code, h, b) == [status |-> code, headersLen |-> h, bodyLen |-> b]
Replies == {ReplyOf(code, h, b) : code \in {200, 400, 404, 405, 500, 501},
                                  h \in {1, 30}, b \in {0, 9, 10, 100}}

----------------------------------------------------------------------------
PlainHead == MessageOf("headers", [i \in 1 .. 7 |-> <<>>], <<Simple>>, <<"LF">>, <<>>, TRUE)
NoBody == BodyOf(<<>>, <<>>, <<>>, 0, FALSE)
PlainReply == ReplyOf(200, 1, 0)
Exchange(h, b, r, end) == [head |-> h, body |-> b, reply |-> r, upto |-> end]

SomeExchanges == {Exchange(h, NoBody, PlainReply, "head") : h \in Heads}
                   \cup {Exchange(PlainHead, b, PlainReply, "body") : b \in Bodies}
                   \cup {Exchange(PlainHead, NoBody, r, "reply") : r \in Replies}
=============================================================================
