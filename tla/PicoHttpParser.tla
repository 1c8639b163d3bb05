--------------------------- MODULE PicoHttpParser ---------------------------
(***************************************************************************)
(* The head parsers of lib/picohttpparser.c, and the loop of a caller that *)
(* gives them a message as it arrives: the bytes so far and, as last_len,  *)
(* how many of them it gave the time before (handler.c:181-218).           *)
(* A byte is the class the parser tells apart: CR, LF, SP, HT, ":", "tok"  *)
(* (token_char_map), "digit" (which is a tok), "vis" (printable, no token) *)
(* and "ctl"; the seven bytes "HTTP/1." are one symbol.                    *)
(***************************************************************************)
EXTENDS Integers, Sequences, SequencesExt, FiniteSets, FiniteSetsExt

CONSTANT MaxHeaders  \* room for headers: 100 in handler.c

Token == {"tok", "digit"}
Control == {"CR", "LF", "HT", "ctl"}
Blank == {"SP", "HT"}

\* A parse in progress: at is the next byte, ret what is returned if it is not 0.
Ok(p) == [ret |-> 0, at |-> p, method |-> <<>>, path |-> <<>>, headers |-> <<>>]
Fail == [Ok(0) EXCEPT !.ret = -1]
Partial == [Ok(0) EXCEPT !.ret = -2]
\* What follows r, unless r returns.
Then(r, rest) == IF r.ret # 0 THEN r ELSE rest

\* The first byte from p on that is in S, or the end of the buffer.
Find(b, p, S) == Min({q \in p .. Len(b) : b[q] \in S} \cup {Len(b) + 1})
Skip(b, p, S) == Min({q \in p .. Len(b) : b[q] \notin S} \cup {Len(b) + 1})
Eof(b, p) == p > Len(b)
Bytes(s) == Len(s) + 6 * Cardinality({i \in DOMAIN s : s[i] = "http"})

\* CR LF or LF; other control bytes end no line.
end_of_line(b, p) ==
  CASE b[p] = "LF" -> Ok(p + 1)
    [] b[p] = "CR" /\ Eof(b, p + 1) -> Partial
    [] b[p] = "CR" /\ ~Eof(b, p + 1) -> IF b[p + 1] = "LF" THEN Ok(p + 2) ELSE Fail
    [] OTHER -> Fail

get_token_to_eol(b, p) ==
  LET q == Find(b, p, Control \ {"HT"})
  IN IF Eof(b, q) THEN [token |-> <<>>, r |-> Partial]
     ELSE [token |-> SubSeq(b, p, q - 1), r |-> end_of_line(b, q)]

parse_token(b, p, next) ==
  LET q == Skip(b, p, Token)
  IN IF Eof(b, q) THEN Partial ELSE IF b[q] = next THEN Ok(q) ELSE Fail

\* ADVANCE_TOKEN: anything printable up to a space.
advance_token(b, p) ==
  LET q == Find(b, p, Control \cup {"SP"})
  IN IF Eof(b, q) THEN Partial ELSE IF b[q] = "SP" THEN Ok(q) ELSE Fail

skip_spaces(b, p) == LET q == Skip(b, p, {"SP"}) IN IF Eof(b, q) THEN Partial ELSE Ok(q)

\* From p on: a blank line whose last byte is at q, and a CR at q that ends no line.
BlankLineAt(b, p, q) ==
  /\ q > p /\ b[q] = "LF"
  /\ b[q - 1] = "LF" \/ (b[q - 1] = "CR" /\ q - 1 > p /\ b[q - 2] = "LF")
StrayAt(b, q) == b[q] = "CR" /\ q < Len(b) /\ b[q + 1] # "LF"

\* What comes first.
Lines(b, p) ==
  LET blank == Min({q \in p .. Len(b) : BlankLineAt(b, p, q)} \cup {Len(b) + 1})
      stray == Min({q \in p .. Len(b) : StrayAt(b, q)} \cup {Len(b) + 1})
  IN IF stray < blank THEN Fail ELSE IF Eof(b, blank) THEN Partial ELSE Ok(blank + 1)

\* Seeded defect: the bytes before last_len are not looked at again.
is_complete_new_bytes(b, last_len) == Lines(b, last_len + 1)

\* The last three bytes of the time before may be the beginning of the blank line.
is_complete(b, last_len) == Lines(b, IF last_len < 3 THEN 1 ELSE last_len - 2)

parse_http_version(b, p) ==
  IF Bytes(SubSeq(b, p, Len(b))) < 9 THEN Partial
  ELSE IF b[p] = "http" /\ b[p + 1] = "digit" THEN Ok(p + 2) ELSE Fail

TrimEnd(s) == SubSeq(s, 1, Max({i \in DOMAIN s : s[i] \notin Blank} \cup {0}))

\* One header line; a line that begins with a blank continues the one before it.
parse_header(b, p, num_headers) ==
  LET more == num_headers # 0 /\ b[p] \in Blank
      name == IF more THEN Ok(p) ELSE parse_token(b, p, ":")
      start == IF more THEN p ELSE Skip(b, name.at + 1, Blank)
      value == get_token_to_eol(b, start)
      header == [name |-> SubSeq(b, p, name.at - 1), value |-> TrimEnd(value.token)]
  IN Then(name,
       IF ~more /\ name.at = p THEN Fail
       ELSE IF Eof(b, start) THEN Partial
       ELSE Then(value.r, [value.r EXCEPT !.headers = <<header>>]))

\* A turn of the loop over the lines, r.headers being those before: the blank line ends it.
HeaderLine(b, r) ==
  LET end == end_of_line(b, r.at)
      line == parse_header(b, r.at, Len(r.headers))
  IN IF r.ret # 1 THEN r
     ELSE IF Eof(b, r.at) THEN Partial
     ELSE IF b[r.at] \in {"CR", "LF"} THEN Then(end, [end EXCEPT !.headers = r.headers])
     ELSE IF Len(r.headers) = MaxHeaders THEN Fail
     ELSE Then(line, [line EXCEPT !.ret = 1, !.headers = r.headers \o line.headers])

\* Every turn that goes on has found a header.
parse_headers(b, p) ==
  LET turn[n \in 0 .. MaxHeaders + 1] ==
        IF n = 0 THEN [Ok(p) EXCEPT !.ret = 1] ELSE HeaderLine(b, turn[n - 1])
  IN turn[MaxHeaders + 1]

\* The empty line some clients add after a body is skipped first.
parse_request(b) ==
  LET method == IF b[1] \in {"CR", "LF"} THEN end_of_line(b, 1) ELSE Ok(1)
      method_end == parse_token(b, method.at, "SP")
      path == skip_spaces(b, method_end.at + 1)
      path_end == advance_token(b, path.at)
      version == skip_spaces(b, path_end.at + 1)
      version_end == parse_http_version(b, version.at)
      line == end_of_line(b, version_end.at)
      fields == parse_headers(b, line.at)
  IN IF Eof(b, 1) THEN Partial
     ELSE Then(method, Then(method_end, Then(path, Then(path_end, Then(version,
       IF method.at = method_end.at \/ path.at = path_end.at THEN Fail
       ELSE Then(version_end, Then(line, Then(fields,
              [fields EXCEPT !.method = SubSeq(b, method.at, method_end.at - 1),
                             !.path = SubSeq(b, path.at, path_end.at - 1)]))))))))

parse_status(b, p) ==
  IF Bytes(SubSeq(b, p, Len(b))) < 4 THEN Partial
  ELSE IF \A i \in 0 .. 2 : b[p + i] = "digit" THEN Ok(p + 3) ELSE Fail

\* What a response says after its status goes to path, without the spaces before it.
parse_response(b) ==
  LET version_end == parse_http_version(b, 1)
      status == skip_spaces(b, version_end.at + 1)
      status_end == parse_status(b, status.at)
      text == get_token_to_eol(b, status_end.at)
      fields == parse_headers(b, text.r.at)
  IN Then(version_end,
       IF b[version_end.at] # "SP" THEN Fail
       ELSE Then(status, Then(status_end, Then(text.r,
         IF text.token # <<>> /\ Head(text.token) # "SP" THEN Fail
         ELSE Then(fields,
                [fields EXCEPT !.path = SubSeq(text.token, Skip(text.token, 1, {"SP"}),
                                               Len(text.token))])))))

\* phr_parse_request, phr_parse_response and phr_parse_headers.
parse(kind, b) ==
  CASE kind = "request" -> parse_request(b)
    [] kind = "response" -> parse_response(b)
    [] kind = "headers" -> parse_headers(b, 1)
phr_parse(kind, b, last_len) ==
  LET parsed == parse(kind, b)
  IN Then(IF last_len = 0 THEN Ok(1) ELSE is_complete(b, last_len),
       Then(parsed, [parsed EXCEPT !.ret = parsed.at - 1]))

----------------------------------------------------------------------------
VARIABLES
  msg,   \* the message that arrives: [kind, bytes, good, size, fields]
  len,   \* its bytes that are there
  last,  \* how many of them the call before saw
  res    \* what the last call returned

vars == <<msg, len, last, res>>

Fields(r) == [f \in {"method", "path", "headers"} |-> r[f]]

\* A message that comes in one piece is parsed as it was put together.  A block of headers
\* has one; a message that is not complete has no CR that ends no line.
InOnePiece(m) ==
  LET r == phr_parse(m.kind, m.bytes, 0)
  IN /\ m.kind \in {"request", "response", "headers"} /\ m.bytes \in Seq(STRING)
     /\ m.good <=> r.ret > 0
     /\ r.ret > 0 => r.ret = m.size /\ Fields(r) = m.fields
     /\ r.ret > 0 /\ m.kind = "headers" => r.headers # <<>>
     /\ r.ret = -2 => \A q \in 1 .. Len(m.bytes) : ~StrayAt(m.bytes, q)

----------------------------------------------------------------------------
Start(m) == msg = m /\ len = 0 /\ last = 0 /\ res = Partial

\* More bytes are read and the whole buffer is parsed again.
Arrive(n) ==
  /\ res.ret = -2 /\ len + n <= Len(msg.bytes)
  /\ len' = len + n /\ last' = len
  /\ res' = phr_parse(msg.kind, SubSeq(msg.bytes, 1, len'), len)
  /\ UNCHANGED msg

Next == \E n \in 1 .. Len(msg.bytes) : Arrive(n)

Whole == phr_parse(msg.kind, msg.bytes, 0)
Accepted == res.ret > 0

----------------------------------------------------------------------------
(* A message is accepted exactly if it is well-formed, up to its blank line and with the
   fields its sender put there, wherever the network cut it; the cuts decide when it is
   refused, never whether (lines 197-223, 355-427). *)
AcceptsTheGrammar ==
  /\ Accepted => msg.good /\ res.ret = msg.size /\ Fields(res) = msg.fields
  /\ len = Len(msg.bytes) /\ msg.good => Accepted
  /\ res.ret # -2 => res.ret = Whole.ret
=============================================================================
