----------------------------- MODULE JsonPrint ------------------------------
(***************************************************************************)
(* The printer of lib/c_json.c, which asks for room before each write, and *)
(* cJSON_Minify.  Texts and values are those of JsonParse.                 *)
(***************************************************************************)
EXTENDS JsonParse

CONSTANT DefaultBufferSize  \* the 256 bytes print begins with

ASSUME JsonPrintAssumption == DefaultBufferSize \in Nat \ {0}

\* A printbuffer: the text before offset, the bytes of the block, whether it may grow; ok
\* and within say that all went well and that nothing was written behind the block.
PrintBuffer(length, noalloc) ==
  [text |-> <<>>, length |-> length, noalloc |-> noalloc, ok |-> TRUE, within |-> TRUE]

\* ensure: the block has room for needed bytes and one more, or is grown to twice that.

\* Seeded defect: room for a second terminator.
TotalAndOne(p, needed) == needed + Bytes(p.text) + 2

Total(p, needed) == needed + Bytes(p.text) + 1
Refuses(p, needed) ==
  \/ ~p.ok
  \/ p.length > 0 /\ Bytes(p.text) >= p.length
  \/ needed > INT_MAX
  \/ Total(p, needed) > p.length /\ (p.noalloc \/ Total(p, needed) > INT_MAX)

NewLength(p, needed) ==
  LET n == Total(p, needed)
  IN IF n <= p.length THEN p.length ELSE IF n > INT_MAX \div 2 THEN INT_MAX ELSE n * 2

\* A write: needed bytes are asked for, then s and some terminators are written.
W(needed, s, terminators) == [needed |-> needed, s |-> s, terminators |-> terminators]

Write(p, w) ==
  IF Refuses(p, w.needed) THEN [p EXCEPT !.ok = FALSE]
  ELSE LET length == NewLength(p, w.needed)
       IN [p EXCEPT !.text = @ \o w.s, !.length = length,
                    !.within = @ /\ Bytes(p.text) + Bytes(w.s) + w.terminators <= length]

Letter == [c \in {8, 12, NEWLINE, 13, TAB, QUOTE, BACKSLASH} |->
             CHOOSE e \in DOMAIN Escapes : Escapes[e] = c]
Escaped(c) == IF c \in DOMAIN Letter THEN <<BACKSLASH, Letter[c]>>
              ELSE IF c < 32 THEN <<BACKSLASH, 117, HEX + c>> ELSE <<c>>

\* Seeded defect: every escape is counted as one more byte.
ExtraOne(s) == Count(s, LAMBDA c : c \in DOMAIN Letter \/ c < 32)

\* How many bytes the escapes of s take more than s.
Extra(s) == Count(s, LAMBDA c : c \in DOMAIN Letter)
              + (5 * Count(s, LAMBDA c : c \notin DOMAIN Letter /\ c < 32))

(* What each of the print functions writes, in order. *)

print_string(s) ==
  <<W(Bytes(s) + Extra(s) + 3,
      <<QUOTE>> \o FlattenSeq([i \in DOMAIN s |-> Escaped(s[i])]) \o <<QUOTE>>, 1)>>

RECURSIVE DigitsOf(_)
DigitsOf(n) == IF n < 10 THEN <<48 + n>> ELSE Append(DigitsOf(n \div 10), 48 + (n % 10))

print_number(n) ==
  LET s == IF n < 0 THEN <<MINUS>> \o DigitsOf(-n) ELSE DigitsOf(n)
  IN <<W(Len(s) + 1, s, 1)>>

Tabs(n) == [i \in 1 .. n |-> TAB]

RECURSIVE print_value(_, _, _)

print_array(items, format, depth) ==
  LET sep == IF format THEN <<COMMA, SPACE>> ELSE <<COMMA>>
      Element(i) == print_value(items[i], format, depth + 1) \o
                    (IF i < Len(items) THEN <<W(Len(sep) + 1, sep, 1)>> ELSE <<>>)
  IN <<W(1, <<LBRACKET>>, 0)>> \o FlattenSeq([i \in DOMAIN items |-> Element(i)])
       \o <<W(2, <<RBRACKET>>, 1)>>

\* Members are on lines of their own, behind one more tab than the brackets.
print_object(items, format, depth) ==
  LET open == IF format THEN <<LBRACE, NEWLINE>> ELSE <<LBRACE>>
      colon == IF format THEN <<COLON, TAB>> ELSE <<COLON>>
      sep(i) == (IF i < Len(items) THEN <<COMMA>> ELSE <<>>) \o
                (IF format THEN <<NEWLINE>> ELSE <<>>)
      Member(i) == (IF format THEN <<W(depth + 1, Tabs(depth + 1), 0)>> ELSE <<>>)
                     \o print_string(items[i][1]) \o <<W(Len(colon), colon, 0)>>
                     \o print_value(items[i][2], format, depth + 1)
                     \o <<W(Len(sep(i)) + 1, sep(i), 1)>>
  IN <<W(Len(open) + 1, open, 0)>> \o FlattenSeq([i \in DOMAIN items |-> Member(i)])
       \o IF format THEN <<W(depth + 2, Append(Tabs(depth), RBRACE), 1)>>
          ELSE <<W(2, <<RBRACE>>, 1)>>

print_value(v, format, depth) ==
  CASE v[1] = "null" -> <<W(5, <<NULL>>, 1)>>
    [] v[1] = "false" -> <<W(6, <<FALSE_>>, 1)>>
    [] v[1] = "true" -> <<W(5, <<TRUE_>>, 1)>>
    [] v[1] = "number" -> print_number(v[2])
    [] v[1] = "string" -> print_string(v[2])
    [] v[1] = "array" -> print_array(v[2], format, depth)
    [] v[1] = "object" -> print_object(v[2], format, depth)

RECURSIVE Written(_, _)
\* The buffer after the writes (CHOOSE has each of them evaluated once).
Written(p, writes) ==
  IF writes = <<>> THEN p
  ELSE Written(CHOOSE q \in {Write(p, Head(writes))} : TRUE, Tail(writes))

cJSON_Print(v, format) ==
  Written(PrintBuffer(DefaultBufferSize, FALSE), print_value(v, format, 0))
cJSON_PrintBuffered(v, prebuffer, format) ==
  Written(PrintBuffer(prebuffer, FALSE), print_value(v, format, 0))
cJSON_PrintPreallocated(v, length, format) ==
  Written(PrintBuffer(length, TRUE), print_value(v, format, 0))

----------------------------------------------------------------------------
(* cJSON_Minify, on a text without its terminator. *)

At(s, i) == IF i \in DOMAIN s THEN s[i] ELSE 0

\* The place behind a comment: behind its last byte, or the end of the text.
CommentEnd(s, i) ==
  IF At(s, i + 1) = 47
  THEN Min({j + 1 : j \in {k \in i + 2 .. Len(s) : s[k] = NEWLINE}} \cup {Len(s) + 1})
  ELSE Min({j + 2 : j \in {k \in i + 2 .. Len(s) : s[k] = 42 /\ At(s, k + 1) = 47}}
             \cup {Len(s) + 1})

\* Seeded defect: a string ends at the first quote.
RECURSIVE MinifyToQuote(_, _)
MinifyToQuote(s, i) ==
  IF i > Len(s) THEN i ELSE IF s[i] = QUOTE THEN i + 1 ELSE MinifyToQuote(s, i + 1)

RECURSIVE minify_string(_, _)
\* The place behind the string whose bytes go on at i: only \" is known as an escape.
minify_string(s, i) ==
  IF i > Len(s) THEN i
  ELSE IF s[i] = QUOTE THEN i + 1
  ELSE IF s[i] = BACKSLASH /\ At(s, i + 1) = QUOTE THEN minify_string(s, i + 2)
  ELSE minify_string(s, i + 1)

RECURSIVE Minified(_, _)
Minified(s, i) ==
  IF i > Len(s) THEN <<>>
  ELSE IF s[i] \in {SPACE, TAB, 13, NEWLINE} THEN Minified(s, i + 1)
  ELSE IF s[i] = 47 /\ At(s, i + 1) \in {47, 42} THEN Minified(s, CommentEnd(s, i))
  ELSE IF s[i] = 47 THEN Minified(s, i + 1)
  ELSE IF s[i] = QUOTE
       THEN LET next == minify_string(s, i + 1) IN SubSeq(s, i, next - 1) \o Minified(s, next)
  ELSE <<s[i]>> \o Minified(s, i + 1)

cJSON_Minify(s) == Minified(s, 1)
=============================================================================
