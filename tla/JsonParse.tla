----------------------------- MODULE JsonParse ------------------------------
(***************************************************************************)
(* The parser of lib/c_json.c.  A text is a sequence of numbers: the ASCII *)
(* codes of its bytes, 1000 to 1002 for the words null, false and true,    *)
(* and for the four digits after \u the code unit they name above HEX, or  *)
(* BadHex.  Numbers are integers.  A value is <<kind>> or <<kind, what it  *)
(* holds>>; the members of an object are pairs of a name and a value.      *)
(***************************************************************************)
EXTENDS Integers, Sequences, SequencesExt, FiniteSets, FiniteSetsExt

CONSTANTS
  NESTING_LIMIT, \* CJSON_NESTING_LIMIT: 1000
  INT_MAX,       \* of the int of valueint and of a buffer's size
  NumberLength   \* the 63 characters parse_number copies

ASSUME JsonParseAssumption == {NESTING_LIMIT, INT_MAX, NumberLength} \subseteq Nat \ {0}

QUOTE == 34
BACKSLASH == 92
COMMA == 44
COLON == 58
LBRACKET == 91
RBRACKET == 93
LBRACE == 123
RBRACE == 125
MINUS == 45
PLUS == 43
SPACE == 32
NEWLINE == 10
TAB == 9
NULL == 1000
FALSE_ == 1001
TRUE_ == 1002
HEX == 65536
BadHex == 65535
Digits == 48 .. 57

Count(s, P(_)) == Cardinality({i \in DOMAIN s : P(s[i])})
Bytes(s) == Len(s) + (4 * Count(s, LAMBDA c : c = FALSE_))
                   + (3 * Count(s, LAMBDA c : c \in {NULL, TRUE_} \/ c >= BadHex))
Within(b, i, j) == Bytes(SubSeq(b, i, j))

\* What a parse function returns: the value and the place behind it.
Parsed(v, p) == [ok |-> TRUE, value |-> v, at |-> p]
Refused == [ok |-> FALSE, value |-> <<>>, at |-> 0]
Is(b, p, c) == p <= Len(b) /\ b[p] = c

\* Everything up to SPACE is white, the terminator of the text as well; a place behind the
\* end is left alone, but the end is stepped back from.
skip_whitespace(b, p) ==
  IF p > Len(b) THEN p ELSE Min({i \in p .. Len(b) : b[i] > 32} \cup {Len(b)})

skip_utf8_bom(b) ==
  IF Bytes(b) > 4 /\ IsPrefix(<<239, 187, 191>>, b) THEN 4 ELSE 1

----------------------------------------------------------------------------
(* Strings. *)

RECURSIVE StringEnd(_, _)
\* The closing quote of a string, 0 without one: a backslash hides what follows it.
StringEnd(b, i) ==
  IF i > Len(b) THEN 0
  ELSE IF b[i] = QUOTE THEN i
  ELSE IF b[i] = BACKSLASH THEN IF i + 1 > Len(b) THEN 0 ELSE StringEnd(b, i + 2)
  ELSE StringEnd(b, i + 1)

\* Seeded defect: the byte behind a backslash is not counted either.
RECURSIVE HiddenBoth(_, _, _)
HiddenBoth(b, i, end) ==
  IF i >= end THEN 0
  ELSE IF b[i] = BACKSLASH THEN 2 + HiddenBoth(b, i + 2, end) ELSE HiddenBoth(b, i + 1, end)

\* The bytes allocated for the string at p: one less for each backslash that hides a byte.
RECURSIVE Hidden(_, _, _)
Hidden(b, i, end) ==
  IF i >= end THEN 0
  ELSE IF b[i] = BACKSLASH THEN 1 + Hidden(b, i + 2, end) ELSE Hidden(b, i + 1, end)
allocation_length(b, p) ==
  LET end == StringEnd(b, p + 1) IN Within(b, p, end - 1) - Hidden(b, p + 1, end) + 1

Escapes == [c \in {98, 102, 110, 114, 116, QUOTE, BACKSLASH, 47} |->
              CASE c = 98 -> 8 [] c = 102 -> 12 [] c = 110 -> NEWLINE
                [] c = 114 -> 13 [] c = 116 -> TAB [] OTHER -> c]

\* What is no digit counts as 0.
parse_hex4(c) == IF c >= HEX THEN c - HEX ELSE 0

\* A byte of UTF-8 behind the first: six bits of the code, n of them further on.
Tail6(code, n) == 128 + ((code \div 64 ^ n) % 64)

\* Seeded defect: three bytes from the first code on that two can not hold in full.
utf8_wide(code) ==
  CASE code < 128 -> <<code>>
    [] code \in 128 .. 4095 -> <<192 + code \div 64, Tail6(code, 0)>>
    [] code \in 4096 .. 65535 -> <<224 + code \div 4096, Tail6(code, 1), Tail6(code, 0)>>
    [] OTHER -> <<240 + code \div 262144, Tail6(code, 2), Tail6(code, 1), Tail6(code, 0)>>

utf8(code) ==
  CASE code < 128 -> <<code>>
    [] code \in 128 .. 2047 -> <<192 + code \div 64, Tail6(code, 0)>>
    [] code \in 2048 .. 65535 -> <<224 + code \div 4096, Tail6(code, 1), Tail6(code, 0)>>
    [] OTHER -> <<240 + code \div 262144, Tail6(code, 2), Tail6(code, 1), Tail6(code, 0)>>

\* The \u at i, with its second half if it is the first of two: what it stands for and
\* the place behind it.
utf16_literal_to_utf8(b, i, end) ==
  LET first == parse_hex4(b[i + 2])
      second == parse_hex4(b[i + 5])
  IN IF Within(b, i, end - 1) < 6 \/ first \in 56320 .. 57343 THEN Refused
     ELSE IF first \notin 55296 .. 56319 THEN Parsed(utf8(first), i + 3)
     ELSE IF Within(b, i + 3, end - 1) < 6 \/ b[i + 3] # BACKSLASH \/ b[i + 4] # 117
          THEN Refused
     ELSE IF second \notin 56320 .. 57343 THEN Refused
     ELSE Parsed(utf8(65536 + ((first - 55296) * 1024) + second - 56320), i + 6)

\* A string that is given up half-way, with what was written of it.
Abandoned(out) == [Refused EXCEPT !.value = out]

RECURSIVE Unescape(_, _, _, _)
Unescape(b, i, end, out) ==
  IF i >= end THEN Parsed(out, end + 1)
  ELSE IF b[i] # BACKSLASH THEN Unescape(b, i + 1, end, Append(out, b[i]))
  ELSE IF b[i + 1] \in DOMAIN Escapes
       THEN Unescape(b, i + 2, end, Append(out, Escapes[b[i + 1]]))
  ELSE IF b[i + 1] = 117
       THEN LET r == utf16_literal_to_utf8(b, i, end)
            IN IF r.ok THEN Unescape(b, r.at, end, out \o r.value) ELSE Abandoned(out)
  ELSE Abandoned(out)

parse_string(b, p) ==
  IF ~Is(b, p, QUOTE) \/ StringEnd(b, p + 1) = 0 THEN Refused
  ELSE Unescape(b, p + 1, StringEnd(b, p + 1), <<>>)

\* What is left of a C string.
CString(s) == SubSeq(s, 1, SelectInSeq(Append(s, 0), LAMBDA c : c = 0) - 1)

----------------------------------------------------------------------------
(* Numbers. *)

Decimal(digits) == FoldLeft(LAMBDA n, d : (n * 10) + d - 48, 0, digits)
Saturate(n) == IF n >= INT_MAX THEN INT_MAX ELSE IF n <= -INT_MAX - 1 THEN -INT_MAX - 1 ELSE n
Number(n) == <<"number", n, Saturate(n)>>

\* The characters a number may have are copied, as many as there is room for, and strtod
\* reads what it can of them: a sign and digits.
parse_number(b, p) ==
  LET stop == Min({i \in p .. Len(b) : b[i] \notin Digits \cup {MINUS, PLUS}}
                    \cup {Len(b) + 1, p + NumberLength})
      first == IF b[p] = MINUS THEN p + 1 ELSE p
      last == Min({i \in first .. stop - 1 : b[i] \notin Digits} \cup {stop})
      n == Decimal(SubSeq(b, first, last - 1))
  IN IF last <= first THEN Refused
     ELSE Parsed(Number(IF b[p] = MINUS THEN -n ELSE n), last)

----------------------------------------------------------------------------
(* Values. *)

\* The comma separated items of a list up to the bracket that closes it.  At an item or a
\* name the parser is one place further on, and steps over the white space there.
RECURSIVE parse_value(_, _, _), Elements(_, _, _, _), Members(_, _, _, _)

Elements(b, p, depth, items) ==
  LET r == parse_value(b, skip_whitespace(b, p + 1), depth)
      next == skip_whitespace(b, r.at)
  IN IF ~r.ok THEN Refused
     ELSE IF Is(b, next, COMMA) THEN Elements(b, next, depth, Append(items, r.value))
     ELSE IF Is(b, next, RBRACKET) THEN Parsed(Append(items, r.value), next + 1)
     ELSE Refused

Members(b, p, depth, items) ==
  LET name == parse_string(b, skip_whitespace(b, p + 1))
      colon == skip_whitespace(b, name.at)
      r == parse_value(b, skip_whitespace(b, colon + 1), depth)
      next == skip_whitespace(b, r.at)
      all == Append(items, <<CString(name.value), r.value>>)
  IN IF ~name.ok \/ ~Is(b, colon, COLON) \/ ~r.ok THEN Refused
     ELSE IF Is(b, next, COMMA) THEN Members(b, next, depth, all)
     ELSE IF Is(b, next, RBRACE) THEN Parsed(all, next + 1)
     ELSE Refused

ListOf(b, p, depth, kind, close, Items(_, _, _, _)) ==
  LET first == skip_whitespace(b, p + 1)
      r == Items(b, first - 1, depth + 1, <<>>)
  IN IF depth >= NESTING_LIMIT THEN Refused
     ELSE IF Is(b, first, close) THEN Parsed(<<kind, <<>>>>, first + 1)
     ELSE IF first > Len(b) \/ ~r.ok THEN Refused
     ELSE Parsed(<<kind, r.value>>, r.at)

parse_array(b, p, depth) == ListOf(b, p, depth, "array", RBRACKET, Elements)
parse_object(b, p, depth) == ListOf(b, p, depth, "object", RBRACE, Members)

parse_value(b, p, depth) ==
  IF p > Len(b) THEN Refused
  ELSE CASE b[p] = NULL -> Parsed(<<"null">>, p + 1)
         [] b[p] = FALSE_ -> Parsed(<<"false">>, p + 1)
         [] b[p] = TRUE_ -> Parsed(<<"true">>, p + 1)
         [] b[p] = QUOTE -> LET r == parse_string(b, p)
                            IN [r EXCEPT !.value = <<"string", CString(@)>>]
         [] b[p] \in Digits \cup {MINUS} -> parse_number(b, p)
         [] b[p] = LBRACKET -> parse_array(b, p, depth)
         [] b[p] = LBRACE -> parse_object(b, p, depth)
         [] OTHER -> Refused

cJSON_ParseWithLengthOpts(b, require_null_terminated) ==
  LET r == parse_value(b, skip_whitespace(b, skip_utf8_bom(b)), 0)
  IN IF b = <<>> \/ ~r.ok THEN Refused
     ELSE IF require_null_terminated /\ ~Is(b, skip_whitespace(b, r.at), 0) THEN Refused
     ELSE r

cJSON_ParseWithOpts(text, require_null_terminated) ==
  cJSON_ParseWithLengthOpts(Append(text, 0), require_null_terminated)
cJSON_Parse(text) == cJSON_ParseWithOpts(text, FALSE)
=============================================================================
