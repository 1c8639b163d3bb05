------------------------------ MODULE JsonText ------------------------------
(***************************************************************************)
(* What a caller does with the texts of lib/c_json.c: parse one, print the *)
(* value in one of the ways there are, or minify the text, and parse what  *)
(* came out.  Denotes is the grammar the texts are held against.           *)
(***************************************************************************)
EXTENDS JsonPrint

CONSTANTS
  Sources, \* the texts to begin with: [text, plain], plain is text without its comments
  Rooms    \* sizes of the buffers a caller prints into

(* The grammar: what a text denotes, as the set of its readings.  It is that of JSON, in which
   \u names a character by one unit or by a whole pair of them, and is loose where the parser
   takes more than JSON:
     - any byte up to SPACE is white space (buffer_skip_whitespace);
     - a byte order mark may come first (skip_utf8_bom);
     - a string may hold control bytes as they are (parse_string);
     - a number may begin with zeros (strtod);
     - digits behind \u that are none count as 0, and the character 0 ends the string
       (parse_hex4 and the C strings of an item).  *)

White(c, loose) == c \in {SPACE, TAB, NEWLINE, 13} \/ (loose /\ c <= 32)
RECURSIVE Trim(_, _)
Trim(s, loose) == IF s = <<>> THEN s
                  ELSE IF White(Head(s), loose) THEN Trim(Tail(s), loose)
                  ELSE IF White(Last(s), loose) THEN Trim(Front(s), loose) ELSE s
Inner(s) == SubSeq(s, 2, Len(s) - 1)
Between(s, open, close) == Len(s) >= 2 /\ Head(s) = open /\ Last(s) = close

\* UTF-8: k bytes hold 5k + 1 bits, a single one 7.
Utf8Of(code) ==
  LET k == Min({l \in 2 .. 4 : code < 2 ^ ((5 * l) + 1)})
      rest == [i \in 2 .. k |-> 128 + ((code \div 64 ^ (k - i)) % 64)]
  IN IF code < 128 THEN <<code>>
     ELSE <<256 - (2 ^ (8 - k)) + (code \div 64 ^ (k - 1))>> \o [i \in 1 .. k - 1 |-> rest[i + 1]]

\* The code a literal of UTF-16 with these units names: no half of a pair alone.
Named(units) ==
  IF Len(units) = 1 THEN {units[1]} \cap ((0 .. 65535) \ (55296 .. 57343))
  ELSE IF units[1] \in 55296 .. 56319 /\ units[2] \in 56320 .. 57343
       THEN {65536 + ((units[1] - 55296) * 1024) + units[2] - 56320} ELSE {}

RECURSIVE Characters(_, _)
\* The bytes a string stands for.
Characters(s, loose) ==
  LET Unit(i) == IF Len(s) < i + 2 \/ s[i] # BACKSLASH \/ s[i + 1] # 117 THEN <<>>
                 ELSE IF s[i + 2] >= HEX THEN <<s[i + 2] - HEX>>
                 ELSE IF loose /\ s[i + 2] = BadHex THEN <<0>> ELSE <<>>
  IN CASE s = <<>> -> {<<>>}
       [] s # <<>> /\ Head(s) \notin {QUOTE, BACKSLASH} ->
            IF Head(s) < 32 /\ ~loose THEN {}
            ELSE {<<Head(s)>> \o c : c \in Characters(Tail(s), loose)}
       [] Len(s) >= 2 /\ Head(s) = BACKSLASH /\ s[2] \in DOMAIN Escapes ->
            {<<Escapes[s[2]]>> \o c : c \in Characters(SubSeq(s, 3, Len(s)), loose)}
       [] OTHER ->
            UNION {{Utf8Of(code) \o c : code \in Named(units),
                      c \in Characters(SubSeq(s, (3 * Len(units)) + 1, Len(s)), loose)} :
                     units \in IF Unit(1) = <<>> THEN {} ELSE {Unit(1), Unit(1) \o Unit(4)}}
StringsOf(s, loose) ==
  IF ~Between(s, QUOTE, QUOTE) THEN {}
  ELSE {IF loose THEN CString(c) ELSE c : c \in Characters(Inner(s), loose)}

IntegersOf(s, loose) ==
  LET digits == IF s # <<>> /\ Head(s) = MINUS THEN Tail(s) ELSE s
      n == Decimal(digits)
  IN IF digits # <<>> /\ (\A i \in DOMAIN digits : digits[i] \in Digits)
          /\ (Len(digits) = 1 \/ Head(digits) # 48 \/ loose)
     THEN {Number(IF digits = s THEN n ELSE -n)} ELSE {}

RECURSIVE Denotes(_, _), Lists(_, _, _)

\* Comma separated elements, or members of an object.
Lists(s, kind, loose) ==
  LET One(t) ==
        IF kind = "array" THEN Denotes(t, loose)
        ELSE UNION {{<<n, v>> : n \in StringsOf(Trim(SubSeq(t, 1, i - 1), loose), loose),
                                v \in Denotes(SubSeq(t, i + 1, Len(t)), loose)} :
                      i \in {j \in DOMAIN t : t[j] = COLON}}
  IN {<<v>> : v \in One(s)} \cup
     UNION {{<<v>> \o l : v \in One(SubSeq(s, 1, i - 1)),
                          l \in Lists(SubSeq(s, i + 1, Len(s)), kind, loose)} :
              i \in {j \in DOMAIN s : s[j] = COMMA}}

Denotes(s, loose) ==
  LET t == Trim(s, loose)
      Bracketed(kind, open, close) ==
        IF ~Between(t, open, close) THEN {}
        ELSE IF Trim(Inner(t), loose) = <<>> THEN {<<kind, <<>>>>}
        ELSE {<<kind, l>> : l \in Lists(Inner(t), kind, loose)}
  IN CASE t = <<NULL>> -> {<<"null">>} [] t = <<TRUE_>> -> {<<"true">>}
       [] t = <<FALSE_>> -> {<<"false">>}
       [] OTHER -> IntegersOf(t, loose) \cup {<<"string", c>> : c \in StringsOf(t, loose)}
                     \cup Bracketed("array", LBRACKET, RBRACKET)
                     \cup Bracketed("object", LBRACE, RBRACE)

Json(s) == Denotes(s, FALSE)
LooseJson(s) ==
  Denotes(IF IsPrefix(<<239, 187, 191>>, s) THEN SubSeq(s, 4, Len(s)) ELSE s, TRUE)

----------------------------------------------------------------------------
(* What a value is made of. *)

PartsOf(v) == IF v[1] = "array" THEN Range(v[2])
            ELSE IF v[1] = "object" THEN {m[2] : m \in Range(v[2])} ELSE {}
MemberNames(v) == IF v[1] = "object" THEN {m[1] : m \in Range(v[2])} ELSE {}

RECURSIVE Depth(_), Texts(_), Numbers(_)
Depth(v) == IF v[1] \notin {"array", "object"} THEN 0
            ELSE 1 + Max({0} \cup {Depth(w) : w \in PartsOf(v)})
Texts(v) == (IF v[1] = "string" THEN {v[2]} ELSE MemberNames(v)) \cup UNION {Texts(w) : w \in PartsOf(v)}
Numbers(v) == IF v[1] = "number" THEN {v} ELSE UNION {Numbers(w) : w \in PartsOf(v)}

\* What the library has room for: so many lists in each other, numbers of so many
\* characters, and strings without the character 0.
Supported(v) == /\ Depth(v) <= NESTING_LIMIT
                /\ \A n \in Numbers(v) : Len(print_number(n[2])[1].s) <= NumberLength
                /\ \A s \in Texts(v) : 0 \notin Range(s)
EndsInBackslash(v) == \E s \in Texts(v) : s # <<>> /\ Last(s) = BACKSLASH

----------------------------------------------------------------------------
VARIABLES
  source,   \* the text it began with
  text,     \* the text there is now
  minified, \* whether it came through cJSON_Minify
  value,    \* what was parsed
  printed,  \* what the last print left
  format,   \* and how it printed
  step      \* what there is: a text, a value, or a failure

vars == <<source, text, minified, value, printed, format, step>>

\* What the parser owes the caller for a text.
Promised(s) == {v \in Json(s) : Supported(v)}

Init == source \in Sources /\ text = source.text /\ value = <<>> /\ step = "text"
        /\ minified = FALSE /\ printed = PrintBuffer(0, TRUE) /\ format = TRUE

Parse ==
  /\ step \in {"text", "printed", "minified"}
  /\ LET r == cJSON_ParseWithOpts(text, TRUE)
     IN value' = r.value /\ step' = IF r.ok THEN "value" ELSE "refused"
  /\ UNCHANGED <<source, text, minified, printed, format>>

PrintInto(p, f) ==
  /\ step = "value"
  /\ printed' = p /\ format' = f
  /\ IF printed'.ok THEN text' = printed'.text /\ step' = "printed"
     ELSE UNCHANGED text /\ step' = "unprinted"
  /\ UNCHANGED <<source, minified, value>>

PrintText(f) == PrintInto(cJSON_Print(value, f), f)
PrintBuffered(n, f) == PrintInto(cJSON_PrintBuffered(value, n, f), f)
PrintPreallocated(n, f) == PrintInto(cJSON_PrintPreallocated(value, n, f), f)

\* What is minified is JSON, with comments or without.
Minify ==
  /\ step = "text" /\ Promised(source.plain) # {}
  /\ text' = cJSON_Minify(text)
  /\ minified' = TRUE /\ step' = "minified"
  /\ UNCHANGED <<source, value, printed, format>>

Next == \/ Parse \/ Minify
        \/ \E f \in BOOLEAN : \/ PrintText(f)
                              \/ \E n \in Rooms : PrintBuffered(n, f) \/ PrintPreallocated(n, f)
Spec == Init /\ [][Next]_vars

----------------------------------------------------------------------------
(* A text of JSON is parsed to what it denotes, at once and again after it was printed in
   any way, unless it asks for more than Supported: lists in each other beyond the limit, a
   number of too many characters, or the character 0.  Of all other texts only those are
   parsed that the loose grammar reads, to what it reads in them, and lists beyond the limit
   never are; a parser that does not require the end of the text behind the value parses
   what the bytes it consumed denote (c_json.c:1037-1172, 1312-1364, 1441-1711).  *)
ValueIsDenoted ==
  ~minified =>
    /\ step = "refused" => Promised(source.text) = {}
    /\ step = "value" =>
         IF Promised(source.text) # {} THEN value \in Promised(source.text)
         ELSE value \in LooseJson(source.text) /\ Depth(value) <= NESTING_LIMIT
    /\ step = "text" => LET r == cJSON_Parse(text)
                        IN r.ok => r.value \in LooseJson(SubSeq(text, 1, r.at - 1))

\* What was minified is parsed to what its text denotes without the comments.
MeaningSurvives ==
  /\ step # "refused"
  /\ step = "value" => value \in Promised(source.plain)

(* A text of JSON means the same after its comments and blanks were taken out, unless one
   of its strings ends in a backslash, which the minifier takes for the escape of the quote
   behind it (c_json.c:2789-2884).  *)
MinifyKeepsMeaning ==
  minified /\ (\A v \in Json(source.plain) : ~EndsInBackslash(v)) => MeaningSurvives

\* What parse_string allocates in advance (c_json.c:787-812) holds all it writes, the
\* terminator included, however many escapes shrink, and when it gives up half-way as well.
StringsFit ==
  step \in {"text", "printed"} =>
    \A p \in {i \in DOMAIN text : text[i] = QUOTE} :
      StringEnd(text, p + 1) # 0 =>
        Len(parse_string(text, p).value) + 1 <= allocation_length(text, p)

\* The printer writes nothing behind the room that ensure gave it (c_json.c:439-522).
PrintsFit == printed.within

\* A buffer that may grow is enough (c_json.c:439-522), and so is one of the caller's that
\* has a byte more than the text and its terminator, where c_json.h:162 advises 5.
RoomSuffices ==
  step = "unprinted" =>
    printed.noalloc /\ printed.length <= Bytes(cJSON_Print(value, format).text) + 1

(* Room that is measured in advance is enough, and nothing is written behind it: by the
   parser for the strings of any text, valid or not, and by the printer, whose blocks grow
   or are the caller's (c_json.c:439-522, 787-812).  *)
WritesFit == StringsFit /\ PrintsFit /\ RoomSuffices
=============================================================================
