----------------------------- MODULE MCJsonText -----------------------------
(* Texts for JsonText: every short sequence of some bytes, and longer documents. *)
EXTENDS JsonText

CONSTANTS Alphabet, MaxText

a == 97
n == 110
u == 117
Plain(s) == [text |-> s, plain |-> s]
ShortTexts == {Plain(s) : s \in UNION {[1 .. k -> Alphabet] : k \in 0 .. MaxText}}

Str(s) == <<QUOTE>> \o s \o <<QUOTE>>
\* Control bytes, quotes, what \u spells out, and a slash that begins no comment.
Strings == {Str(<<>>), Str(<<a, SPACE, 47, 47>>), Str(<<BACKSLASH, n, BACKSLASH, QUOTE, a>>),
            Str(<<BACKSLASH, u, HEX + 1, BACKSLASH, u, HEX + 31, BACKSLASH, u, HEX + 65>>),
            Str(<<BACKSLASH, n, BACKSLASH, n, BACKSLASH, n>>), Str(<<BACKSLASH, BACKSLASH>>)}
\* Units at the borders of UTF-8 and of the halves of a pair, alone and in twos; -1 stands
\* for digits that are none.
Borders == {-1, 0, 1, 127, 128, 2047, 2048, 55295, 55296, 56319, 56320, 57343, 57344, 65535}
Unit(c) == <<BACKSLASH, u, HEX + c>>
Literals == {Str(Unit(c)) : c \in Borders} \cup {Str(Unit(c) \o Unit(d)) : c, d \in Borders}
\* What is no JSON though it is parsed, and numbers of too many characters.
Mark == <<239, 187, 191>>
Loose == {<<8, 49>>, Str(<<8>>), <<48, 49>>, <<MINUS, 48, 48>>, Mark \o <<49>>, Mark,
          Str(<<BACKSLASH, u, BadHex, BACKSLASH, a>>), <<49, 49, 49, 49, 49>>,
          <<49, 49, 49, 49, 49, 49>>, <<MINUS, 49, 49, 49, 49, 49>>}
Atoms == {<<NULL>>, <<TRUE_>>, <<FALSE_>>, <<MINUS, 49, 48>>, <<48>>} \cup Strings
Array(s, w) == <<LBRACKET>> \o w \o s \o <<RBRACKET>>
Object(k, s, w) == <<LBRACE>> \o w \o k \o <<COLON>> \o w \o s \o <<RBRACE>>
Two(s, t, w) == s \o <<COMMA>> \o w \o t

\* Lists, and lists in lists.
Lists1 == UNION {{Array(s, w), Object(Str(<<a>>), s, w)} : s \in Atoms, w \in {<<>>, <<TAB>>}}
Lists2 == {Array(Two(s, t, <<SPACE>>), <<>>) : s \in Strings, t \in Strings}
            \cup {Object(k, Two(s, Str(<<a>>) \o <<COLON>> \o s, <<>>), <<NEWLINE>>) :
                    k \in Strings, s \in {<<NULL>>, Str(<<8>>)}}
            \cup {Array(Two(s, Object(Str(<<>>), s, <<>>), <<>>), <<>>) : s \in Lists1}
            \cup {Array(Array(s, <<>>), <<>>) : s \in Lists1}
            \cup {Array(<<>>, <<>>), Object(<<>>, <<>>, <<>>), Array(Array(<<>>, <<>>), <<SPACE>>)}

\* Lists as deep as the limit and deeper.
Deep1(s) == {Array(s, <<>>), Object(Str(<<>>), s, <<>>)}
Deep2(s) == UNION {Deep1(t) : t \in Deep1(s)}
Lists3 == UNION {Deep2(s) : s \in {Array(<<>>, <<>>), Object(Str(<<a>>), <<NULL>>, <<>>)}}
Lists4 == UNION {Deep1(s) : s \in Lists3}

\* A comment at the beginning, at the end, or in the middle; plain has none.
Commented == {[text |-> <<47, 42, a, 42, 47>> \o s, plain |-> s] : s \in Lists1}
               \cup {[text |-> s \o <<47, 47, QUOTE>>, plain |-> s] : s \in Lists1}
               \cup {[text |-> <<LBRACKET, 47, 47, COMMA, NEWLINE>> \o Tail(s), plain |-> s] :
                       s \in {Array(t, <<>>) : t \in Atoms}}
Documents == {Plain(s) : s \in Literals \cup Atoms \cup Lists1 \cup Lists2 \cup Loose
                                   \cup Lists3 \cup Lists4} \cup Commented

SomeTexts == ShortTexts \cup Documents
=============================================================================
