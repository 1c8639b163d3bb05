---------------------------- MODULE HttpResponse ----------------------------
(***************************************************************************)
(* http_response_create of lib/http_response.c: the string calls that fill *)
(* the headers of a response and put the response together, on buffers of  *)
(* the sizes it allocates.  A character is the text it comes from and its  *)
(* place there; "nul" ends a string and "any" is memory nobody wrote yet.  *)
(***************************************************************************)
EXTENDS Integers, Sequences, SequencesExt, FiniteSetsExt

CONSTANT Digits(_)  \* characters of a number

VARIABLES
  status,               \* the arguments: a status code and the lengths of the
  headersLen, bodyLen,  \* headers, which every caller passes, and of the body
  headers,              \* res->headers
  response,             \* res->stringified
  pc                    \* the next call
vars == <<status, headersLen, bodyLen, headers, response, pc>>

----------------------------------------------------------------------------
(* Texts and what the C library does with them. *)

Text(name, n) == [i \in 1 .. n |-> <<name, i>>]
Nul == <<"nul", 0>>
Unwritten == <<"any", 0>>

DefaultHeaders == Text("default", 43)
DateHeader == Text("date", 36)
LengthHeader == Text("length", 17 + Digits(bodyLen))
HeadersLength == headersLen + Len(DefaultHeaders) + Digits(bodyLen) + 18 + Len(DateHeader)

StatusLine(code) == CASE code = 200 -> Text("200 OK", 16)
                      [] code = 400 -> Text("400 Bad Request", 25)
                      [] code = 404 -> Text("404 Not Found", 23)
                      [] code = 405 -> Text("405 Method Not Allowed", 32)
                      [] OTHER -> Text("500 Internal Server Error", 35)

\* The string in a buffer: up to its first terminator, all of it if there is none.
StringIn(buf) == SubSeq(buf, 1, SelectInSeq(Append(buf, Nul), LAMBDA c : c = Nul) - 1)

\* text put at a place: the part of it that is inside the block.
Put(buf, at, text) ==
  [i \in 1 .. Len(buf) |-> IF i \in at .. at + Len(text) - 1 THEN text[i - at + 1] ELSE buf[i]]

First(n, text) == SubSeq(text, 1, Min({n, Len(text)}))
Padding(n) == [i \in 1 .. n |-> Nul]

\* No terminator unless the text is shorter than n, then n is filled with them.
strncpy(buf, text, n) ==
  Put(buf, 1, IF Len(text) >= n THEN First(n, text) ELSE text \o Padding(n - Len(text)))

\* Appends at most n characters and a terminator at the first terminator.
strncat(buf, text, n) ==
  Put(buf, Len(StringIn(buf)) + 1, First(n, text) \o <<Nul>>)

----------------------------------------------------------------------------
Start(r) ==
  /\ status = r.status /\ headersLen = r.headersLen /\ bodyLen = r.bodyLen
  /\ headers = [i \in 1 .. HeadersLength + 1 |-> Unwritten]
  /\ response = <<>>
  /\ pc = "defaults"

CopyDefaults ==
  /\ pc = "defaults"
  /\ headers' = strncpy(strncpy(headers, DefaultHeaders, Len(DefaultHeaders)),
                        DateHeader, Len(DateHeader))
  /\ pc' = "length"
  /\ UNCHANGED <<status, headersLen, bodyLen, response>>

\* Nothing ended the string yet: the append goes to whichever byte of the fresh memory
\* happens to be zero.  What it writes may reach behind the block, and if the block has no
\* zero all of it is behind: other memory is overwritten, and the model ends there.
AppendLength ==
  /\ pc = "length"
  /\ \E i \in 1 .. Len(headers) + 1 :
       /\ i <= Len(headers) => headers[i] = Unwritten
       /\ IF i + Digits(bodyLen) <= Len(headers)
          THEN /\ headers' = strncat([headers EXCEPT ![i] = Nul], LengthHeader, Digits(bodyLen))
               /\ pc' = "given"
          ELSE pc' = "overflow" /\ UNCHANGED headers
  /\ UNCHANGED <<status, headersLen, bodyLen, response>>

CopyGiven ==
  /\ pc = "given"
  /\ headers' = [strncpy(headers, Text("given", headersLen), HeadersLength)
                 EXCEPT ![HeadersLength + 1] = Nul]
  /\ pc' = "stringify"
  /\ UNCHANGED <<status, headersLen, bodyLen, response>>

TotalLength == bodyLen + HeadersLength + Len(StatusLine(status))

\* Seeded defect: the blank line comes after the body.
StringifyBodyFirst ==
  /\ pc = "stringify"
  /\ response' =
       LET line == strncat(Padding(TotalLength), StatusLine(status), Len(StatusLine(status)))
           head == strncat(line, StringIn(headers), HeadersLength)
       IN strncat(strncat(head, Text("body", bodyLen), bodyLen), Text("blank", 3), 4)
  /\ pc' = "done"
  /\ UNCHANGED <<status, headersLen, bodyLen, headers>>

\* http_response_stringify.
Stringify ==
  /\ pc = "stringify"
  /\ response' =
       LET zeroed == Padding(TotalLength)
           line == strncat(zeroed, StatusLine(status), Len(StatusLine(status)))
           head == strncat(line, StringIn(headers), HeadersLength)
           blank == strncat(head, Text("blank", 3), 4)
       IN strncat(blank, Text("body", bodyLen), bodyLen)
  /\ pc' = "done"
  /\ UNCHANGED <<status, headersLen, bodyLen, headers>>

Next == CopyDefaults \/ AppendLength \/ CopyGiven \/ Stringify

----------------------------------------------------------------------------
(* The response a client gets is the status line, the headers of the caller, a blank
   line and the body, wherever in the block line 56 found the end of a string: line 60
   rewrites all of it.  Nothing is said of a response whose line 56 wrote behind the block.  full_length, the strlen at line 66,
   finds a terminator inside the block of total_length bytes that line 77 allocates without
   counting one: the room reserved for the headers that line 60 wiped out is what the
   blank line and the terminator use.  *)
ResponseIsAsAsked ==
  pc = "done" =>
    /\ StringIn(response) = StatusLine(status) \o Text("given", headersLen)
                            \o Text("blank", 3) \o Text("body", bodyLen)
    /\ Len(StringIn(response)) < Len(response)
=============================================================================
