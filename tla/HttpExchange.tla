---------------------------- MODULE HttpExchange ----------------------------
(***************************************************************************)
(* One exchange of a client with the libraries of src/srv/lib: a head is   *)
(* parsed again each time more of it arrives, a chunked body behind it is  *)
(* decoded piece by piece, and a response is put together.  The handlers   *)
(* call phr_parse_request and http_response_create in this order           *)
(* (handler.c:208-352); nothing under src/ calls the decoder or the other  *)
(* two parsers, whose caller is the one their header describes.            *)
(***************************************************************************)
EXTENDS Integers, Sequences, FiniteSets

CONSTANTS
  Exchanges,  \* what may happen: [head, body, reply, upto]
  MaxHeaders, \* room for headers
  MaxDigits,  \* hex digits of a size_t
  Digits(_)   \* characters of a number

ASSUME HttpExchangeAssumption == MaxHeaders \in Nat /\ MaxDigits \in Nat \ {0}

\* The lengths the callers pass are sizes, and the characters of each can be counted.
ASSUME RepliesAssumption ==
  \A e \in Exchanges : /\ e.reply.headersLen \in Nat /\ e.reply.bodyLen \in Nat
                       /\ Digits(e.reply.bodyLen) \in Nat

VARIABLES
  upto,                                        \* bound: the last part that is followed
  msg, len, last, res,                         \* the head
  body, given, decoder, data, ret,             \* the body
  status, headersLen, bodyLen, headers, response, pc  \* the reply

headVars == <<msg, len, last, res>>
bodyVars == <<body, given, decoder, data, ret>>
replyVars == <<status, headersLen, bodyLen, headers, response, pc>>
vars == <<upto, headVars, bodyVars, replyVars>>

Parser == INSTANCE PicoHttpParser
Decoder == INSTANCE ChunkedDecoder
Reply == INSTANCE HttpResponse

\* The bodies are those that one call decodes as they were put together.
ASSUME BodiesAssumption == \A e \in Exchanges : Decoder!InOnePiece(e.body)

\* The heads are those that one call parses as they were put together.
ASSUME HeadsAssumption == \A e \in Exchanges : Parser!InOnePiece(e.head)

Init == \E e \in Exchanges : /\ upto = e.upto
                             /\ Parser!Start(e.head) /\ Decoder!Start(e.body) /\ Reply!Start(e.reply)

HeadArrives == Parser!Next /\ UNCHANGED <<upto, bodyVars, replyVars>>

\* Bound: a body is followed behind a head that came in one piece.
BodyArrives ==
  /\ upto # "head" /\ Parser!Accepted /\ last = 0
  /\ Decoder!Next /\ UNCHANGED <<upto, headVars, replyVars>>

\* Bound: a reply is followed behind a head and a body that came in one piece.
ReplyIsMade ==
  /\ upto = "reply" /\ Parser!Accepted /\ last = 0 /\ Decoder!Finished
  /\ Reply!Next /\ UNCHANGED <<upto, headVars, bodyVars>>

Next == HeadArrives \/ BodyArrives \/ ReplyIsMade
Spec == Init /\ [][Next]_vars

----------------------------------------------------------------------------
(* A head is accepted exactly if it is well-formed, wherever the network cuts it
   (picohttpparser.c:355-520).  *)
AcceptsTheGrammar == Parser!AcceptsTheGrammar

(* The decoder finds what the chunks hold, wherever the network cuts them
   (picohttpparser.c:522-665).  *)
DecodesTheChunks == Decoder!DecodesTheChunks

(* The response is what its caller asked for, and ends inside its block
   (http_response.c:26-108).  *)
ResponseIsAsAsked == Reply!ResponseIsAsAsked
=============================================================================
