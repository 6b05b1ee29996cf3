------------------------------ MODULE Exchange ------------------------------
(***************************************************************************)
(* fossil_net_request_send over one connection (code/logic/request.c): a   *)
(* request is built, sent with one send, and whatever one receive returns  *)
(* is parsed as its response.  The caller changes headers and the mode of  *)
(* the socket between calls; a server answers, or closes; the network      *)
(* delivers what was sent in pieces.                                       *)
(*                                                                         *)
(* Received data is a sequence of tokens, each with the number of the call *)
(* it answers.  Token "crlf" ends a line, the other tokens hold no end of  *)
(* line.  Header values are not empty and header lines fit their buffers.  *)
(***************************************************************************)
EXTENDS Request

CONSTANTS
  MaxCalls,   \* how many requests the caller sends
  BufSize,    \* recv_buf[16384], in tokens
  Strays,     \* what may lie behind recv_buf in memory, up to the next NUL
  HeaderCounts, BodyParts   \* the responses of the server: how many headers,
                            \* and the bodies

ASSUME ExchangeAssumption ==
  /\ MaxCalls \in Nat
  /\ BufSize \in Nat \ {0}
  /\ Strays \subseteq Seq({"text", "crlf"}) /\ Strays # {}
  /\ HeaderCounts \subseteq Nat
  /\ BodyParts \subseteq Seq({"text", "crlf"})

VARIABLES
  blocking,  \* the mode of the socket
  up,        \* requests on their way: [call, close, whole]
  down,      \* tokens on their way back
  conn,      \* "open", "fin" (the server has closed) or "reset"
  pc,        \* "idle", "receiving", or "dead" when the process has died
  call,      \* the number of the latest call
  buf,       \* what is left in recv_buf
  res,       \* the response structure
  ret,       \* what the latest call returned
  heap,      \* how many response bodies are allocated
  answer,    \* history: the latest response of the server
  clean      \* history: see below

xvars == <<blocking, up, down, conn, pc, call, buf, res, ret, heap, answer, clean>>
vars  == <<rvars, xvars>>

-----------------------------------------------------------------------------
(* The parser (fossil__http_parse_response).                               *)
None     == <<>>   \* a NULL body; <<b>> is body b
EmptyRes == [status |-> 0, headers |-> <<>>, body |-> None]

IsCrlf(s, j)    == j \in DOMAIN s /\ s[j].part = "crlf"
LineStart(s, j) == j > 1 /\ IsCrlf(s, j - 1)

\* sscanf finds a status only at the very beginning.
Status(s) == IF s # <<>> /\ s[1].part = "status" THEN s[1].call ELSE 0

\* Where the header loop ends: at a line that is empty or at the end of the
\* string.  If there is no such line strstr is called with NULL.
Stops(s) == {j \in 2..Len(s) + 1 : LineStart(s, j) /\ (IsCrlf(s, j) \/ j = Len(s) + 1)}
Stop(s)  == First(Stops(s))

\* Mutant: the status line is read as a header.
HeaderLinesAll(s) == {j \in 1..Stop(s) - 1 : j = 1 \/ LineStart(s, j)}

\* Where the lines between the status line and the stop begin.
HeaderLines(s) == {j \in 1..Stop(s) - 1 : LineStart(s, j)}

Nth(S, k) == CHOOSE i \in S : Cardinality({j \in S : j <= i}) = k

\* Mutant: headers beyond the 32nd are stored as well.
ParsedHeadersAll(s) ==
  [k \in 1..Cardinality(HeaderLines(s)) |-> s[Nth(HeaderLines(s), k)]]

ParsedHeaders(s) ==
  LET n == Cardinality(HeaderLines(s))
  IN [k \in 1..(IF n > MaxHeaders THEN MaxHeaders ELSE n) |-> s[Nth(HeaderLines(s), k)]]

\* The body is what follows the first empty line at or after the stop.  (The
\* stop is the empty line that ends the headers, so that line, whose line end
\* comes before it, is not found again.)
Gaps(s) == {j \in Stop(s)..Len(s) : IsCrlf(s, j) /\ IsCrlf(s, j + 1)}

BodyStart(s) == First(Gaps(s)) + 2

Parsed(s) == [status |-> Status(s), headers |-> ParsedHeaders(s), body |-> None]

Return(r, result) ==
  /\ ret' = r /\ res' = result /\ pc' = "idle"
  /\ heap' = IF result.body = None THEN heap ELSE heap + 1
Die == pc' = "dead" /\ UNCHANGED <<ret, res, heap>>

\* The parser on string s, of which size tokens were received.  A gap found
\* beyond them makes the size of the body wrap: its allocation fails, or the
\* copy of 4 GiB dies.
Parse(s, size) ==
  \/ /\ \A j \in DOMAIN s : ~IsCrlf(s, j)
     /\ Return(-1, [EmptyRes EXCEPT !.status = Status(s)])
  \/ /\ \E j \in DOMAIN s : IsCrlf(s, j)
     /\ Stops(s) = {}
     /\ Die
  \/ /\ Stops(s) # {} /\ Gaps(s) = {}
     /\ Return(0, Parsed(s))
  \/ /\ Stops(s) # {} /\ Gaps(s) # {}
     /\ \/ /\ BodyStart(s) <= size + 1
           /\ Return(0, [Parsed(s) EXCEPT !.body = <<SubSeq(s, BodyStart(s), size)>>])
        \/ /\ BodyStart(s) > size + 1
           /\ Return(-1, Parsed(s)) \/ Die

-----------------------------------------------------------------------------
(* fossil_net_request_send.  clean is kept while every call found the      *)
(* connection open, sent the request whole and received one whole response *)
(* and no error.                                                           *)
Closes == \E i \in DOMAIN Lines : Lines[i].key = "Connection" /\ Lines[i].value = "close"

Sends(whole) ==
  /\ up' = Append(up, [call |-> call', close |-> Closes, whole |-> whole])
  /\ pc' = "receiving"
  /\ clean' = (clean /\ conn = "open" /\ whole)
  /\ UNCHANGED ret

\* A non-blocking send may take a part, or nothing; the count it returns is not
\* looked at.  A send on a connection that was reset raises SIGPIPE.
Send ==
  \/ conn # "reset" /\ Sends(TRUE)
  \/ conn # "reset" /\ ~blocking /\ Sends(FALSE)
  \/ conn # "reset" /\ ~blocking /\ ret' = -1 /\ UNCHANGED <<up, pc, clean>>
  \/ conn = "reset" /\ pc' = "dead" /\ UNCHANGED <<up, ret, clean>>

\* The caller frees the response of a call before the next.
RequestSend ==
  /\ pc = "idle" /\ call < MaxCalls /\ res.body = None
  /\ call' = call + 1
  /\ \/ ~Builds /\ ret' = -1 /\ UNCHANGED <<up, pc, clean>>
     \/ Builds /\ Send
  /\ UNCHANGED <<rvars, blocking, down, conn, buf, res, heap, answer>>

\* The string that the parser sees in recv_buf: a full array holds no NUL, and
\* what lies behind it is taken for a part of the response.
Stray(x) == [j \in DOMAIN x |-> [part |-> x[j], call |-> 0]]
Strings(array) ==
  IF Len(array) < BufSize THEN {array} ELSE {array \o Stray(x) : x \in Strays}

\* What was received lies in front of what recv_buf held: this function's data
\* of an earlier call, or nothing that the parser takes for text.
Received(n) ==
  /\ down' = SubSeq(down, n + 1, Len(down))
  /\ \E rest \in {SubSeq(buf, n + 1, Len(buf)), <<>>} :
       buf' = SubSeq(down, 1, n) \o rest
  /\ \E s \in Strings(buf') : Parse(s, n)

\* Mutant: a failing receive is tried again.
ReceiveRetried ==
  /\ pc = "receiving"
  /\ \E n \in 1..BufSize : n <= Len(down) /\ Received(n) /\ clean' = (clean /\ n = Len(down))
  /\ UNCHANGED <<rvars, blocking, up, conn, call, answer>>

Receive ==
  /\ pc = "receiving"
  /\ \/ \E n \in 1..BufSize :
          /\ n <= Len(down)
          /\ Received(n)
          /\ clean' = (clean /\ n = Len(down))
     \/ /\ down = <<>> /\ conn # "open"
        /\ Received(0)
        /\ clean' = FALSE
     \/ /\ down = <<>> /\ ((conn = "open" /\ ~blocking) \/ conn = "reset")
        /\ ret' = -1 /\ pc' = "idle" /\ clean' = FALSE
        /\ UNCHANGED <<down, buf, res, heap>>
  /\ UNCHANGED <<rvars, blocking, up, conn, call, answer>>

\* Mutant: the pointer is not reset.
ResponseFreeKeepsBody ==
  /\ pc = "idle"
  /\ heap' = IF res.body = None THEN heap ELSE heap - 1
  /\ res' = [res EXCEPT !.headers = <<>>]
  /\ UNCHANGED <<rvars, blocking, up, down, conn, pc, call, buf, ret, answer, clean>>

ResponseFree ==
  /\ pc = "idle"
  /\ heap' = IF res.body = None THEN heap ELSE heap - 1
  /\ res' = [res EXCEPT !.body = None, !.headers = <<>>]
  /\ UNCHANGED <<rvars, blocking, up, down, conn, pc, call, buf, ret, answer, clean>>

SetBlocking ==
  /\ pc = "idle" /\ \E b \in BOOLEAN : blocking' = b
  /\ UNCHANGED <<rvars, up, down, conn, pc, call, buf, res, ret, heap, answer, clean>>

Prepare == pc = "idle" /\ RNext /\ UNCHANGED xvars

-----------------------------------------------------------------------------
(* The server.                                                             *)
Response(c, n, body) ==
  [j \in 1..2 * n + 3 + Len(body) |->
     [call |-> c,
      part |-> IF j = 1 THEN "status"
               ELSE IF j > 2 * n + 3 THEN body[j - (2 * n + 3)]
               ELSE IF j % 2 = 0 \/ j = 2 * n + 3 THEN "crlf"
               ELSE "header"]]

\* It answers requests in order, and closes after one that says so.
Answer ==
  /\ conn = "open" /\ up # <<>> /\ Head(up).whole
  /\ \E n \in HeaderCounts, body \in BodyParts :
       /\ down' = down \o Response(Head(up).call, n, body)
       /\ answer' = [count |-> n, body |-> body]
  /\ up' = Tail(up)
  /\ conn' = IF Head(up).close THEN "fin" ELSE "open"
  /\ UNCHANGED <<rvars, blocking, pc, call, buf, res, ret, heap, clean>>

\* It closes when it will.
Close ==
  /\ conn = "open" /\ conn' = "fin"
  /\ clean' = FALSE
  /\ UNCHANGED <<rvars, blocking, up, down, pc, call, buf, res, ret, heap, answer>>

\* A request that arrives after the close is answered by a reset.
Reset ==
  /\ conn = "fin" /\ up # <<>>
  /\ conn' = "reset" /\ up' = <<>>
  /\ UNCHANGED <<rvars, blocking, down, pc, call, buf, res, ret, heap, answer, clean>>

XInit ==
  /\ RInit
  /\ blocking = TRUE
  /\ up = <<>> /\ down = <<>> /\ conn = "open"
  /\ pc = "idle" /\ call = 0 /\ buf = <<>> /\ res = EmptyRes /\ ret = 0 /\ heap = 0
  /\ answer = [count |-> 0, body |-> <<>>] /\ clean = TRUE

Next ==
  \/ Prepare \/ SetBlocking \/ RequestSend \/ Receive \/ ResponseFree
  \/ Answer \/ Close \/ Reset

\* A call that can go on does, and a server answers a request that it has whole.
\* Nothing makes it close while it waits for the rest of one.
Spec == XInit /\ [][Next]_vars /\ WF_vars(Receive) /\ WF_vars(Answer)

-----------------------------------------------------------------------------
(* Properties.                                                             *)
Tokens == [part : {"status", "crlf", "header", "text"}, call : 0..MaxCalls]

\* Every variable has its type.
XTypeOK ==
  /\ RTypeOK
  /\ blocking \in BOOLEAN /\ clean \in BOOLEAN
  /\ up \in Seq([call : 1..MaxCalls, close : BOOLEAN, whole : BOOLEAN])
  /\ down \in Seq(Tokens) /\ buf \in Seq(Tokens) /\ Len(buf) <= BufSize
  /\ conn \in {"open", "fin", "reset"} /\ pc \in {"idle", "receiving", "dead"}
  /\ call \in 0..MaxCalls
  /\ res.status \in 0..MaxCalls /\ res.headers \in Seq(Tokens)
  /\ Len(res.headers) <= MaxHeaders
  /\ ret \in {0, -1} /\ heap \in Nat
  /\ answer.count \in HeaderCounts \cup {0} /\ answer.body \in BodyParts \cup {<<>>}

Succeeds == pc = "receiving" /\ pc' = "idle" /\ ret' = 0

\* As long as nothing went wrong on the connection, a call that succeeds
\* returns the status and the headers of the response to its own request, and
\* as its body nothing but an end of that response's body.
OwnResponse ==
  [][Succeeds /\ clean' =>
       /\ res'.status = call
       /\ Len(res'.headers) = IF answer.count < MaxHeaders THEN answer.count ELSE MaxHeaders
       /\ \A k \in DOMAIN res'.headers : res'.headers[k] = [part |-> "header", call |-> call]
       /\ res'.body # None =>
            \E k \in 1..Len(answer.body) + 1 :
              res'.body[1] = [j \in 1..Len(answer.body) - k + 1 |->
                               [part |-> answer.body[k + j - 1], call |-> call]]]_vars

\* Every allocated body is the one the response holds: none is lost when a
\* parse fails and none is freed twice.
BodyOwned == heap = IF res.body = None THEN 0 ELSE 1

\* A call waits for ever only behind a request that was sent in part, its own or
\* that of an earlier non-blocking call (request.c:467, where the count that was
\* sent is ignored): if the server answers the requests that it has whole and
\* every request on the way is whole, the call returns or the process dies.
CallsReturn ==
  pc = "receiving" /\ (\A k \in DOMAIN up : up[k].whole) ~> pc # "receiving"

\* A call that returns 0 "populates the response structure with the received
\* data" (request.h:173): the body the server sent is the body of the response.
BodyDelivered ==
  [][Succeeds /\ clean' /\ answer.body # <<>> =>
       res'.body = <<[j \in DOMAIN answer.body |->
                       [part |-> answer.body[j], call |-> call]]>>]_vars

\* A call that returns 0 sent its request "and waits for a response"
\* (request.h:172): what it returns does not answer an earlier request.
RightResponse == [][Succeeds => res'.status \in {0, call}]_vars

=============================================================================
